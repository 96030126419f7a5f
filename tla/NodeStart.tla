------------------------------ MODULE NodeStart ------------------------------
(***************************************************************************)
(* "wunderctl start" (cli/commands/start.go, node.go, server.go): the      *)
(* WunderNode with a static configuration and the hooks server, a node.js  *)
(* process, in one errgroup.  A signal, the idle handler, or the failure   *)
(* of either cancels the context that both share; then the goroutine of    *)
(* the command shuts the Node down (HandleGracefulShutdown) and waits for  *)
(* both members of the group.                                              *)
(***************************************************************************)
EXTENDS NodeServer

CONSTANT Configs     \* the configurations that can be in the file

ASSUME StartAssumption == MaxStarts = 1

VARIABLES
    signalled,       \* sigCtx is done: a signal, or the idle handler
    main,            \* the goroutine of the command
    node,            \* the member of the group that runs StartWunderGraphNode
    hooks            \* the member that runs startWunderGraphServer

vars == <<serverVars, signalled, main, node, hooks>>

Running == {"load", "run"}

\* The member with the hooks process waits for the end of it.  The process is only
\* "made" until it is started; "missed" and "survives" are the same two for a process
\* whose stopping goroutine has come too early.
Waiting == {"load", "made", "missed", "run", "stopping", "survives"}
NoConfig == 0
TheServer == 1

TypeOK ==
    /\ ServerTypeOK(Configs \cup {NoConfig})
    /\ signalled \in BOOLEAN
    /\ main \in {"serve", "shutdown", "group", "exit 0", "exit 1"}
    /\ node \in Running \cup {"nil", "error"}
    /\ hooks \in Waiting \cup {"nil", "error"}

Init ==
    /\ \E taken \in SUBSET Addresses : ServerInit(NoConfig, taken)
    /\ signalled = FALSE
    /\ main = "serve"
    /\ node = "load"
    /\ hooks \in {"load", "nil"}      \* "nil": --exclude-server

\* The context of the errgroup, which is n.ctx.
GroupDone == signalled \/ node = "error" \/ hooks = "error"

Exited == main \in {"exit 0", "exit 1"}
-----------------------------------------------------------------------------
(* StartWunderGraphNode *)

\* The file is read and StartBlocking calls startServer.
LoadConfig ==
    /\ node = "load"
    /\ \E c \in Configs : Spawn(c)
    /\ node' = "run"
    /\ UNCHANGED <<server, tried, held, accepts, closed, signalled, main, hooks>>

LoadFails ==
    /\ node = "load"
    /\ node' = "error"
    /\ UNCHANGED <<serverVars, signalled, main, hooks>>

StartServer ==
    /\ ServerStep(TheServer)
    /\ UNCHANGED <<signalled, main, node, hooks>>

NodeReturns ==
    /\ node = "run"
    /\ \/ stage[TheServer] = "returned" /\ node' = "nil"
       \/ stage[TheServer] = "failed" /\ node' = "error"
    /\ UNCHANGED <<serverVars, signalled, main, hooks>>
-----------------------------------------------------------------------------
(* startWunderGraphServer *)

\* The files are looked for, and ScriptRunner.Run makes the command and a goroutine
\* that waits for the context.
HooksMake ==
    /\ hooks = "load"
    /\ hooks' \in {"made", "error"}
    /\ UNCHANGED <<serverVars, signalled, main, node>>

\* cmd.Start, which does not look at the context.
HooksStart ==
    /\ \/ hooks = "made" /\ hooks' \in {"run", "error"}
       \/ hooks = "missed" /\ hooks' \in {"survives", "error"}
    /\ UNCHANGED <<serverVars, signalled, main, node>>

\* The goroutine finds the context done, calls cmd.Stop and ends.  Stop does nothing to
\* a process that has not been started.
HooksTold ==
    /\ GroupDone
    /\ \/ hooks = "made" /\ hooks' = "missed"
       \/ hooks = "run" /\ hooks' = "stopping"
    /\ UNCHANGED <<serverVars, signalled, main, node>>

\* The process ends by itself.
HooksEnd ==
    /\ hooks \in {"run", "survives"}
    /\ hooks' \in {"nil", "error"}
    /\ UNCHANGED <<serverVars, signalled, main, node>>

\* The process obeys the signal of cmd.Stop.
HooksStopped ==
    /\ hooks = "stopping"
    /\ hooks' \in {"nil", "error"}
    /\ UNCHANGED <<serverVars, signalled, main, node>>
-----------------------------------------------------------------------------
(* The command *)

Signal ==
    /\ ~signalled /\ ~Exited
    /\ signalled' = TRUE
    /\ UNCHANGED <<serverVars, main, node, hooks>>

\* Mutant: only a signal is waited for.
ShutdownOnSignal ==
    /\ main = "serve"
    /\ signalled
    /\ CloseListeners
    /\ main' = "shutdown"
    /\ UNCHANGED <<server, starts, stage, config, tried, signalled, node, hooks>>

\* HandleGracefulShutdown.  When n.server is still nil there is nothing to shut
\* down, and nobody will try again.
Shutdown ==
    /\ main = "serve"
    /\ GroupDone
    /\ CloseListeners
    /\ main' = IF server = NoServer THEN "group" ELSE "shutdown"
    /\ UNCHANGED <<server, starts, stage, config, tried, signalled, node, hooks>>

\* The last request has ended, or gracefulTimeout has passed.
ShutdownReturns ==
    /\ main = "shutdown"
    /\ main' = "group"
    /\ UNCHANGED <<serverVars, signalled, node, hooks>>

\* g.Wait returns.
Exit ==
    /\ main = "group"
    /\ node \notin Running /\ hooks \notin Waiting
    /\ main' = IF ~signalled /\ (node = "error" \/ hooks = "error") THEN "exit 1" ELSE "exit 0"
    /\ UNCHANGED <<serverVars, signalled, node, hooks>>

Next ==
    \/ LoadConfig \/ LoadFails \/ StartServer \/ NodeReturns
    \/ HooksMake \/ HooksStart \/ HooksTold \/ HooksEnd \/ HooksStopped
    \/ Signal \/ Shutdown \/ ShutdownReturns \/ Exit

Spec == Init /\ [][Next]_vars

\* Every goroutine runs, a process that gets the signal of cmd.Stop stops, and Shutdown
\* has a time limit.  Nobody has to send a signal or to end the hooks server.
Fairness ==
    /\ WF_vars(LoadConfig \/ LoadFails) /\ WF_vars(StartServer) /\ WF_vars(NodeReturns)
    /\ WF_vars(HooksMake) /\ WF_vars(HooksStart) /\ WF_vars(HooksTold) /\ WF_vars(HooksStopped)
    /\ WF_vars(Shutdown) /\ WF_vars(ShutdownReturns) /\ WF_vars(Exit)

FairSpec == Spec /\ Fairness
-----------------------------------------------------------------------------
(* Properties *)

\* The shutdown came before startServer had set n.server.
ShutdownTooEarly == main = "group" /\ node \in Running /\ closed = {}

\* The context was done before the hooks process had been started.  Nobody stops it
\* then, and the command waits for it, although scriptrunner.go says "the script is
\* either stopped by cancelling the context or when the script is done".
ToldTooEarly == hooks = "survives"

\* Whatever ends one of the two - a signal, a failed start, the hooks server
\* breaking down - ends the process, unless the shutdown came before there was a server
\* or the hooks process was told to stop before it was started.
CancelEndsProcess == []~ShutdownTooEarly /\ []~ToldTooEarly => (GroupDone ~> Exited)
=============================================================================
