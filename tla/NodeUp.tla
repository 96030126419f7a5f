------------------------------- MODULE NodeUp -------------------------------
(***************************************************************************)
(* The WunderNode under "wunderctl up" (cli/commands/up.go): every time    *)
(* the configuration file changes, filePollConfig reads it and hands it to *)
(* reconfigureOnConfigUpdate, which closes n.server and starts another     *)
(* one, without waiting for either (pkg/node/node.go).  Both goroutines    *)
(* and the command's own talk over unbuffered channels.                    *)
(*                                                                         *)
(* The file is written by the config runner, a process that is killed and  *)
(* started again whenever a source file changes: first the file is         *)
(* truncated, then it is filled.                                           *)
(***************************************************************************)
EXTENDS NodeServer

CONSTANT MaxWrites   \* bound: how many configurations are ever written

ASSUME WritesAssumption == MaxWrites \in Nat \ {0}

VARIABLES
    ctxDone,         \* is the context of the command, which is n.ctx, done?
    main,            \* the goroutine of the command
    file,            \* the configuration in the file, or Unreadable
    written,         \* how many configurations were written, or begun
    writing,         \* is the config runner between truncating and filling?
    dirty,           \* has the watcher an event that it has not yet passed on?
    senders,         \* watcher callbacks that wait to send on configFileChange
    poller,          \* the goroutine of filePollConfig
    offered,         \* the configuration it sends on configCh
    reconf           \* the goroutine of reconfigureOnConfigUpdate

fileVars == <<file, written, writing, dirty>>
loopVars == <<senders, poller, offered, reconf>>
vars == <<serverVars, ctxDone, main, fileVars, loopVars>>

Unreadable == 0      \* absent, empty, or only partly there
Configs == 0 .. MaxWrites

TypeOK ==
    /\ ServerTypeOK(Configs)
    /\ ctxDone \in BOOLEAN
    /\ main \in {"trigger", "wait", "exited"}
    /\ file \in Configs
    /\ written \in 1 .. MaxWrites
    /\ writing \in BOOLEAN
    /\ dirty \in BOOLEAN
    /\ senders \in 0 .. 2 * MaxWrites
    /\ poller \in {"select", "read", "send", "failed", "returned"}
    /\ offered \in Configs
    /\ reconf \in {"select", "wait", "returned"}

\* The first build has run, with or without success.
Init ==
    /\ \E taken \in SUBSET Addresses : ServerInit(Unreadable, taken)
    /\ ctxDone = FALSE
    /\ main = "trigger"
    /\ file \in {1, Unreadable}
    /\ written = 1
    /\ writing = FALSE
    /\ dirty = FALSE
    /\ senders = 0
    /\ poller = "select"
    /\ offered = Unreadable
    /\ reconf = "select"

Alive == main # "exited"
-----------------------------------------------------------------------------
(* The config runner and the watcher of the configuration file *)

BeginWrite ==
    /\ Alive /\ ~writing
    /\ written < MaxWrites
    /\ written' = written + 1
    /\ writing' = TRUE
    /\ file' = Unreadable
    /\ dirty' = TRUE
    /\ UNCHANGED <<serverVars, ctxDone, main, loopVars>>

EndWrite ==
    /\ Alive /\ writing
    /\ writing' = FALSE
    /\ file' = written
    /\ dirty' = TRUE
    /\ UNCHANGED <<serverVars, ctxDone, main, written, loopVars>>

\* The runner is stopped between the two; the next write begins afresh.
WriteIsCutOff ==
    /\ Alive /\ writing
    /\ writing' = FALSE
    /\ UNCHANGED <<serverVars, ctxDone, main, file, written, dirty, loopVars>>

\* Mutant: the set of changed paths is not flushed.
DebouncedUnflushed ==
    /\ Alive /\ dirty
    /\ senders' = senders + 1
    /\ UNCHANGED <<serverVars, ctxDone, main, fileVars, poller, offered, reconf>>

\* 20 ms without an event: the callback runs in a goroutine of its own.
Debounced ==
    /\ Alive /\ dirty
    /\ dirty' = FALSE
    /\ senders' = senders + 1
    /\ UNCHANGED <<serverVars, ctxDone, main, file, written, writing, poller, offered, reconf>>
-----------------------------------------------------------------------------
(* filePollConfig *)

TakeChange ==
    /\ Alive /\ poller = "select"
    /\ senders > 0
    /\ senders' = senders - 1
    /\ poller' = "read"
    /\ UNCHANGED <<serverVars, ctxDone, main, fileVars, offered, reconf>>

\* The command itself asks for the first configuration.
TakeTrigger ==
    /\ poller = "select"
    /\ main = "trigger"
    /\ main' = "wait"
    /\ poller' = "read"
    /\ UNCHANGED <<serverVars, ctxDone, fileVars, senders, offered, reconf>>

PollEnds ==
    /\ Alive /\ poller = "select"
    /\ ctxDone
    /\ poller' = "returned"
    /\ UNCHANGED <<serverVars, ctxDone, main, fileVars, senders, offered, reconf>>

\* Mutant: the configuration that was read first is sent again.
ReadFileOnce ==
    /\ Alive /\ poller = "read"
    /\ file # Unreadable
    /\ offered' = IF offered = Unreadable THEN file ELSE offered
    /\ poller' = "send"
    /\ UNCHANGED <<serverVars, ctxDone, main, fileVars, senders, reconf>>

\* reloadFileConfig up to the send.
ReadFile ==
    /\ Alive /\ poller = "read"
    /\ file # Unreadable
    /\ offered' = file
    /\ poller' = "send"
    /\ UNCHANGED <<serverVars, ctxDone, main, fileVars, senders, reconf>>

\* An error of reloadFileConfig ends filePollConfig, and nothing else.
ReadFails ==
    /\ Alive /\ poller = "read"
    /\ file = Unreadable
    /\ poller' = "failed"
    /\ UNCHANGED <<serverVars, ctxDone, main, fileVars, senders, offered, reconf>>
-----------------------------------------------------------------------------
(* reconfigureOnConfigUpdate *)

\* The rendezvous on configCh; n.Close; the next server is started at once.
Reconfigure ==
    /\ Alive /\ poller = "send" /\ reconf = "select"
    /\ poller' = "select"
    /\ CloseListeners
    /\ Spawn(offered)
    /\ UNCHANGED <<server, tried, ctxDone, main, fileVars, senders, offered, reconf>>

\* The context of the errgroup: done with n.ctx, or when a startServer failed.
GroupDone == ctxDone \/ SomeStartFailed

ReconfEnds ==
    /\ Alive /\ reconf = "select"
    /\ GroupDone
    /\ reconf' = "wait"
    /\ UNCHANGED <<serverVars, ctxDone, main, fileVars, senders, poller, offered>>

\* g.Wait: every startServer has returned.
ReconfReturns ==
    /\ Alive /\ reconf = "wait"
    /\ \A s \in Starts : Ended(s)
    /\ reconf' = "returned"
    /\ UNCHANGED <<serverVars, ctxDone, main, fileVars, senders, poller, offered>>

StartServer(s) ==
    /\ Alive
    /\ ServerStep(s)
    /\ UNCHANGED <<ctxDone, main, fileVars, loopVars>>
-----------------------------------------------------------------------------
(* The command *)

Signal ==
    /\ Alive /\ ~ctxDone
    /\ ctxDone' = TRUE
    /\ UNCHANGED <<serverVars, main, fileVars, loopVars>>

\* StartBlocking returns when both goroutines have; its error ends the command.
NodeExits ==
    /\ Alive /\ ~ctxDone
    /\ poller = "failed"
    /\ reconf = "returned"
    /\ ctxDone' = TRUE
    /\ UNCHANGED <<serverVars, main, fileVars, loopVars>>

Exit ==
    /\ main = "wait"
    /\ ctxDone
    /\ CloseListeners
    /\ main' = "exited"
    /\ UNCHANGED <<server, starts, stage, config, tried, ctxDone, fileVars, loopVars>>

Next ==
    \/ BeginWrite \/ EndWrite \/ WriteIsCutOff \/ Debounced
    \/ TakeChange \/ TakeTrigger \/ PollEnds \/ ReadFile \/ ReadFails
    \/ Reconfigure \/ ReconfEnds \/ ReconfReturns
    \/ \E s \in Starts : StartServer(s)
    \/ Signal \/ NodeExits \/ Exit

Spec == Init /\ [][Next]_vars

\* Goroutines run, handlers get built, a debounced callback runs.  The senders
\* on a channel are served in their order, and a select picks at random among
\* the cases that are ready.  Nobody has to write a configuration or to send a
\* signal.
Fairness ==
    /\ WF_vars(Debounced)
    /\ SF_vars(TakeChange) /\ SF_vars(TakeTrigger) /\ WF_vars(PollEnds)
    /\ WF_vars(ReadFile) /\ WF_vars(ReadFails)
    /\ WF_vars(Reconfigure) /\ WF_vars(ReconfEnds) /\ WF_vars(ReconfReturns)
    /\ \A s \in Starts : WF_vars(StartServer(s))
    /\ WF_vars(NodeExits) /\ WF_vars(Exit)

FairSpec == Spec /\ Fairness
-----------------------------------------------------------------------------
(* Properties *)

\* Every startServer has come as far as Serve, and none has failed.
Settled ==
    /\ ~SomeStartFailed
    /\ \A s \in Starts : stage[s] \in {"new", "serve", "returned"}
    /\ \A a \in Addresses : held[a] \in Starts => accepts[a] # NoServer

\* However reloads overlapped, and whichever server the goroutines of each call
\* found in n.server, in the end the newest server is in that field, where Close
\* reaches it, and accepts requests on every address that had to be bound.
NewestServerServes ==
    Alive /\ starts > 0 /\ Settled =>
        server = starts /\ \A a \in Mandatory : accepts[a] = starts

\* As long as no startServer and no read of the file fails, a configuration
\* that stays in the file is served in the end, whatever came before it.
ConfigIsServed ==
    [](~SomeStartFailed /\ poller # "failed") =>
        \A c \in 1 .. MaxWrites :
            file = c ~> \/ file # c \/ ctxDone
                        \/ \A a \in Mandatory : accepts[a] # NoServer /\ config[accepts[a]] = c
=============================================================================
