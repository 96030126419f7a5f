---------------------------- MODULE ScriptRunner ----------------------------
(***************************************************************************)
(* scriptrunner.ScriptRunner (pkg/scriptrunner/scriptrunner.go): Run stops *)
(* the process of the run before, waits until its output is drained, and   *)
(* starts another one.  The fields cmd and cmdDoneChan have no lock, and   *)
(* Run is called from goroutines that know nothing of each other: each     *)
(* field is read and written in a step of its own.                         *)
(*                                                                         *)
(* A run of a runner is a pair <<k, r>>: the k-th call that there is of    *)
(* Run on runner r.  The gocmd.Cmd it creates, and the channel that is     *)
(* closed when its output is drained, have the same name.  gocmd does      *)
(* nothing when it is told to stop a process that has not started.         *)
(***************************************************************************)
EXTENDS Naturals, FiniteSets

CONSTANTS
    Runners,         \* the runners of a command
    Daemons,         \* those whose script does not end by itself
    MaxRuns          \* bound: calls of Run for each runner

ASSUME RunnersAssumption ==
    /\ IsFiniteSet(Runners)
    /\ Daemons \subseteq Runners
    /\ MaxRuns \in Nat \ {0}

VARIABLES
    call,            \* where the goroutine that calls Run is
    waitsFor,        \* the channel it receives from
    cmd,             \* the field b.cmd
    doneChan,        \* the field b.cmdDoneChan
    proc,            \* the process of each run
    told,            \* runs whose goroutine has received that the context is done
    ctxDone,         \* is the context of the command done?
    overlapped,      \* runners on which two calls of Run were under way at a time
    tooEarly         \* runners whose process was told to stop before it had started

runnerVars == <<call, waitsFor, cmd, doneChan, proc, told, ctxDone, overlapped, tooEarly>>

Runs == (1 .. MaxRuns) \X Runners
None == <<0, "none">>
RunOf(k, r) == <<k, r>>
RunnerOf(c) == c[2]

CallPlaces ==
    {"none", "stop", "await", "wait", "make", "channel", "start", "returned", "ended"}

RunnerTypeOK ==
    /\ call \in [Runs -> CallPlaces]
    /\ waitsFor \in [Runs -> Runs \cup {None}]
    /\ \A c \in Runs : waitsFor[c] # None => call[c] = "wait"
    /\ cmd \in [Runners -> Runs \cup {None}]
    /\ doneChan \in [Runners -> Runs \cup {None}]
    /\ proc \in [Runs -> {"new", "starting", "running", "stopping", "done"}]
    /\ told \subseteq Runs
    /\ ctxDone \in BOOLEAN
    /\ overlapped \subseteq Runners /\ tooEarly \subseteq Runners
    /\ \A c \in Runs : call[c] = "wait" /\ RunnerOf(c) \notin overlapped => waitsFor[c] # None

RunnerInit ==
    /\ call = [c \in Runs |-> "none"]
    /\ waitsFor = [c \in Runs |-> None]
    /\ cmd = [r \in Runners |-> None]
    /\ doneChan = [r \in Runners |-> None]
    /\ proc = [c \in Runs |-> "new"]
    /\ told = {}
    /\ ctxDone = FALSE
    /\ overlapped = {}
    /\ tooEarly = {}

InRun(c) == call[c] \in {"stop", "await", "wait", "make", "channel", "start"}

\* gocmd.Cmd.Stop: a signal to the process, if it has one.
Terminate(c) ==
    /\ proc' = IF proc[c] = "running" THEN [proc EXCEPT ![c] = "stopping"] ELSE proc
    /\ tooEarly' = IF proc[c] \in {"new", "starting"} THEN tooEarly \cup {RunnerOf(c)}
                                                      ELSE tooEarly

\* A goroutine calls Run.
BeginRun(c) ==
    /\ call' = [call EXCEPT ![c] = "stop"]
    /\ overlapped' = IF \E d \in Runs \ {c} : RunnerOf(d) = RunnerOf(c) /\ InRun(d)
                     THEN overlapped \cup {RunnerOf(c)} ELSE overlapped
    /\ UNCHANGED <<waitsFor, cmd, doneChan, proc, told, ctxDone, tooEarly>>

\* Mutant of Stop: the channel of no command is nil, and a receive from it blocks.
StopUnchecked(c) ==
    /\ call[c] = "stop"
    /\ call' = [call EXCEPT ![c] = "await"]
    /\ IF cmd[RunnerOf(c)] = None THEN UNCHANGED <<proc, tooEarly>>
                                  ELSE Terminate(cmd[RunnerOf(c)])
    /\ UNCHANGED <<waitsFor, cmd, doneChan, told, ctxDone, overlapped>>

\* Mutant of Stop: the output of the old process is not waited for.
StopWithoutWait(c) ==
    /\ call[c] = "stop"
    /\ IF cmd[RunnerOf(c)] = None THEN UNCHANGED <<proc, tooEarly>>
                                  ELSE Terminate(cmd[RunnerOf(c)])
    /\ call' = [call EXCEPT ![c] = "make"]
    /\ UNCHANGED <<waitsFor, cmd, doneChan, told, ctxDone, overlapped>>

\* Stop: without a cmd there is nothing to do.
Stop(c) ==
    /\ call[c] = "stop"
    /\ LET old == cmd[RunnerOf(c)]
       IN  IF old = None
           THEN /\ call' = [call EXCEPT ![c] = "make"]
                /\ UNCHANGED <<proc, tooEarly>>
           ELSE /\ Terminate(old)
                /\ call' = [call EXCEPT ![c] = "await"]
    /\ UNCHANGED <<waitsFor, cmd, doneChan, told, ctxDone, overlapped>>

\* Stop: the channel that the field holds by now, nil between the two writes of
\* the first call of Run.
Await(c) ==
    /\ call[c] = "await"
    /\ call' = [call EXCEPT ![c] = "wait"]
    /\ waitsFor' = [waitsFor EXCEPT ![c] = doneChan[RunnerOf(c)]]
    /\ UNCHANGED <<cmd, doneChan, proc, told, ctxDone, overlapped, tooEarly>>

\* Mutant of Stopped: the process was told, which does not mean that it has ended.
StoppedWhenTold(c) ==
    /\ call[c] = "wait"
    /\ waitsFor[c] # None /\ proc[waitsFor[c]] \in {"stopping", "done"}
    /\ call' = [call EXCEPT ![c] = "make"]
    /\ waitsFor' = [waitsFor EXCEPT ![c] = None]
    /\ UNCHANGED <<cmd, doneChan, proc, told, ctxDone, overlapped, tooEarly>>

\* Stop: the receive returns when the process has ended, and never from nil.
Stopped(c) ==
    /\ call[c] = "wait"
    /\ waitsFor[c] # None /\ proc[waitsFor[c]] = "done"
    /\ call' = [call EXCEPT ![c] = "make"]
    /\ waitsFor' = [waitsFor EXCEPT ![c] = None]
    /\ UNCHANGED <<cmd, doneChan, proc, told, ctxDone, overlapped, tooEarly>>

\* newCmd, and the first field.
Make(c) ==
    /\ call[c] = "make"
    /\ cmd' = [cmd EXCEPT ![RunnerOf(c)] = c]
    /\ call' = [call EXCEPT ![c] = "channel"]
    /\ UNCHANGED <<waitsFor, doneChan, proc, told, ctxDone, overlapped, tooEarly>>

\* The second field, and the goroutine that selects on the context.
MakeChannel(c) ==
    /\ call[c] = "channel"
    /\ doneChan' = [doneChan EXCEPT ![RunnerOf(c)] = c]
    /\ call' = [call EXCEPT ![c] = "start"]
    /\ UNCHANGED <<waitsFor, cmd, proc, told, ctxDone, overlapped, tooEarly>>

\* b.cmd.Start: of whatever command the field holds, and once.
Start(c) ==
    /\ call[c] = "start"
    /\ LET now == cmd[RunnerOf(c)]
       IN  proc' = IF proc[now] = "new" THEN [proc EXCEPT ![now] = "starting"] ELSE proc
    /\ call' = [call EXCEPT ![c] = "returned"]
    /\ UNCHANGED <<waitsFor, cmd, doneChan, told, ctxDone, overlapped, tooEarly>>

\* The caller receives from the channel that Run has returned.
RunEnds(c) ==
    /\ call[c] = "returned"
    /\ proc[c] = "done"
    /\ call' = [call EXCEPT ![c] = "ended"]
    /\ UNCHANGED <<waitsFor, cmd, doneChan, proc, told, ctxDone, overlapped, tooEarly>>

\* The goroutine of a run stops what the field holds by then.  It is gone once
\* the process has ended, as its select also receives from b.cmd.Done.
ContextEnds(c) ==
    /\ ctxDone
    /\ call[c] \in {"start", "returned"} /\ proc[c] # "done"
    /\ c \notin told
    /\ told' = told \cup {c}
    /\ Terminate(cmd[RunnerOf(c)])
    /\ UNCHANGED <<call, waitsFor, cmd, doneChan, ctxDone, overlapped>>

\* The operating system starts the process, and it ends: a script that does its
\* work, or one that was told to stop.
ProcessStarts(c) ==
    /\ proc[c] = "starting"
    /\ proc' = [proc EXCEPT ![c] = "running"]
    /\ UNCHANGED <<call, waitsFor, cmd, doneChan, told, ctxDone, overlapped, tooEarly>>

ProcessEnds(c) ==
    /\ \/ proc[c] = "running" /\ RunnerOf(c) \notin Daemons
       \/ proc[c] = "stopping"
    /\ proc' = [proc EXCEPT ![c] = "done"]
    /\ UNCHANGED <<call, waitsFor, cmd, doneChan, told, ctxDone, overlapped, tooEarly>>

\* A signal, or a server that could not start.
CancelContext ==
    /\ ~ctxDone
    /\ ctxDone' = TRUE
    /\ UNCHANGED <<call, waitsFor, cmd, doneChan, proc, told, overlapped, tooEarly>>

Live(c) == proc[c] \in {"starting", "running", "stopping"}
=============================================================================
