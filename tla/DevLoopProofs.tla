----------------------------- MODULE DevLoopProofs -----------------------------
(***************************************************************************)
(* Proofs about DevLoop, and the ScriptRunner in it, for any number of     *)
(* builds and of changes of the upstream.                                  *)
(***************************************************************************)
EXTENDS DevLoop, FiniteSetTheorems, TLAPS

\* A run has the field cmd to itself once it has made its command, and the
\* command in the field is of that runner and was made.
Made == {"channel", "start", "returned", "ended"}
CmdInv ==
    /\ \A r \in Runners : cmd[r] # None => RunnerOf(cmd[r]) = r /\ call[cmd[r]] \in Made
    /\ \A c \in Runs : call[c] \in Made => cmd[RunnerOf(c)] # None

\* No process starts before its command was made.
ProcInv == \A c \in Runs : call[c] \notin Made => proc[c] = "new"

\* What holds of a runner whose calls of Run do not overlap: one of them at most
\* is under way, it waits for the process in the field, and by the time that it
\* makes its command and starts it, there is no process.
AloneInv ==
    \A c, d \in Runs : RunnerOf(c) = RunnerOf(d) /\ RunnerOf(c) \notin overlapped =>
        /\ InRun(c) /\ InRun(d) => c = d
        /\ call[c] = "await" => cmd[RunnerOf(c)] # None
        /\ call[c] = "wait" => waitsFor[c] = cmd[RunnerOf(c)]
        /\ call[c] \in {"make", "channel", "start"} => ~Live(d)
        /\ call[c] \in {"channel", "start"} => cmd[RunnerOf(c)] = c /\ proc[c] = "new"
        /\ Live(c) => cmd[RunnerOf(c)] = c

\* The two fields of such a runner belong to one run, but between the two writes.
FieldsInv ==
    \A r \in Runners \ overlapped :
        doneChan[r] # cmd[r] => cmd[r] # None /\ call[cmd[r]] = "channel"

RunnerInv == RunnerTypeOK /\ CmdInv /\ ProcInv /\ AloneInv /\ FieldsInv

\* A build calls Run once on each of the runners, on the hooks server's last.
BuildInv ==
    \A k \in Builds :
        /\ build[k] = "none" => call[RunOf(k, "config")] = "none"
        /\ build[k] \in {"none", "config", "bundle"} => call[RunOf(k, "hooks")] = "none"

IInv == TypeOK /\ RunnerInv /\ BuildInv
-----------------------------------------------------------------------------
(* Runs *)

\* A run is its number and its runner; no run is none.
LEMMA RunsAre ==
    /\ \A c \in Runs : RunnerOf(c) \in Runners
    /\ \A k \in Builds, r \in Runners : RunOf(k, r) \in Runs /\ RunnerOf(RunOf(k, r)) = r
    /\ \A c \in Runs : \E k \in Builds : c = RunOf(k, RunnerOf(c))
    /\ None \notin Runs
BY RunnersAssumption DEF Runs, RunnerOf, RunOf, Builds, None

\* Builds have runs of their own.
LEMMA RunsDiffer ==
    ASSUME NEW j \in Builds, NEW k \in Builds, NEW q \in Runners, NEW r \in Runners,
           RunOf(j, q) = RunOf(k, r)
    PROVE  j = k /\ q = r
BY DEF RunOf

\* Both runners are runners.
LEMMA RunnersAre == "config" \in Runners /\ "hooks" \in Runners
BY DevAssumption
-----------------------------------------------------------------------------
(* The loop uses the runner in its own steps only, and calls Run where there *)
(* was no call yet.                                                          *)

\* What a run does once it was called.
RunStep(c) ==
    \/ Stop(c) \/ Await(c) \/ Stopped(c) \/ Make(c) \/ MakeChannel(c) \/ Start(c)
    \/ RunEnds(c) \/ ContextEnds(c) \/ ProcessStarts(c) \/ ProcessEnds(c)
RunnerNext ==
    \/ \E c \in Runs : (call[c] = "none" /\ BeginRun(c)) \/ RunStep(c)
    \/ CancelContext

\* Every step of the loop is a step of the runner, or leaves it alone.
LEMMA LoopUsesRunner == IInv /\ [Next]_vars => [RunnerNext]_runnerVars
<1> SUFFICES ASSUME IInv, [Next]_vars PROVE [RunnerNext]_runnerVars
  OBVIOUS
<1> USE RunsAre, RunnersAre DEF IInv, BuildInv
<1>1. CASE UpstreamChanges \/ PollBegins \/ (\E v \in Versions : PollEnds(v)) \/ WatchBegins
  BY <1>1 DEF UpstreamChanges, PollBegins, PollEnds, WatchBegins
<1>2. CASE FirstBuild
  <2>1. 1 \in Builds
    BY RunnersAssumption DEF Builds
  <2>2. call[RunOf(1, "config")] = "none" /\ BeginRun(RunOf(1, "config"))
    BY <1>2, <2>1 DEF FirstBuild
  <2>3. QED
    BY <2>1, <2>2 DEF RunnerNext
<1>3. ASSUME NEW k \in Builds, Debounced(k) PROVE [RunnerNext]_runnerVars
  <2>1. call[RunOf(k, "config")] = "none" /\ BeginRun(RunOf(k, "config"))
    BY <1>3 DEF Debounced
  <2>2. QED
    BY <2>1 DEF RunnerNext
<1>4. ASSUME NEW k \in Builds, ConfigRan(k) PROVE [RunnerNext]_runnerVars
  <2>1. RunStep(RunOf(k, "config"))
    BY <1>4 DEF ConfigRan, RunStep
  <2>2. QED
    BY <2>1 DEF RunnerNext
<1>5. ASSUME NEW k \in Builds, RestartHooks(k) PROVE [RunnerNext]_runnerVars
  <2>1. call[RunOf(k, "hooks")] = "none" /\ BeginRun(RunOf(k, "hooks"))
    BY <1>5 DEF RestartHooks
  <2>2. QED
    BY <2>1 DEF RunnerNext
<1>6. ASSUME NEW k \in Builds, RestartPoller(k) PROVE [RunnerNext]_runnerVars
  BY <1>6 DEF RestartPoller
<1>7. ASSUME NEW c \in Runs,
             RunnerStep(c) \/ GoroutineStep(c) \/ ScriptStarts(c) \/ ScriptEnds(c)
      PROVE  [RunnerNext]_runnerVars
  <2>1. RunStep(c)
    BY <1>7 DEF RunnerStep, GoroutineStep, ScriptStarts, ScriptEnds, RunStep
  <2>2. QED
    BY <2>1 DEF RunnerNext
<1>8. CASE Cancel
  BY <1>8 DEF Cancel, RunnerNext
<1>x. CASE Exit
  BY <1>x DEF Exit
<1>9. CASE UNCHANGED vars
  BY <1>9 DEF vars
<1> HIDE DEF IInv
<1>10. QED
  BY <1>1, <1>2, <1>3, <1>4, <1>5, <1>6, <1>7, <1>8, <1>x, <1>9 DEF Next
-----------------------------------------------------------------------------
(* The runner keeps its invariant *)

\* Stop goes on to await the command in the field, if there is one.
LEMMA StopIs ==
    ASSUME RunnerTypeOK, NEW c \in Runs, Stop(c)
    PROVE  /\ cmd' = cmd /\ told' = told /\ ctxDone' = ctxDone /\ overlapped' = overlapped
           /\ waitsFor' = waitsFor /\ doneChan' = doneChan
           /\ IF cmd[RunnerOf(c)] = None
              THEN call' = [call EXCEPT ![c] = "make"] /\ proc' = proc
              ELSE call' = [call EXCEPT ![c] = "await"]
           /\ proc' \in [Runs -> {"new", "starting", "running", "stopping", "done"}]
           /\ tooEarly' \subseteq Runners
<1>1. CASE cmd[RunnerOf(c)] = None
  BY <1>1 DEF Stop, RunnerTypeOK
<1>2. CASE cmd[RunnerOf(c)] # None
  <2>1. cmd[RunnerOf(c)] \in Runs
    BY <1>2, RunsAre DEF RunnerTypeOK
  <2>2. Terminate(cmd[RunnerOf(c)])
    BY <1>2 DEF Stop
  <2>3. /\ proc' \in [Runs -> {"new", "starting", "running", "stopping", "done"}]
        /\ tooEarly' \subseteq Runners
    BY <2>1, <2>2, RunsAre DEF Terminate, RunnerTypeOK
  <2>4. QED
    BY <1>2, <2>3 DEF Stop
<1>3. QED
  BY <1>1, <1>2

\* The fields of a runner are runs.
LEMMA RunnerTypeStep == RunnerInv /\ [RunnerNext]_runnerVars => RunnerTypeOK'
<1> SUFFICES ASSUME RunnerInv, [RunnerNext]_runnerVars PROVE RunnerTypeOK'
  OBVIOUS
<1> USE RunsAre DEF RunnerInv, RunnerTypeOK, CallPlaces, CmdInv, runnerVars, Made
<1>1. ASSUME NEW c \in Runs, call[c] = "none", BeginRun(c) PROVE RunnerTypeOK'
  BY <1>1 DEF BeginRun
<1>2. ASSUME NEW c \in Runs, Stop(c) PROVE RunnerTypeOK'
  <2>1. call[c] = "stop"
    BY <1>2 DEF Stop
  <2>2. \E next \in {"make", "await"} : call' = [call EXCEPT ![c] = next]
    BY <1>2, StopIs
  <2>3. /\ cmd' = cmd /\ told' = told /\ ctxDone' = ctxDone /\ overlapped' = overlapped
        /\ waitsFor' = waitsFor /\ doneChan' = doneChan
        /\ proc' \in [Runs -> {"new", "starting", "running", "stopping", "done"}]
        /\ tooEarly' \subseteq Runners
    BY <1>2, StopIs
  <2>4. /\ call' \in [Runs -> CallPlaces]
        /\ \A d \in Runs : call'[d] = "wait" <=> call[d] = "wait"
    BY <2>1, <2>2
  <2>5. QED
    BY <2>3, <2>4
<1>3. ASSUME NEW c \in Runs, Stopped(c) PROVE RunnerTypeOK'
  BY <1>3 DEF Stopped
<1>4. ASSUME NEW c \in Runs, Make(c) PROVE RunnerTypeOK'
  BY <1>4 DEF Make
<1>w. ASSUME NEW c \in Runs, Await(c) PROVE RunnerTypeOK'
  <2>1. call[c] = "await" /\ call' = [call EXCEPT ![c] = "wait"]
    BY <1>w DEF Await
  <2>2. RunnerOf(c) \notin overlapped => doneChan[RunnerOf(c)] # None
    <3>1. RunnerOf(c) \notin overlapped => cmd[RunnerOf(c)] # None
      BY <2>1 DEF AloneInv
    <3>2. ASSUME RunnerOf(c) \notin overlapped, cmd[RunnerOf(c)] # None,
                 call[cmd[RunnerOf(c)]] = "channel"
          PROVE  FALSE
      BY <2>1, <3>2 DEF AloneInv, InRun
    <3>3. QED
      BY <3>1, <3>2 DEF FieldsInv
  <2>3. QED
    BY <1>w, <2>2 DEF Await
<1>m. ASSUME NEW c \in Runs, MakeChannel(c) PROVE RunnerTypeOK'
  BY <1>m DEF MakeChannel
<1>5. ASSUME NEW c \in Runs, Start(c) PROVE RunnerTypeOK'
  BY <1>5 DEF Start
<1>6. ASSUME NEW c \in Runs, RunEnds(c) PROVE RunnerTypeOK'
  BY <1>6 DEF RunEnds
<1>7. ASSUME NEW c \in Runs, ContextEnds(c) PROVE RunnerTypeOK'
  BY <1>7 DEF ContextEnds, Terminate
<1>8. ASSUME NEW c \in Runs, ProcessStarts(c) PROVE RunnerTypeOK'
  BY <1>8 DEF ProcessStarts
<1>9. ASSUME NEW c \in Runs, ProcessEnds(c) PROVE RunnerTypeOK'
  BY <1>9 DEF ProcessEnds
<1>10. CASE CancelContext
  BY <1>10 DEF CancelContext
<1>11. CASE UNCHANGED runnerVars
  BY <1>11
<1> HIDE DEF RunnerInv, RunnerTypeOK, CmdInv, ProcInv, AloneInv, FieldsInv
<1>12. QED
  BY <1>1, <1>2, <1>3, <1>4, <1>5, <1>6, <1>7, <1>8, <1>9, <1>10, <1>11, <1>w, <1>m
     DEF RunnerNext, RunStep

\* The field cmd holds a command that was made.
LEMMA CmdStep == RunnerInv /\ [RunnerNext]_runnerVars => CmdInv'
<1> SUFFICES ASSUME RunnerInv, [RunnerNext]_runnerVars PROVE CmdInv'
  OBVIOUS
<1> USE RunsAre DEF RunnerInv, RunnerTypeOK, CmdInv, runnerVars, Made
<1>1. ASSUME NEW c \in Runs, call[c] = "none", BeginRun(c) PROVE CmdInv'
  BY <1>1 DEF BeginRun
<1>2. ASSUME NEW c \in Runs, Stop(c) PROVE CmdInv'
  <2>1. call[c] = "stop"
    BY <1>2 DEF Stop
  <2>2. \E next \in {"make", "await"} : call' = [call EXCEPT ![c] = next]
    BY <1>2, StopIs
  <2>3. cmd' = cmd
    BY <1>2, StopIs
  <2>4. \A d \in Runs : call'[d] \in Made <=> call[d] \in Made
    BY <2>1, <2>2
  <2>5. QED
    BY <2>3, <2>4
<1>3. ASSUME NEW c \in Runs, Stopped(c) PROVE CmdInv'
  BY <1>3 DEF Stopped
<1>4. ASSUME NEW c \in Runs, Make(c) PROVE CmdInv'
  BY <1>4 DEF Make
<1>w. ASSUME NEW c \in Runs, Await(c) PROVE CmdInv'
  BY <1>w DEF Await
<1>m. ASSUME NEW c \in Runs, MakeChannel(c) PROVE CmdInv'
  BY <1>m DEF MakeChannel
<1>5. ASSUME NEW c \in Runs, Start(c) PROVE CmdInv'
  BY <1>5 DEF Start
<1>6. ASSUME NEW c \in Runs, RunEnds(c) PROVE CmdInv'
  BY <1>6 DEF RunEnds
<1>7. ASSUME NEW c \in Runs, ContextEnds(c) PROVE CmdInv'
  BY <1>7 DEF ContextEnds, Terminate
<1>8. ASSUME NEW c \in Runs, ProcessStarts(c) PROVE CmdInv'
  BY <1>8 DEF ProcessStarts
<1>9. ASSUME NEW c \in Runs, ProcessEnds(c) PROVE CmdInv'
  BY <1>9 DEF ProcessEnds
<1>10. CASE CancelContext
  BY <1>10 DEF CancelContext
<1>11. CASE UNCHANGED runnerVars
  BY <1>11
<1> HIDE DEF RunnerInv, RunnerTypeOK, CmdInv, ProcInv, AloneInv, FieldsInv
<1>12. QED
  BY <1>1, <1>2, <1>3, <1>4, <1>5, <1>6, <1>7, <1>8, <1>9, <1>10, <1>11, <1>w, <1>m
     DEF RunnerNext, RunStep

\* A process is started after its command was made.
LEMMA ProcStep == RunnerInv /\ [RunnerNext]_runnerVars => ProcInv'
<1> SUFFICES ASSUME RunnerInv, [RunnerNext]_runnerVars PROVE ProcInv'
  OBVIOUS
<1> USE RunsAre DEF RunnerInv, RunnerTypeOK, CmdInv, ProcInv, runnerVars, Made
<1>1. ASSUME NEW c \in Runs, call[c] = "none", BeginRun(c) PROVE ProcInv'
  BY <1>1 DEF BeginRun
<1>2. ASSUME NEW c \in Runs, Stop(c) PROVE ProcInv'
  <2>1. call[c] = "stop" /\ \E next \in {"make", "await"} : call' = [call EXCEPT ![c] = next]
    BY <1>2, StopIs DEF Stop
  <2>2. \A d \in Runs : call'[d] \in Made <=> call[d] \in Made
    BY <2>1
  <2>3. \A d \in Runs : proc[d] = "new" => proc'[d] = "new"
    BY <1>2 DEF Stop, Terminate
  <2>4. QED
    BY <2>2, <2>3
<1>3. ASSUME NEW c \in Runs, Stopped(c) PROVE ProcInv'
  BY <1>3 DEF Stopped
<1>4. ASSUME NEW c \in Runs, Make(c) PROVE ProcInv'
  BY <1>4 DEF Make
<1>w. ASSUME NEW c \in Runs, Await(c) PROVE ProcInv'
  BY <1>w DEF Await
<1>m. ASSUME NEW c \in Runs, MakeChannel(c) PROVE ProcInv'
  BY <1>m DEF MakeChannel
<1>5. ASSUME NEW c \in Runs, Start(c) PROVE ProcInv'
  BY <1>5 DEF Start
<1>6. ASSUME NEW c \in Runs, RunEnds(c) PROVE ProcInv'
  BY <1>6 DEF RunEnds
<1>7. ASSUME NEW c \in Runs, ContextEnds(c) PROVE ProcInv'
  BY <1>7 DEF ContextEnds, Terminate
<1>8. ASSUME NEW c \in Runs, ProcessStarts(c) PROVE ProcInv'
  BY <1>8 DEF ProcessStarts
<1>9. ASSUME NEW c \in Runs, ProcessEnds(c) PROVE ProcInv'
  BY <1>9 DEF ProcessEnds
<1>10. CASE CancelContext
  BY <1>10 DEF CancelContext
<1>11. CASE UNCHANGED runnerVars
  BY <1>11
<1> HIDE DEF RunnerInv, RunnerTypeOK, CmdInv, ProcInv, AloneInv, FieldsInv
<1>12. QED
  BY <1>1, <1>2, <1>3, <1>4, <1>5, <1>6, <1>7, <1>8, <1>9, <1>10, <1>11, <1>w, <1>m
     DEF RunnerNext, RunStep

\* A call of Run that is alone stops the process before it starts another.
LEMMA AloneStep == RunnerInv /\ [RunnerNext]_runnerVars => AloneInv'
<1> SUFFICES ASSUME RunnerInv, [RunnerNext]_runnerVars PROVE AloneInv'
  OBVIOUS
<1> USE RunsAre
        DEF RunnerInv, RunnerTypeOK, CmdInv, ProcInv, AloneInv, runnerVars, Made, InRun, Live
<1>1. ASSUME NEW c \in Runs, call[c] = "none", BeginRun(c) PROVE AloneInv'
  BY <1>1 DEF BeginRun
<1>2. ASSUME NEW c \in Runs, Stop(c) PROVE AloneInv'
  BY <1>2 DEF Stop, Terminate
<1>3. ASSUME NEW c \in Runs, Stopped(c) PROVE AloneInv'
  BY <1>3 DEF Stopped
<1>4. ASSUME NEW c \in Runs, Make(c) PROVE AloneInv'
  BY <1>4 DEF Make
<1>w. ASSUME NEW c \in Runs, Await(c) PROVE AloneInv'
  <2>1. call[c] = "await" /\ call' = [call EXCEPT ![c] = "wait"]
        /\ UNCHANGED <<cmd, proc, overlapped>>
        /\ waitsFor' = [waitsFor EXCEPT ![c] = doneChan[RunnerOf(c)]]
    BY <1>w DEF Await
  <2>2. RunnerOf(c) \notin overlapped => doneChan[RunnerOf(c)] = cmd[RunnerOf(c)]
    BY <2>1 DEF FieldsInv
  <2>3. QED
    BY <2>1, <2>2
<1>m. ASSUME NEW c \in Runs, MakeChannel(c) PROVE AloneInv'
  BY <1>m DEF MakeChannel
<1>5. ASSUME NEW c \in Runs, Start(c) PROVE AloneInv'
  BY <1>5 DEF Start
<1>6. ASSUME NEW c \in Runs, RunEnds(c) PROVE AloneInv'
  BY <1>6 DEF RunEnds
<1>7. ASSUME NEW c \in Runs, ContextEnds(c) PROVE AloneInv'
  BY <1>7 DEF ContextEnds, Terminate
<1>8. ASSUME NEW c \in Runs, ProcessStarts(c) PROVE AloneInv'
  BY <1>8 DEF ProcessStarts
<1>9. ASSUME NEW c \in Runs, ProcessEnds(c) PROVE AloneInv'
  BY <1>9 DEF ProcessEnds
<1>10. CASE CancelContext
  BY <1>10 DEF CancelContext
<1>11. CASE UNCHANGED runnerVars
  BY <1>11
<1> HIDE DEF RunnerInv, RunnerTypeOK, CmdInv, ProcInv, AloneInv, FieldsInv
<1>12. QED
  BY <1>1, <1>2, <1>3, <1>4, <1>5, <1>6, <1>7, <1>8, <1>9, <1>10, <1>11, <1>w, <1>m
     DEF RunnerNext, RunStep

\* The two fields are written in a call that is alone.
LEMMA FieldsStep == RunnerInv /\ [RunnerNext]_runnerVars => FieldsInv'
<1> SUFFICES ASSUME RunnerInv, [RunnerNext]_runnerVars PROVE FieldsInv'
  OBVIOUS
<1> USE RunsAre
        DEF RunnerInv, RunnerTypeOK, CmdInv, AloneInv, FieldsInv, runnerVars, Made, InRun
<1>1. ASSUME NEW c \in Runs, call[c] = "none", BeginRun(c) PROVE FieldsInv'
  BY <1>1 DEF BeginRun
<1>2. ASSUME NEW c \in Runs, Stop(c) PROVE FieldsInv'
  BY <1>2 DEF Stop
<1>3. ASSUME NEW c \in Runs, Await(c) PROVE FieldsInv'
  BY <1>3 DEF Await
<1>4. ASSUME NEW c \in Runs, Stopped(c) PROVE FieldsInv'
  BY <1>4 DEF Stopped
<1>5. ASSUME NEW c \in Runs, Make(c) PROVE FieldsInv'
  BY <1>5 DEF Make
<1>6. ASSUME NEW c \in Runs, MakeChannel(c) PROVE FieldsInv'
  BY <1>6 DEF MakeChannel
<1>7. ASSUME NEW c \in Runs, Start(c) PROVE FieldsInv'
  BY <1>7 DEF Start
<1>8. ASSUME NEW c \in Runs, RunEnds(c) PROVE FieldsInv'
  BY <1>8 DEF RunEnds
<1>9. ASSUME NEW c \in Runs, ContextEnds(c) PROVE FieldsInv'
  BY <1>9 DEF ContextEnds
<1>10. ASSUME NEW c \in Runs, ProcessStarts(c) PROVE FieldsInv'
  BY <1>10 DEF ProcessStarts
<1>11. ASSUME NEW c \in Runs, ProcessEnds(c) PROVE FieldsInv'
  BY <1>11 DEF ProcessEnds
<1>12. CASE CancelContext
  BY <1>12 DEF CancelContext
<1>13. CASE UNCHANGED runnerVars
  BY <1>13
<1> HIDE DEF RunnerInv, RunnerTypeOK, CmdInv, ProcInv, AloneInv, FieldsInv
<1>14. QED
  BY <1>1, <1>2, <1>3, <1>4, <1>5, <1>6, <1>7, <1>8, <1>9, <1>10, <1>11, <1>12, <1>13
     DEF RunnerNext, RunStep

-----------------------------------------------------------------------------
(* The loop *)

\* What the loop adds to the runner stays in its ranges.
LoopTypeOK ==
    /\ upstream \in Versions /\ cache \in Versions /\ config \in Versions
    /\ polls \subseteq Versions
    /\ watching \in BOOLEAN /\ missed \in BOOLEAN /\ pending \in BOOLEAN
    /\ build \in [Builds -> {"none", "config", "bundle", "poller", "done"}]
    /\ reads \in [Runs -> Versions]
    /\ exited \in BOOLEAN

\* Versions are those of the upstream.
LEMMA LoopTypeStep == IInv /\ [Next]_vars => LoopTypeOK'
<1> SUFFICES ASSUME IInv, [Next]_vars PROVE LoopTypeOK'
  OBVIOUS
<1> USE DevAssumption DEF IInv, TypeOK, LoopTypeOK, vars, devVars, inputVars, Versions
<1>1. CASE UpstreamChanges
  BY <1>1 DEF UpstreamChanges
<1>2. CASE PollBegins
  BY <1>2 DEF PollBegins
<1>3. ASSUME NEW v \in Versions, PollEnds(v) PROVE LoopTypeOK'
  BY <1>3 DEF PollEnds
<1>4. CASE FirstBuild
  BY <1>4 DEF FirstBuild
<1>5. CASE WatchBegins
  BY <1>5 DEF WatchBegins
<1>6. ASSUME NEW k \in Builds, Debounced(k) PROVE LoopTypeOK'
  BY <1>6 DEF Debounced
<1>7. ASSUME NEW k \in Builds, ConfigRan(k) PROVE LoopTypeOK'
  BY <1>7 DEF ConfigRan
<1>8. ASSUME NEW k \in Builds, RestartHooks(k) PROVE LoopTypeOK'
  BY <1>8 DEF RestartHooks
<1>9. ASSUME NEW k \in Builds, RestartPoller(k) PROVE LoopTypeOK'
  BY <1>9 DEF RestartPoller
<1>10. ASSUME NEW c \in Runs, RunnerStep(c) PROVE LoopTypeOK'
  BY <1>10 DEF RunnerStep
<1>11. ASSUME NEW c \in Runs, GoroutineStep(c) PROVE LoopTypeOK'
  BY <1>11 DEF GoroutineStep
<1>12. ASSUME NEW c \in Runs, ScriptStarts(c) PROVE LoopTypeOK'
  BY <1>12 DEF ScriptStarts
<1>13. ASSUME NEW c \in Runs, ScriptEnds(c) PROVE LoopTypeOK'
  BY <1>13 DEF ScriptEnds
<1>14. CASE Cancel
  BY <1>14 DEF Cancel
<1>x. CASE Exit
  BY <1>x DEF Exit
<1>15. CASE UNCHANGED vars
  BY <1>15
<1> HIDE DEF IInv, TypeOK
<1>16. QED
  BY <1>1, <1>2, <1>3, <1>4, <1>5, <1>6, <1>7, <1>8, <1>9, <1>10, <1>11, <1>12,
     <1>13, <1>14, <1>15, <1>x DEF Next

\* A build calls Run as it goes on.
LEMMA BuildStep == IInv /\ [Next]_vars => BuildInv'
<1> SUFFICES ASSUME IInv, [Next]_vars PROVE BuildInv'
  OBVIOUS
<1> USE RunsAre, RunnersAre, RunsDiffer
        DEF IInv, RunnerTypeOK, TypeOK, BuildInv, vars, devVars, inputVars, runnerVars
<1>1. CASE UpstreamChanges
  BY <1>1 DEF UpstreamChanges
<1>2. CASE PollBegins
  BY <1>2 DEF PollBegins
<1>3. ASSUME NEW v \in Versions, PollEnds(v) PROVE BuildInv'
  BY <1>3 DEF PollEnds
<1>4. CASE FirstBuild
  <2>1. 1 \in Builds
    BY RunnersAssumption DEF Builds
  <2>2. QED
    BY <1>4, <2>1 DEF FirstBuild, BeginRun
<1>5. CASE WatchBegins
  BY <1>5 DEF WatchBegins
<1>6. ASSUME NEW k \in Builds, Debounced(k) PROVE BuildInv'
  BY <1>6 DEF Debounced, BeginRun
<1>7. ASSUME NEW k \in Builds, ConfigRan(k) PROVE BuildInv'
  BY <1>7 DEF ConfigRan, RunEnds
<1>8. ASSUME NEW k \in Builds, RestartHooks(k) PROVE BuildInv'
  BY <1>8 DEF RestartHooks, BeginRun
<1>9. ASSUME NEW k \in Builds, RestartPoller(k) PROVE BuildInv'
  BY <1>9 DEF RestartPoller
<1>10. ASSUME NEW c \in Runs, RunnerStep(c) PROVE BuildInv'
  BY <1>10 DEF RunnerStep, Stop, Await, Stopped, Make, MakeChannel, Start
<1>11. ASSUME NEW c \in Runs, GoroutineStep(c) PROVE BuildInv'
  BY <1>11 DEF GoroutineStep, ContextEnds
<1>12. ASSUME NEW c \in Runs, ScriptStarts(c) PROVE BuildInv'
  BY <1>12 DEF ScriptStarts, ProcessStarts
<1>13. ASSUME NEW c \in Runs, ScriptEnds(c) PROVE BuildInv'
  BY <1>13 DEF ScriptEnds, ProcessEnds
<1>14. CASE Cancel
  BY <1>14 DEF Cancel, CancelContext
<1>x. CASE Exit
  BY <1>x DEF Exit
<1>15. CASE UNCHANGED vars
  BY <1>15
<1> HIDE DEF IInv, TypeOK
<1>16. QED
  BY <1>1, <1>2, <1>3, <1>4, <1>5, <1>6, <1>7, <1>8, <1>9, <1>10, <1>11, <1>12,
     <1>13, <1>14, <1>15, <1>x DEF Next

-----------------------------------------------------------------------------
(* The theorems *)

\* The invariant holds in every state.
LEMMA Inductive == Spec => []IInv
<1>1. Init => IInv
  <2> SUFFICES ASSUME Init PROVE IInv
    OBVIOUS
  <2>1. RunnerInv
    BY RunsAre DEF Init, RunnerInit, RunnerInv, RunnerTypeOK, CallPlaces, CmdInv, ProcInv, AloneInv,
                   FieldsInv, Made, InRun, Live
  <2>2. TypeOK
    <3>1. 0 \in Versions
      BY DevAssumption DEF Versions
    <3>2. reads \in [Runs -> Versions]
      BY <3>1 DEF Init
    <3>3. build \in [Builds -> {"none", "config", "bundle", "poller", "done"}]
      BY DEF Init
    <3>4. LoopTypeOK
      BY <3>1, <3>2, <3>3 DEF Init, LoopTypeOK
    <3>5. QED
      BY <2>1, <3>4 DEF TypeOK, LoopTypeOK, RunnerInv
  <2>3. BuildInv
    BY RunsAre, RunnersAre DEF Init, RunnerInit, BuildInv
  <2>4. QED
    BY <2>1, <2>2, <2>3 DEF IInv
<1>2. IInv /\ [Next]_vars => IInv'
  <2> SUFFICES ASSUME IInv, [Next]_vars PROVE IInv'
    OBVIOUS
  <2>1. RunnerInv'
    BY LoopUsesRunner, RunnerTypeStep, CmdStep, ProcStep, AloneStep, FieldsStep DEF IInv, RunnerInv
  <2>2. TypeOK'
    BY <2>1, LoopTypeStep DEF TypeOK, LoopTypeOK, RunnerInv
  <2>3. QED
    BY <2>1, <2>2, BuildStep DEF IInv
<1>3. QED
  BY <1>1, <1>2, PTL DEF Spec

\* What the runners do by themselves, called by whoever wants to.
RunnerSpec == RunnerInit /\ [][RunnerNext]_runnerVars

\* The build loop is a user of the script runners: all that it does to them is what
\* they do by themselves, and no call of Run is begun a second time.
THEOREM LoopRunsRunners == Spec => RunnerSpec
<1>1. Init => RunnerInit
  BY DEF Init
<1>2. IInv /\ [Next]_vars => [RunnerNext]_runnerVars
  BY LoopUsesRunner
<1>3. QED
  BY <1>1, <1>2, Inductive, PTL DEF Spec, RunnerSpec

\* Type correctness of the build loop and of the runners in it.
THEOREM TypeCorrect == Spec => []TypeOK
BY Inductive, PTL DEF IInv

\* A runner whose calls of Run do not overlap has one process at most, and can
\* stop it.
THEOREM OneProcess == Spec => []OneProcessPerRunner
<1>1. IInv => OneProcessPerRunner
  <2> SUFFICES ASSUME IInv, NEW r \in Runners \ overlapped
               PROVE  /\ Cardinality({c \in Runs : RunnerOf(c) = r /\ Live(c)}) <= 1
                      /\ \A c \in Runs : (RunnerOf(c) = r /\ Live(c)) => cmd[r] = c
    BY DEF OneProcessPerRunner
  <2> DEFINE live == {c \in Runs : RunnerOf(c) = r /\ Live(c)}
  <2>1. \A c \in Runs : (RunnerOf(c) = r /\ Live(c)) => cmd[r] = c
    BY DEF IInv, RunnerInv, AloneInv
  <2>2. live \subseteq {cmd[r]}
    BY <2>1
  <2>3. Cardinality({cmd[r]}) = 1 /\ IsFiniteSet({cmd[r]})
    BY FS_Singleton
  <2>4. Cardinality(live) <= 1
    BY <2>2, <2>3, FS_Subset
  <2>5. QED
    BY <2>1, <2>4
<1>2. QED
  BY <1>1, Inductive, PTL
-----------------------------------------------------------------------------
(* A ScriptRunner implements the slot its callers rely on *)

\* The only member of a set is the one that is chosen.
LEMMA OneOfIs ==
    /\ OneOf({}) = None
    /\ \A S, c : c \in S /\ (\A d \in S : d = c) => OneOf(S) = c
<1>1. OneOf({}) = None
  BY DEF OneOf
<1>2. ASSUME NEW S, NEW c \in S, \A d \in S : d = c PROVE OneOf(S) = c
  BY <1>2 DEF OneOf
<1>3. QED
  BY <1>1, <1>2

\* While the calls on a runner are alone, the one that asks is the one under way, and
\* the one that the slot holds is the one that lives.
SlotIs(r) ==
    /\ Asking(r) \in Runs \cup {None} /\ Holding(r) \in Runs \cup {None}
    /\ r \in overlapped => Asking(r) = None /\ Holding(r) = None
    /\ r \notin overlapped =>
          /\ \A c \in Runs : RunnerOf(c) = r /\ InRun(c) <=> Asking(r) = c
          /\ \A c \in Runs : RunnerOf(c) = r /\ Live(c) <=> Holding(r) = c

\* By AloneInv neither can be two.
LEMMA SlotsAre == RunnerInv => \A r \in Runners : SlotIs(r)
<1> SUFFICES ASSUME RunnerInv, NEW r \in Runners PROVE SlotIs(r)
  OBVIOUS
<1> DEFINE A == {c \in Runs : RunnerOf(c) = r /\ r \notin overlapped /\ InRun(c)}
           H == {c \in Runs : RunnerOf(c) = r /\ r \notin overlapped /\ Live(c)}
<1>1. \A c, d \in A : c = d
  BY DEF RunnerInv, AloneInv
<1>2. \A c, d \in H : c = d
  BY DEF RunnerInv, AloneInv
<1>3. (A = {} /\ Asking(r) = None) \/ \E c \in A : A = {c} /\ Asking(r) = c
  BY <1>1, OneOfIs DEF Asking
<1>4. (H = {} /\ Holding(r) = None) \/ \E c \in H : H = {c} /\ Holding(r) = c
  BY <1>2, OneOfIs DEF Holding
<1>5. QED
  BY <1>3, <1>4, RunsAre DEF SlotIs

AllSlotsAre == \A r \in Runners : SlotIs(r)

\* The invariant of the state after a step says as much of that state.
LEMMA SlotsAreAfter == RunnerInv' => \A r \in Runners : SlotIs(r)'
<1>1. RunnerInv => AllSlotsAre
  BY SlotsAre DEF AllSlotsAre
<1>2. RunnerInv' => AllSlotsAre'
  BY <1>1, PTL
<1>3. QED
  BY <1>2 DEF AllSlotsAre

\* A slot shows of its runner's calls whether they are under way, and nothing else.
LEMMA AskingUnchanged ==
    ASSUME NEW r \in Runners, r \in overlapped' <=> r \in overlapped,
           r \in overlapped \/ \A d \in Runs : RunnerOf(d) = r => (InRun(d)' <=> InRun(d))
    PROVE  Asking(r)' = Asking(r)
<1>1. {d \in Runs : RunnerOf(d) = r /\ r \notin overlapped /\ InRun(d)}'
          = {d \in Runs : RunnerOf(d) = r /\ r \notin overlapped /\ InRun(d)}
  OBVIOUS
<1>2. QED
  BY <1>1 DEF Asking

\* It shows of its runner's processes whether they live.
LEMMA HoldingUnchanged ==
    ASSUME NEW r \in Runners, r \in overlapped' <=> r \in overlapped,
           r \in overlapped \/ \A d \in Runs : RunnerOf(d) = r => (Live(d)' <=> Live(d))
    PROVE  Holding(r)' = Holding(r)
<1>1. {d \in Runs : RunnerOf(d) = r /\ r \notin overlapped /\ Live(d)}'
          = {d \in Runs : RunnerOf(d) = r /\ r \notin overlapped /\ Live(d)}
  OBVIOUS
<1>2. QED
  BY <1>1 DEF Holding

\* A call asks for its process when no other is under way, and overlaps it otherwise.
LEMMA BeginRunRefines ==
    ASSUME RunnerInv, RunnerInv', NEW c \in Runs, call[c] = "none", BeginRun(c)
    PROVE  Slot!Next
<1> DEFINE s == RunnerOf(c)
<1>1. s \in Runners
  BY RunsAre
<1>2. proc' = proc /\ ctxDone' = ctxDone /\ call' = [call EXCEPT ![c] = "stop"]
  BY DEF BeginRun
<1>3. \A d \in Runs : InRun(d)' <=> InRun(d) \/ d = c
  BY <1>2 DEF InRun, RunnerInv, RunnerTypeOK
<1>4. \A d \in Runs : Live(d)' <=> Live(d)
  BY <1>2 DEF Live
<1>5. Used' = Used \cup {c} /\ c \notin Used
  BY <1>2 DEF Used, RunnerInv, RunnerTypeOK
<1>6. \A r \in Runners \ {s} : Asking(r)' = Asking(r) /\ Holding(r)' = Holding(r)
  <2> SUFFICES ASSUME NEW r \in Runners \ {s}
               PROVE  Asking(r)' = Asking(r) /\ Holding(r)' = Holding(r)
    OBVIOUS
  <2>1. r \in overlapped' <=> r \in overlapped
    BY DEF BeginRun
  <2>2. QED
    BY <1>3, <1>4, <2>1, AskingUnchanged, HoldingUnchanged
<1>7. CASE s \in overlapped \/ \E d \in Runs \ {c} : RunnerOf(d) = s /\ InRun(d)
  <2>1. overlapped' = overlapped \cup {s}
    BY <1>7 DEF BeginRun
  <2>2. s \in overlapped \/ Asking(s) # None
    BY <1>1, <1>7, SlotsAre, RunsAre DEF SlotIs
  <2>3. Asking(s)' = None /\ Holding(s)' = None
    BY <1>1, <2>1, SlotsAreAfter DEF SlotIs
  <2>4. ToldRunners' = ToldRunners \ {s}
    BY <1>2, <2>1 DEF ToldRunners
  <2>5. Slot!Overlap(s, c)
    BY <1>1, <1>2, <1>5, <1>6, <2>1, <2>2, <2>3, <2>4 DEF Slot!Overlap
  <2>6. QED
    BY <1>1, <2>5 DEF Slot!Next
<1>8. CASE s \notin overlapped /\ ~\E d \in Runs \ {c} : RunnerOf(d) = s /\ InRun(d)
  <2>1. overlapped' = overlapped
    BY <1>8 DEF BeginRun
  <2>2. ~InRun(c)
    BY DEF InRun
  <2>3. Asking(s) = None
    BY <1>1, <1>8, <2>2, SlotsAre DEF SlotIs
  <2>4. Asking(s)' = c
    BY <1>1, <1>3, <1>8, <2>1, SlotsAreAfter DEF SlotIs
  <2>5. Holding(s)' = Holding(s)
    BY <1>1, <1>4, <2>1, HoldingUnchanged
  <2>6. ToldRunners' = ToldRunners
    BY <1>2, <2>1 DEF ToldRunners
  <2>7. Slot!Ask(s, c)
    BY <1>1, <1>2, <1>5, <1>6, <1>8, <2>1, <2>3, <2>4, <2>5, <2>6 DEF Slot!Ask
  <2>8. QED
    BY <1>1, <2>7 DEF Slot!Next
<1>9. QED
  BY <1>7, <1>8

\* A step that begins or ends no call and no process is not seen.
LEMMA QuietStep ==
    ASSUME overlapped' = overlapped, ctxDone' = ctxDone,
           \A d \in Runs : (InRun(d)' <=> InRun(d)) /\ (Live(d)' <=> Live(d)),
           \A d \in Runs : call'[d] = "none" <=> call[d] = "none",
           \A d \in Runs : proc'[d] = "stopping" <=> proc[d] = "stopping"
    PROVE  UNCHANGED Slot!slotVars
<1>1. \A r \in Runners : Asking(r)' = Asking(r) /\ Holding(r)' = Holding(r)
  BY AskingUnchanged, HoldingUnchanged
<1>2. Used' = Used /\ ToldRunners' = ToldRunners
  BY DEF Used, ToldRunners
<1>3. QED
  BY <1>1, <1>2 DEF Slot!slotVars

\* A process is told to stop for a call that is under way, or for the context.
LEMMA TerminateRefines ==
    ASSUME RunnerInv, NEW c \in Runs, cmd[RunnerOf(c)] # None, Terminate(cmd[RunnerOf(c)]),
           InRun(c) \/ ctxDone, overlapped' = overlapped, ctxDone' = ctxDone,
           \A d \in Runs : InRun(d)' <=> InRun(d),
           \A d \in Runs : call'[d] = "none" <=> call[d] = "none"
    PROVE  [Slot!Next]_(Slot!slotVars)
<1> DEFINE s == RunnerOf(c)
           old == cmd[s]
<1>1. s \in Runners /\ old \in Runs /\ RunnerOf(old) = s
  BY RunsAre DEF RunnerInv, RunnerTypeOK, CmdInv
<1>2. CASE proc[old] # "running"
  <2>1. proc' = proc
    BY <1>2 DEF Terminate
  <2>2. \A d \in Runs : Live(d)' <=> Live(d)
    BY <2>1 DEF Live
  <2>3. QED
    BY <2>1, <2>2, QuietStep
<1>3. CASE proc[old] = "running"
  <2>1. proc' = [proc EXCEPT ![old] = "stopping"]
    BY <1>3 DEF Terminate
  <2>2. \A d \in Runs : Live(d)' <=> Live(d)
    BY <1>3, <2>1 DEF Live, RunnerInv, RunnerTypeOK
  <2>3. \A r \in Runners : Asking(r)' = Asking(r) /\ Holding(r)' = Holding(r)
    BY <2>2, AskingUnchanged, HoldingUnchanged
  <2>4. Used' = Used
    BY DEF Used
  <2>5. CASE s \in overlapped
    <3>1. ToldRunners' = ToldRunners
      BY <1>1, <2>1, <2>5 DEF ToldRunners, RunnerInv, RunnerTypeOK
    <3>2. QED
      BY <2>3, <2>4, <3>1 DEF Slot!slotVars
  <2>6. CASE s \notin overlapped
    <3>1. ToldRunners' = ToldRunners \cup {s}
      BY <1>1, <2>1, <2>6 DEF ToldRunners, RunnerInv, RunnerTypeOK
    <3>2. Holding(s) = old
      BY <1>1, <1>3, <2>6, SlotsAre DEF SlotIs, Live
    <3>3. InRun(c) => Asking(s) = c
      BY <1>1, <2>6, SlotsAre DEF SlotIs
    <3>4. c # None /\ old # None
      BY <1>1, RunsAre
    <3>5. Slot!Tell(s)
      BY <1>1, <2>3, <2>4, <3>1, <3>2, <3>3, <3>4 DEF Slot!Tell
    <3>6. QED
      BY <1>1, <3>5 DEF Slot!Next
  <2>7. QED
    BY <2>5, <2>6
<1>4. QED
  BY <1>2, <1>3

\* Start fills the slot for the call that asks.
LEMMA StartRefines ==
    ASSUME RunnerInv, RunnerInv', NEW c \in Runs, Start(c)
    PROVE  [Slot!Next]_(Slot!slotVars)
<1> DEFINE s == RunnerOf(c)
           now == cmd[s]
<1>1. /\ s \in Runners /\ now \in Runs /\ RunnerOf(now) = s
      /\ call[c] = "start" /\ call' = [call EXCEPT ![c] = "returned"]
      /\ overlapped' = overlapped /\ ctxDone' = ctxDone
      /\ proc' = IF proc[now] = "new" THEN [proc EXCEPT ![now] = "starting"] ELSE proc
  BY RunsAre DEF Start, Made, RunnerInv, RunnerTypeOK, CmdInv
<1>2. Used' = Used /\ ToldRunners' = ToldRunners
  BY <1>1 DEF Used, ToldRunners, RunnerInv, RunnerTypeOK
<1>3. \A r \in Runners \ {s} : Asking(r)' = Asking(r) /\ Holding(r)' = Holding(r)
  <2>1. \A d \in Runs : RunnerOf(d) # s => (InRun(d)' <=> InRun(d)) /\ (Live(d)' <=> Live(d))
    BY <1>1 DEF InRun, Live, RunnerInv, RunnerTypeOK
  <2>2. QED
    BY <1>1, <2>1, AskingUnchanged, HoldingUnchanged
<1>4. CASE s \in overlapped
  <2>1. Asking(s)' = Asking(s) /\ Holding(s)' = Holding(s)
    BY <1>1, <1>4, AskingUnchanged, HoldingUnchanged
  <2>2. QED
    BY <1>1, <1>2, <1>3, <2>1 DEF Slot!slotVars
<1>5. CASE s \notin overlapped
  <2>1. now = c /\ proc[c] = "new" /\ \A d \in Runs : RunnerOf(d) = s => ~Live(d)
    BY <1>1, <1>5 DEF RunnerInv, AloneInv
  <2>2. Asking(s) = c /\ Holding(s) = None
    BY <1>1, <1>5, <2>1, SlotsAre DEF SlotIs, InRun
  <2>3. Holding(s)' = c
    <3>1. Live(c)'
      BY <1>1, <2>1 DEF Live, RunnerInv, RunnerTypeOK
    <3>2. QED
      BY <1>1, <1>5, <3>1, SlotsAreAfter DEF SlotIs
  <2>4. Asking(s)' = None
    <3>1. \A d \in Runs : RunnerOf(d) = s => ~InRun(d)'
      BY <1>1, <1>5 DEF InRun, RunnerInv, RunnerTypeOK, AloneInv
    <3>2. QED
      BY <1>1, <1>5, <3>1, SlotsAreAfter DEF SlotIs
  <2>5. c # None
    BY RunsAre
  <2>6. Slot!Start(s)
    BY <1>1, <1>2, <1>3, <2>2, <2>3, <2>4, <2>5 DEF Slot!Start
  <2>7. QED
    BY <1>1, <2>6 DEF Slot!Next
<1>6. QED
  BY <1>4, <1>5

\* A process that ends leaves the slot; one that does not end by itself was told to.
LEMMA ProcessEndsRefines ==
    ASSUME RunnerInv, RunnerInv', NEW c \in Runs, ProcessEnds(c)
    PROVE  [Slot!Next]_(Slot!slotVars)
<1> DEFINE s == RunnerOf(c)
<1>1. /\ s \in Runners /\ call' = call /\ proc' = [proc EXCEPT ![c] = "done"]
      /\ overlapped' = overlapped /\ ctxDone' = ctxDone
      /\ Live(c) /\ (s \in Daemons => proc[c] = "stopping")
  BY RunsAre DEF ProcessEnds, Live
<1>2. Used' = Used /\ \A r \in Runners : Asking(r)' = Asking(r)
  BY <1>1, AskingUnchanged DEF Used, InRun
<1>3. \A r \in Runners \ {s} : Holding(r)' = Holding(r)
  <2>1. \A d \in Runs : RunnerOf(d) # s => (Live(d)' <=> Live(d))
    BY <1>1 DEF Live, RunnerInv, RunnerTypeOK
  <2>2. QED
    BY <1>1, <2>1, HoldingUnchanged
<1>4. CASE s \in overlapped
  <2>1. Holding(s)' = Holding(s) /\ ToldRunners' = ToldRunners
    BY <1>1, <1>4, HoldingUnchanged DEF ToldRunners, RunnerInv, RunnerTypeOK
  <2>2. QED
    BY <1>1, <1>2, <1>3, <2>1 DEF Slot!slotVars
<1>5. CASE s \notin overlapped
  <2>1. \A d \in Runs : RunnerOf(d) = s /\ Live(d) => d = c
    BY <1>1, <1>5 DEF RunnerInv, AloneInv
  <2>2. Holding(s) = c /\ c # None
    BY <1>1, <1>5, SlotsAre, RunsAre DEF SlotIs
  <2>3. Holding(s)' = None
    <3>1. \A d \in Runs : RunnerOf(d) = s => ~Live(d)'
      BY <1>1, <2>1 DEF Live, RunnerInv, RunnerTypeOK
    <3>2. QED
      BY <1>1, <1>5, <3>1, SlotsAreAfter DEF SlotIs
  <2>4. s \in Daemons => s \in ToldRunners
    BY <1>1, <1>5 DEF ToldRunners
  <2>5. ToldRunners' = ToldRunners \ {s}
    BY <1>1, <2>1 DEF ToldRunners, Live, RunnerInv, RunnerTypeOK
  <2>6. [r \in Runners |-> Holding(r)'] = [[r \in Runners |-> Holding(r)] EXCEPT ![s] = None]
    BY <1>3, <2>3
  <2>7. [r \in Runners |-> Asking(r)'] = [r \in Runners |-> Asking(r)]
    BY <1>2
  <2>8. Slot!End(s)
    BY <1>1, <1>2, <2>2, <2>4, <2>5, <2>6, <2>7 DEF Slot!End
  <2>9. QED
    BY <1>1, <2>8 DEF Slot!Next
<1>6. QED
  BY <1>4, <1>5

\* What a runner does is what it promises, or is not seen.
LEMMA RunnerRefines ==
    RunnerInv /\ RunnerInv' /\ [RunnerNext]_runnerVars => [Slot!Next]_(Slot!slotVars)
<1> SUFFICES ASSUME RunnerInv, RunnerInv', [RunnerNext]_runnerVars
             PROVE  [Slot!Next]_(Slot!slotVars)
  OBVIOUS
<1>1. ASSUME NEW c \in Runs, call[c] = "none", BeginRun(c)
      PROVE  [Slot!Next]_(Slot!slotVars)
  BY <1>1, BeginRunRefines
<1>2. ASSUME NEW c \in Runs, Stop(c) PROVE [Slot!Next]_(Slot!slotVars)
  <2>1. /\ call[c] = "stop" /\ overlapped' = overlapped /\ ctxDone' = ctxDone
        /\ \E next \in {"await", "make"} : call' = [call EXCEPT ![c] = next]
    BY <1>2, StopIs DEF Stop, RunnerInv
  <2>2. InRun(c) /\ \A d \in Runs : InRun(d)' <=> InRun(d)
    BY <2>1 DEF InRun, RunnerInv, RunnerTypeOK
  <2>3. \A d \in Runs : call'[d] = "none" <=> call[d] = "none"
    BY <2>1 DEF RunnerInv, RunnerTypeOK
  <2>4. CASE cmd[RunnerOf(c)] = None
    <3>1. proc' = proc
      BY <1>2, <2>4, StopIs DEF RunnerInv
    <3>2. QED
      BY <2>1, <2>2, <2>3, <3>1, QuietStep DEF Live
  <2>5. CASE cmd[RunnerOf(c)] # None
    <3>1. Terminate(cmd[RunnerOf(c)])
      BY <1>2, <2>5 DEF Stop
    <3>2. QED
      BY <2>1, <2>2, <2>3, <2>5, <3>1, TerminateRefines
  <2>6. QED
    BY <2>4, <2>5
<1>3. ASSUME NEW c \in Runs, Await(c) \/ Stopped(c) \/ Make(c) \/ MakeChannel(c) \/ RunEnds(c)
      PROVE  [Slot!Next]_(Slot!slotVars)
  <2>1. /\ overlapped' = overlapped /\ ctxDone' = ctxDone /\ proc' = proc
        /\ call[c] # "none" /\ call'[c] # "none" /\ (InRun(c)' <=> InRun(c))
        /\ \A d \in Runs \ {c} : call'[d] = call[d]
    BY <1>3 DEF Await, Stopped, Make, MakeChannel, RunEnds, InRun, RunnerInv, RunnerTypeOK
  <2>2. \A d \in Runs : (InRun(d)' <=> InRun(d)) /\ (Live(d)' <=> Live(d))
    BY <2>1 DEF InRun, Live
  <2>3. QED
    BY <2>1, <2>2, QuietStep
<1>4. ASSUME NEW c \in Runs, Start(c) PROVE [Slot!Next]_(Slot!slotVars)
  BY <1>4, StartRefines
<1>5. ASSUME NEW c \in Runs, ContextEnds(c) PROVE [Slot!Next]_(Slot!slotVars)
  <2>1. cmd[RunnerOf(c)] # None
    BY <1>5 DEF ContextEnds, RunnerInv, CmdInv, Made
  <2>2. /\ overlapped' = overlapped /\ ctxDone' = ctxDone /\ ctxDone /\ call' = call
        /\ Terminate(cmd[RunnerOf(c)])
    BY <1>5 DEF ContextEnds
  <2>3. \A d \in Runs : InRun(d)' <=> InRun(d)
    BY <2>2 DEF InRun
  <2>4. QED
    BY <2>1, <2>2, <2>3, TerminateRefines
<1>6. ASSUME NEW c \in Runs, ProcessStarts(c) PROVE [Slot!Next]_(Slot!slotVars)
  BY <1>6, QuietStep DEF ProcessStarts, InRun, Live, RunnerInv, RunnerTypeOK
<1>7. ASSUME NEW c \in Runs, ProcessEnds(c) PROVE [Slot!Next]_(Slot!slotVars)
  BY <1>7, ProcessEndsRefines
<1>8. CASE CancelContext
  <2>1. call' = call /\ proc' = proc /\ overlapped' = overlapped /\ ctxDone' = TRUE
    BY <1>8 DEF CancelContext
  <2>2. \A r \in Runners : Asking(r)' = Asking(r) /\ Holding(r)' = Holding(r)
    BY <2>1, AskingUnchanged, HoldingUnchanged DEF InRun, Live
  <2>3. Used' = Used /\ ToldRunners' = ToldRunners
    BY <2>1 DEF Used, ToldRunners
  <2>4. QED
    BY <2>1, <2>2, <2>3 DEF Slot!Next, Slot!Cancel
<1>9. CASE UNCHANGED runnerVars
  BY <1>9, QuietStep DEF runnerVars, InRun, Live
<1>10. QED
  BY <1>1, <1>2, <1>3, <1>4, <1>5, <1>6, <1>7, <1>8, <1>9 DEF RunnerNext, RunStep

\* Script runners implement the slots of their callers, also as the build loop uses them:
\* without overlapping calls a process is started once, after the one before has ended,
\* and is told to stop only for the next one or for the context.
THEOREM SlotRefinement == Spec => SlotSpec
<1>1. Init => Slot!Init
  <2> SUFFICES ASSUME Init PROVE Slot!Init
    OBVIOUS
  <2>1. \A r \in Runners : Asking(r) = None /\ Holding(r) = None
    BY OneOfIs DEF Init, RunnerInit, Asking, Holding, InRun, Live
  <2>2. Used = {} /\ ToldRunners = {} /\ overlapped = {} /\ ctxDone = FALSE
    BY DEF Init, RunnerInit, Used, ToldRunners
  <2>3. QED
    BY <2>1, <2>2 DEF Slot!Init
<1>2. IInv /\ IInv' /\ [Next]_vars => [Slot!Next]_(Slot!slotVars)
  BY LoopUsesRunner, RunnerRefines DEF IInv
<1>3. QED
  BY <1>1, <1>2, Inductive, PTL DEF Spec, SlotSpec, Slot!Spec
-----------------------------------------------------------------------------
(* A loop at rest has generated and serves what is in the cache *)

\* A call of Run is under way on the runner.
Busy(r) == \E c \in Runs : RunnerOf(c) = r /\ InRun(c)

\* The process that the field of a runner names lives, or was a script that has ended.
Lives(r) ==
    /\ proc[cmd[r]] \in {"starting", "running", "done"}
    /\ proc[cmd[r]] = "done" => r \notin Daemons

\* So it is unless a call or a context that is done has told it to stop.
SettledInv ==
    \A r \in Runners :
        r \notin overlapped \cup tooEarly /\ ~ctxDone /\ ~Busy(r) /\ cmd[r] # None => Lives(r)

\* A build goes on when its config script has ended, and calls Run for the hooks.
ScriptInv ==
    \A k \in Builds :
        /\ build[k] \in {"bundle", "poller", "done"} => proc[RunOf(k, "config")] = "done"
        /\ build[k] \in {"poller", "done"} => call[RunOf(k, "hooks")] # "none"

\* The config script has read, or has generated, what is in the cache; and the hooks
\* server has read what is generated.
Generated ==
    LET c == cmd["config"] IN
    IF c = None THEN config = cache
    ELSE /\ proc[c] = "running" => reads[c] = cache
         /\ proc[c] = "done" => config = cache
Served ==
    LET c == cmd["hooks"] IN c # None /\ proc[c] = "running" => reads[c] = config

\* So it is unless the debounce timer is to start another build, or a build is on its
\* way to do so.
Rebuilding == \E k \in Builds : build[k] \in {"config", "bundle"}
GeneratedInv == Undisturbed("config") /\ ~pending /\ ~Busy("config") => Generated
ServedInv ==
    Undisturbed("config") /\ Undisturbed("hooks") /\ ~Rebuilding /\ ~Busy("hooks") => Served

RestInv == SettledInv /\ ScriptInv /\ GeneratedInv /\ ServedInv

\* No timer is armed, every build that has begun is done, and no call of Run is
\* under way.
AtRest ==
    /\ ~pending
    /\ \A k \in Builds : build[k] \in {"none", "done"}
    /\ \A r \in Runners : ~Busy(r)

\* However builds, polls and processes overlap, a loop at rest has generated what is
\* in the introspection cache, and one hooks server lives, which has read that or is
\* about to.
RestingLoopIsServed ==
    AtRest /\ Undisturbed("config") =>
        /\ config = cache
        /\ Undisturbed("hooks") /\ build[1] = "done" =>
              \E c \in Runs :
                  /\ RunnerOf(c) = "hooks" /\ proc[c] \in {"starting", "running"}
                  /\ proc[c] = "running" => reads[c] = cache
                  /\ \A d \in Runs \ {c} : RunnerOf(d) = "hooks" => ~Live(d)

\* What has gone wrong with a runner stays so.
LEMMA RunnerOnlyGrows ==
    ASSUME [RunnerNext]_runnerVars
    PROVE  overlapped \subseteq overlapped' /\ tooEarly \subseteq tooEarly' /\ (ctxDone => ctxDone')
<1>1. ASSUME NEW c \in Runs, BeginRun(c) \/ RunStep(c)
      PROVE  overlapped \subseteq overlapped' /\ tooEarly \subseteq tooEarly' /\ ctxDone' = ctxDone
  BY <1>1 DEF RunStep, BeginRun, Stop, Await, Stopped, Make, MakeChannel, Start, RunEnds,
              ContextEnds, ProcessStarts, ProcessEnds, Terminate
<1>2. QED
  BY <1>1 DEF RunnerNext, CancelContext, runnerVars

\* Only Stop and a context that is done tell a process to stop, and Stop is part of
\* a call.
LEMMA SettledStep == RunnerInv /\ SettledInv /\ [RunnerNext]_runnerVars => SettledInv'
<1> SUFFICES ASSUME RunnerInv, SettledInv, [RunnerNext]_runnerVars, NEW r \in Runners,
                    r \notin overlapped' \cup tooEarly', ~ctxDone', ~Busy(r)', cmd'[r] # None
             PROVE  Lives(r)'
  BY DEF SettledInv
<1>1. /\ r \notin overlapped \cup tooEarly /\ ~ctxDone
      /\ ~Busy(r) /\ cmd[r] # None => Lives(r)
      /\ cmd[r] # None => cmd[r] \in Runs /\ RunnerOf(cmd[r]) = r
  <2>1. overlapped \subseteq overlapped' /\ tooEarly \subseteq tooEarly' /\ (ctxDone => ctxDone')
    BY RunnerOnlyGrows
  <2>2. QED
    BY <2>1, RunsAre DEF SettledInv, RunnerInv, RunnerTypeOK, CmdInv
<1> USE <1>1, RunsAre
        DEF RunnerInv, RunnerTypeOK, AloneInv, CmdInv, Busy, Lives, runnerVars, InRun, Live
<1>2. ASSUME NEW c \in Runs, call[c] = "none", BeginRun(c) PROVE Lives(r)'
  BY <1>2 DEF BeginRun
<1>3. ASSUME NEW c \in Runs, Stop(c) PROVE Lives(r)'
  BY <1>3 DEF Stop, Terminate
<1>4. ASSUME NEW c \in Runs, Stopped(c) PROVE Lives(r)'
  BY <1>4 DEF Stopped
<1>5. ASSUME NEW c \in Runs, Make(c) PROVE Lives(r)'
  BY <1>5 DEF Make
<1>w. ASSUME NEW c \in Runs, Await(c) PROVE Lives(r)'
  BY <1>w DEF Await
<1>m. ASSUME NEW c \in Runs, MakeChannel(c) PROVE Lives(r)'
  BY <1>m DEF MakeChannel
<1>6. ASSUME NEW c \in Runs, Start(c) PROVE Lives(r)'
  BY <1>6 DEF Start
<1>7. ASSUME NEW c \in Runs, RunEnds(c) PROVE Lives(r)'
  BY <1>7 DEF RunEnds
<1>8. ASSUME NEW c \in Runs, ContextEnds(c) PROVE Lives(r)'
  BY <1>8 DEF ContextEnds, Terminate
<1>9. ASSUME NEW c \in Runs, ProcessStarts(c) PROVE Lives(r)'
  BY <1>9 DEF ProcessStarts
<1>10. ASSUME NEW c \in Runs, ProcessEnds(c) PROVE Lives(r)'
  BY <1>10 DEF ProcessEnds
<1>11. CASE CancelContext
  BY <1>11 DEF CancelContext
<1>12. CASE UNCHANGED runnerVars
  BY <1>12
<1> HIDE DEF RunnerInv, RunnerTypeOK, CmdInv, AloneInv, Lives, Busy
<1>13. QED
  BY <1>2, <1>3, <1>4, <1>5, <1>6, <1>7, <1>8, <1>9, <1>10, <1>11, <1>12, <1>w, <1>m
     DEF RunnerNext, RunStep

\* A build goes on in its order, and a script that has ended stays so.
LEMMA ScriptStep == IInv /\ ScriptInv /\ [Next]_vars => ScriptInv'
<1> SUFFICES ASSUME IInv, ScriptInv, [Next]_vars PROVE ScriptInv'
  OBVIOUS
<1> USE RunsAre, RunnersAre, RunsDiffer
        DEF IInv, RunnerTypeOK, TypeOK, ScriptInv, runnerVars, devVars, inputVars
<1>1. CASE UpstreamChanges
  BY <1>1 DEF UpstreamChanges
<1>2. CASE PollBegins
  BY <1>2 DEF PollBegins
<1>3. ASSUME NEW v \in Versions, PollEnds(v) PROVE ScriptInv'
  BY <1>3 DEF PollEnds
<1>4. CASE FirstBuild
  <2>1. 1 \in Builds
    BY RunnersAssumption DEF Builds
  <2>2. QED
    BY <1>4, <2>1 DEF FirstBuild, BeginRun
<1>5. CASE WatchBegins
  BY <1>5 DEF WatchBegins
<1>6. ASSUME NEW k \in Builds, Debounced(k) PROVE ScriptInv'
  BY <1>6 DEF Debounced, BeginRun
<1>7. ASSUME NEW k \in Builds, ConfigRan(k) PROVE ScriptInv'
  BY <1>7 DEF ConfigRan, RunEnds
<1>8. ASSUME NEW k \in Builds, RestartHooks(k) PROVE ScriptInv'
  BY <1>8 DEF RestartHooks, BeginRun
<1>9. ASSUME NEW k \in Builds, RestartPoller(k) PROVE ScriptInv'
  BY <1>9 DEF RestartPoller
<1>10. ASSUME NEW c \in Runs, RunnerStep(c) PROVE ScriptInv'
  BY <1>10 DEF RunnerStep, Stop, Await, Stopped, Make, MakeChannel, Start, Terminate
<1>11. ASSUME NEW c \in Runs, GoroutineStep(c) PROVE ScriptInv'
  BY <1>11 DEF GoroutineStep, ContextEnds, Terminate
<1>12. ASSUME NEW c \in Runs, ScriptStarts(c) PROVE ScriptInv'
  BY <1>12 DEF ScriptStarts, ProcessStarts
<1>13. ASSUME NEW c \in Runs, ScriptEnds(c) PROVE ScriptInv'
  BY <1>13 DEF ScriptEnds, ProcessEnds
<1>14. CASE Cancel
  BY <1>14 DEF Cancel, CancelContext
<1>x. CASE Exit
  BY <1>x DEF Exit
<1>15. CASE UNCHANGED vars
  BY <1>15 DEF vars
<1> HIDE DEF IInv, ScriptInv
<1>16. QED
  BY <1>1, <1>2, <1>3, <1>4, <1>5, <1>6, <1>7, <1>8, <1>9, <1>10, <1>11, <1>12,
     <1>13, <1>14, <1>15, <1>x DEF Next

\* What has disturbed the loop has done so for good.
LEMMA LoopOnlyGrows ==
    ASSUME IInv, [Next]_vars, NEW r, Undisturbed(r)'
    PROVE  Undisturbed(r)
<1>1. overlapped \subseteq overlapped' /\ tooEarly \subseteq tooEarly' /\ (ctxDone => ctxDone')
  BY LoopUsesRunner, RunnerOnlyGrows
<1>2. missed => missed'
  BY DEF Next, UpstreamChanges, PollBegins, PollEnds, FirstBuild, WatchBegins, Debounced, ConfigRan,
         RestartHooks, RestartPoller, RunnerStep, GoroutineStep, ScriptStarts, ScriptEnds, Cancel,
         Exit, vars, devVars, inputVars
<1>3. QED
  BY <1>1, <1>2 DEF Undisturbed

\* The fields of the two runners name processes of their own.
LEMMA FieldsAre ==
    ASSUME IInv
    PROVE  /\ \A r \in Runners : cmd[r] # None => cmd[r] \in Runs /\ RunnerOf(cmd[r]) = r
           /\ \A c \in Runs : Live(c) /\ RunnerOf(c) \notin overlapped => cmd[RunnerOf(c)] = c
           /\ \A c \in Runs : call[c] \in {"channel", "start"} /\ RunnerOf(c) \notin overlapped =>
                 cmd[RunnerOf(c)] = c /\ proc[c] = "new"
BY RunsAre DEF IInv, RunnerInv, RunnerTypeOK, CmdInv, AloneInv

\* A change of the cache arms the timer, and the timer starts a build that reads it.
LEMMA GeneratedStep == IInv /\ RestInv /\ [Next]_vars => GeneratedInv'
<1> SUFFICES ASSUME IInv, RestInv, [Next]_vars,
                    Undisturbed("config")', ~pending', ~Busy("config")'
             PROVE  Generated'
  BY DEF GeneratedInv
<1>a. Undisturbed("config") /\ (~pending /\ ~Busy("config") => Generated)
  BY LoopOnlyGrows DEF RestInv, GeneratedInv
<1>b. ~Busy("config") /\ cmd["config"] # None => Lives("config")
  BY <1>a, RunnersAre DEF RestInv, SettledInv, Undisturbed
<1> USE <1>a, <1>b, FieldsAre, RunsAre, RunnersAre
        DEF IInv, RunnerTypeOK, TypeOK, Generated, Undisturbed, Busy, Lives, InRun, Live,
            runnerVars, devVars, inputVars
<1>1. CASE UpstreamChanges
  BY <1>1 DEF UpstreamChanges
<1>2. CASE PollBegins
  BY <1>2 DEF PollBegins
<1>3. ASSUME NEW v \in Versions, PollEnds(v) PROVE Generated'
  BY <1>3 DEF PollEnds
<1>4. CASE FirstBuild
  <2>1. 1 \in Builds
    BY RunnersAssumption DEF Builds
  <2>2. QED
    BY <1>4, <2>1 DEF FirstBuild, BeginRun
<1>5. CASE WatchBegins
  BY <1>5 DEF WatchBegins
<1>6. ASSUME NEW k \in Builds, Debounced(k) PROVE Generated'
  BY <1>6 DEF Debounced, BeginRun
<1>7. ASSUME NEW k \in Builds, ConfigRan(k) PROVE Generated'
  BY <1>7 DEF ConfigRan, RunEnds
<1>8. ASSUME NEW k \in Builds, RestartHooks(k) PROVE Generated'
  BY <1>8 DEF RestartHooks, BeginRun
<1>9. ASSUME NEW k \in Builds, RestartPoller(k) PROVE Generated'
  BY <1>9 DEF RestartPoller
<1>10. ASSUME NEW c \in Runs, RunnerStep(c) PROVE Generated'
  <2>1. CASE Stop(c)
    BY <1>10, <2>1 DEF RunnerStep, Stop, Terminate
  <2>2. CASE Stopped(c)
    BY <1>10, <2>2 DEF RunnerStep, Stopped
  <2>3. CASE Make(c)
    BY <1>10, <2>3 DEF RunnerStep, Make
  <2>4. CASE Start(c)
    BY <1>10, <2>4 DEF RunnerStep, Start
  <2>5. CASE Await(c)
    BY <1>10, <2>5 DEF RunnerStep, Await
  <2>6. CASE MakeChannel(c)
    BY <1>10, <2>6 DEF RunnerStep, MakeChannel
  <2>7. QED
    BY <1>10, <2>1, <2>2, <2>3, <2>4, <2>5, <2>6 DEF RunnerStep
<1>11. ASSUME NEW c \in Runs, GoroutineStep(c) PROVE Generated'
  BY <1>11 DEF GoroutineStep, ContextEnds, Terminate
<1>12. ASSUME NEW c \in Runs, ScriptStarts(c) PROVE Generated'
  BY <1>12 DEF ScriptStarts, ProcessStarts
<1>13. ASSUME NEW c \in Runs, ScriptEnds(c) PROVE Generated'
  BY <1>13 DEF ScriptEnds, ProcessEnds
<1>14. CASE Cancel
  BY <1>14 DEF Cancel, CancelContext
<1>x. CASE Exit
  BY <1>x DEF Exit
<1>15. CASE UNCHANGED vars
  BY <1>15 DEF vars
<1> HIDE DEF IInv, RunnerTypeOK, TypeOK, Generated, Busy, Undisturbed
<1>16. QED
  BY <1>1, <1>2, <1>3, <1>4, <1>5, <1>6, <1>7, <1>8, <1>9, <1>10, <1>11, <1>12,
     <1>13, <1>14, <1>15, <1>x DEF Next

\* A build that has generated something restarts the hooks server.
LEMMA ServedStep == IInv /\ RestInv /\ [Next]_vars => ServedInv'
<1> SUFFICES ASSUME IInv, RestInv, [Next]_vars, Undisturbed("config")', Undisturbed("hooks")',
                    ~Rebuilding', ~Busy("hooks")'
             PROVE  Served'
  BY DEF ServedInv
<1>a. /\ Undisturbed("config") /\ Undisturbed("hooks")
      /\ ~Rebuilding /\ ~Busy("hooks") => Served
  BY LoopOnlyGrows DEF RestInv, ServedInv
<1>b. ~Busy("hooks") /\ cmd["hooks"] # None => Lives("hooks")
  BY <1>a, RunnersAre DEF RestInv, SettledInv, Undisturbed
<1> USE <1>a, <1>b, FieldsAre, RunsAre, RunnersAre
        DEF IInv, RunnerTypeOK, TypeOK, Served, Rebuilding, Undisturbed, Busy, Lives, InRun, Live,
            runnerVars, devVars, inputVars
<1>1. CASE UpstreamChanges
  BY <1>1 DEF UpstreamChanges
<1>2. CASE PollBegins
  BY <1>2 DEF PollBegins
<1>3. ASSUME NEW v \in Versions, PollEnds(v) PROVE Served'
  BY <1>3 DEF PollEnds
<1>4. CASE FirstBuild
  <2>1. 1 \in Builds
    BY RunnersAssumption DEF Builds
  <2>2. QED
    BY <1>4, <2>1 DEF FirstBuild, BeginRun
<1>5. CASE WatchBegins
  BY <1>5 DEF WatchBegins
<1>6. ASSUME NEW k \in Builds, Debounced(k) PROVE Served'
  BY <1>6 DEF Debounced, BeginRun
<1>7. ASSUME NEW k \in Builds, ConfigRan(k) PROVE Served'
  BY <1>7 DEF ConfigRan, RunEnds
<1>8. ASSUME NEW k \in Builds, RestartHooks(k) PROVE Served'
  BY <1>8 DEF RestartHooks, BeginRun
<1>9. ASSUME NEW k \in Builds, RestartPoller(k) PROVE Served'
  BY <1>9 DEF RestartPoller
<1>10. ASSUME NEW c \in Runs, RunnerStep(c) PROVE Served'
  <2>1. CASE Stop(c)
    BY <1>10, <2>1 DEF RunnerStep, Stop, Terminate
  <2>2. CASE Stopped(c)
    BY <1>10, <2>2 DEF RunnerStep, Stopped
  <2>3. CASE Make(c)
    BY <1>10, <2>3 DEF RunnerStep, Make
  <2>4. CASE Start(c)
    BY <1>10, <2>4 DEF RunnerStep, Start
  <2>5. CASE Await(c)
    BY <1>10, <2>5 DEF RunnerStep, Await
  <2>6. CASE MakeChannel(c)
    BY <1>10, <2>6 DEF RunnerStep, MakeChannel
  <2>7. QED
    BY <1>10, <2>1, <2>2, <2>3, <2>4, <2>5, <2>6 DEF RunnerStep
<1>11. ASSUME NEW c \in Runs, GoroutineStep(c) PROVE Served'
  BY <1>11 DEF GoroutineStep, ContextEnds, Terminate
<1>12. ASSUME NEW c \in Runs, ScriptStarts(c) PROVE Served'
  BY <1>12 DEF ScriptStarts, ProcessStarts
<1>13. ASSUME NEW c \in Runs, ScriptEnds(c) PROVE Served'
  <2>1. /\ Live(c) /\ UNCHANGED <<call, cmd, build>>
        /\ proc' = [proc EXCEPT ![c] = "done"] /\ reads' = [reads EXCEPT ![c] = 0]
    BY <1>13 DEF ScriptEnds, ProcessEnds
  <2>2. CASE RunnerOf(c) = "config"
    <3>1. PICK k \in Builds : c = RunOf(k, "config")
      BY <2>2
    <3>2. build[k] # "none"
      BY <2>1, <3>1 DEF RunnerInv, ProcInv, BuildInv, Made
    <3>3. build[k] = "config"
      <4>1. build[k] \notin {"bundle", "poller", "done"}
        BY <2>1, <3>1 DEF RestInv, ScriptInv
      <4>2. QED
        BY <3>2, <4>1
    <3>4. QED
      BY <2>1, <3>3
  <2>3. CASE RunnerOf(c) # "config"
    <3>1. RunnerOf(c) = "hooks" /\ "hooks" \in Daemons
      BY <2>3, DevAssumption
    <3>2. cmd["hooks"] = c /\ ~Busy("hooks")
      BY <2>1, <3>1
    <3>3. proc[c] \in {"starting", "running"}
      <4>1. cmd["hooks"] # None
        BY <3>2
      <4>2. proc[c] \in {"starting", "running", "done"}
        BY <1>b, <3>2, <4>1
      <4>3. QED
        BY <2>1, <4>2
    <3>4. QED
      BY <1>13, <3>1, <3>3 DEF ScriptEnds, ProcessEnds
  <2>4. QED
    BY <2>2, <2>3
<1>14. CASE Cancel
  BY <1>14 DEF Cancel, CancelContext
<1>x. CASE Exit
  BY <1>x DEF Exit
<1>15. CASE UNCHANGED vars
  BY <1>15 DEF vars
<1> HIDE DEF IInv, RunnerTypeOK, TypeOK, Served, Busy, Undisturbed
<1>16. QED
  BY <1>1, <1>2, <1>3, <1>4, <1>5, <1>6, <1>7, <1>8, <1>9, <1>10, <1>11, <1>12,
     <1>13, <1>14, <1>15, <1>x DEF Next

\* What a resting loop has, it has kept up in every step.
LEMMA RestInductive == Spec => [](IInv /\ RestInv)
<1>1. Init => RestInv
  BY RunsAre, RunnersAre
     DEF Init, RunnerInit, RestInv, SettledInv, ScriptInv, GeneratedInv, Generated, ServedInv,
         Served
<1>2. IInv /\ RestInv /\ [Next]_vars => RestInv'
  <2> SUFFICES ASSUME IInv, RestInv, [Next]_vars PROVE RestInv'
    OBVIOUS
  <2>1. SettledInv'
    BY LoopUsesRunner, SettledStep DEF IInv, RestInv
  <2>2. ScriptInv'
    BY ScriptStep DEF RestInv
  <2>3. QED
    BY <2>1, <2>2, GeneratedStep, ServedStep DEF RestInv
<1>3. QED
  BY <1>1, <1>2, Inductive, PTL DEF Spec

\* The build loop of "wunderctl up" (onAfterBuild, the watcher and the poller) comes to rest
\* with the last change generated and served: what the run shows of LastChangeIsServed in
\* the end, this shows of every state of rest, for any number of builds.
THEOREM RestingLoopServes == Spec => []RestingLoopIsServed
<1>1. IInv /\ RestInv => RestingLoopIsServed
  <2> SUFFICES ASSUME IInv, RestInv, AtRest, Undisturbed("config") PROVE RestingLoopIsServed
    BY DEF RestingLoopIsServed
  <2>1. ~Busy("config") /\ ~Busy("hooks") /\ ~Rebuilding
    BY RunnersAre DEF AtRest, Rebuilding
  <2>2. config = cache
    <3> DEFINE c == cmd["config"]
    <3>1. Generated
      BY <2>1 DEF AtRest, RestInv, GeneratedInv
    <3>2. CASE c = None
      BY <3>1, <3>2 DEF Generated
    <3>3. CASE c # None
      <4>1. c \in Runs /\ RunnerOf(c) = "config" /\ call[c] \in Made
        BY <3>3, FieldsAre, RunnersAre DEF IInv, RunnerInv, CmdInv
      <4>2. PICK k \in Builds : c = RunOf(k, "config")
        BY <4>1, RunsAre
      <4>3. build[k] = "done"
        BY <4>1, <4>2 DEF IInv, BuildInv, AtRest, Made
      <4>4. proc[c] = "done"
        BY <4>2, <4>3 DEF RestInv, ScriptInv
      <4>5. QED
        BY <3>1, <3>3, <4>4 DEF Generated
    <3>4. QED
      BY <3>2, <3>3
  <2>3. ASSUME Undisturbed("hooks"), build[1] = "done"
        PROVE  LET c == cmd["hooks"] IN
               /\ c \in Runs /\ RunnerOf(c) = "hooks" /\ proc[c] \in {"starting", "running"}
               /\ proc[c] = "running" => reads[c] = cache
               /\ \A d \in Runs \ {c} : RunnerOf(d) = "hooks" => ~Live(d)
    <3> DEFINE h == RunOf(1, "hooks")
    <3>1. 1 \in Builds /\ h \in Runs /\ RunnerOf(h) = "hooks"
      BY RunnersAssumption, RunsAre, RunnersAre DEF Builds
    <3>2. call[h] \in Made
      <4>1. call[h] # "none"
        BY <2>3, <3>1 DEF RestInv, ScriptInv
      <4>2. ~InRun(h)
        BY <2>1, <3>1 DEF Busy
      <4>3. QED
        BY <3>1, <4>1, <4>2 DEF IInv, RunnerInv, RunnerTypeOK, CallPlaces, InRun, Made
    <3>3. cmd["hooks"] # None
      BY <3>1, <3>2 DEF IInv, RunnerInv, CmdInv
    <3>4. proc[cmd["hooks"]] \in {"starting", "running"}
      BY <2>1, <2>3, <3>3, RunnersAre, DevAssumption DEF RestInv, SettledInv, Lives, Undisturbed
    <3>5. Served
      BY <2>1, <2>3 DEF RestInv, ServedInv
    <3>6. \A d \in Runs \ {cmd["hooks"]} : RunnerOf(d) = "hooks" => ~Live(d)
      BY <2>3, FieldsAre DEF Undisturbed
    <3>7. QED
      BY <2>2, <3>3, <3>4, <3>5, <3>6, FieldsAre, RunnersAre DEF Served
  <2>4. QED
    BY <2>2, <2>3 DEF RestingLoopIsServed
<1>2. QED
  BY <1>1, RestInductive, PTL
================================================================================
