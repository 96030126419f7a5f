------------------------------ MODULE DevLoop -------------------------------
(***************************************************************************)
(* The build loop of "wunderctl up" (cli/commands/up.go).  The config      *)
(* script turns the project into the configuration file; a poller asks the *)
(* upstreams for their schema and rewrites the introspection cache when it *)
(* has changed (packages/sdk/src/definition/introspection-cache.ts); the   *)
(* bundler's watcher sees that (pkg/watcher, pkg/bundler) and calls        *)
(* onAfterBuild, which runs the config script again and then restarts the  *)
(* hooks server.  The watcher calls back from its debounce timer, so a     *)
(* change that comes during a build starts another one beside it.          *)
(***************************************************************************)
EXTENDS ScriptRunner

CONSTANT MaxUpstream     \* bound: changes of the upstream schema

ASSUME DevAssumption ==
    /\ MaxUpstream \in Nat
    /\ Runners = {"config", "hooks"} /\ Daemons = {"hooks"}

VARIABLES
    upstream,        \* the version of the upstream's schema
    polls,           \* the versions that polls under way have fetched
    cache,           \* the version in the introspection cache
    watching,        \* has the watcher added its paths?
    missed,          \* has the cache changed before that?
    pending,         \* is the debounce timer armed?
    build,           \* where each call of onAfterBuild is
    reads,           \* the version a script has read when it started
    config,          \* the version in the configuration file
    exited           \* has the process of "wunderctl up" exited?

inputVars == <<upstream, polls, cache, missed>>
devVars == <<inputVars, watching, pending, build, reads, config, exited>>
vars == <<runnerVars, devVars>>

Builds == 1 .. MaxRuns
Versions == 0 .. MaxUpstream

TypeOK ==
    /\ RunnerTypeOK
    /\ upstream \in Versions /\ cache \in Versions /\ config \in Versions
    /\ polls \subseteq Versions
    /\ watching \in BOOLEAN /\ missed \in BOOLEAN /\ pending \in BOOLEAN
    /\ build \in [Builds -> {"none", "config", "bundle", "poller", "done"}]
    /\ reads \in [Runs -> Versions]
    /\ exited \in BOOLEAN

\* The command calls the first build itself.
Init ==
    /\ RunnerInit
    /\ upstream = 0 /\ cache = 0 /\ config = 0
    /\ polls = {}
    /\ watching = FALSE /\ missed = FALSE /\ pending = FALSE
    /\ build = [k \in Builds |-> "none"]
    /\ reads = [c \in Runs |-> 0]
    /\ exited = FALSE
-----------------------------------------------------------------------------
(* The poller.  Bound: the upstream and its polls are followed until the   *)
(* context is done.                                                        *)

UpstreamChanges ==
    /\ upstream < MaxUpstream /\ ~ctxDone
    /\ upstream' = upstream + 1
    /\ UNCHANGED <<runnerVars, polls, cache, missed, watching, pending,
                   build, reads, config, exited>>

\* Mutant of PollBegins: a rebuild stops the poller and does not start it again.
PollBeginsUntilRebuild ==
    /\ build[1] = "done" /\ build[2] # "done" /\ ~ctxDone
    /\ upstream \notin polls
    /\ upstream # cache \/ upstream < MaxUpstream
    /\ polls' = polls \cup {upstream}
    /\ UNCHANGED <<runnerVars, upstream, cache, missed, watching, pending,
                   build, reads, config, exited>>

\* setInterval does not wait for the poll before.  Polls of one version are
\* one, and those that find nothing new and cannot become old are left out.
PollBegins ==
    /\ build[1] = "done" /\ ~ctxDone
    /\ upstream \notin polls
    /\ upstream # cache \/ upstream < MaxUpstream
    /\ polls' = polls \cup {upstream}
    /\ UNCHANGED <<runnerVars, upstream, cache, missed, watching, pending,
                   build, reads, config, exited>>

\* updateIntrospectionCache: only another schema is written.  Bound: an old one
\* only while two more builds are left, for it and for the one that follows.
PollEnds(v) ==
    /\ v \in polls /\ ~ctxDone
    /\ v = upstream \/ build[MaxRuns - 1] = "none"
    /\ polls' = polls \ {v}
    /\ cache' = v
    /\ pending' = (pending \/ (watching /\ v # cache))
    /\ missed' = (missed \/ (~watching /\ v # cache))
    /\ UNCHANGED <<runnerVars, upstream, watching, build, reads, config, exited>>
-----------------------------------------------------------------------------
(* The watcher and the builds *)

\* configBundler.Bundle, before anything is watched.
FirstBuild ==
    /\ build[1] = "none" /\ ~exited
    /\ build' = [build EXCEPT ![1] = "config"]
    /\ BeginRun(RunOf(1, "config"))
    /\ UNCHANGED <<inputVars, watching, pending, reads, config, exited>>

WatchBegins ==
    /\ build[1] \notin {"none", "config"} /\ ~watching /\ ~exited
    /\ watching' = TRUE
    /\ UNCHANGED <<runnerVars, inputVars, pending, build, reads, config, exited>>

\* The debounce timer fires on a goroutine of its own: rebuild, then onAfterBuild.
Debounced(k) ==
    /\ pending /\ ~exited
    /\ k > 1 /\ build[k] = "none" /\ build[k - 1] # "none"
    /\ pending' = FALSE
    /\ build' = [build EXCEPT ![k] = "config"]
    /\ BeginRun(RunOf(k, "config"))
    /\ UNCHANGED <<inputVars, watching, reads, config, exited>>

\* Mutant of ConfigRan: the hooks server is restarted while the config script runs.
ConfigIsRunning(k) ==
    /\ build[k] = "config" /\ ~exited
    /\ call[RunOf(k, "config")] = "returned"
    /\ call' = [call EXCEPT ![RunOf(k, "config")] = "ended"]
    /\ build' = [build EXCEPT ![k] = "bundle"]
    /\ UNCHANGED <<waitsFor, cmd, doneChan, proc, told, ctxDone, overlapped, tooEarly,
                   inputVars, watching, pending, reads, config, exited>>

\* <-configRunner.Run(ctx) has returned; the hooks are bundled next.
ConfigRan(k) ==
    /\ build[k] = "config" /\ ~exited
    /\ RunEnds(RunOf(k, "config"))
    /\ build' = [build EXCEPT ![k] = "bundle"]
    /\ UNCHANGED <<inputVars, watching, pending, reads, config, exited>>

\* wg.Wait has returned: a goroutine restarts the hooks server.
RestartHooks(k) ==
    /\ build[k] = "bundle" /\ ~exited
    /\ build' = [build EXCEPT ![k] = "poller"]
    /\ BeginRun(RunOf(k, "hooks"))
    /\ UNCHANGED <<inputVars, watching, pending, reads, config, exited>>

\* Another restarts the poller, which takes its polls with it.
RestartPoller(k) ==
    /\ build[k] = "poller" /\ ~exited
    /\ build' = [build EXCEPT ![k] = "done"]
    /\ polls' = {}
    /\ UNCHANGED <<runnerVars, upstream, cache, missed, watching, pending, reads, config, exited>>
-----------------------------------------------------------------------------
(* The scripts *)

\* cmd.Start forks the script in a goroutine of gocmd.
ScriptStarts(c) ==
    /\ ~exited
    /\ ProcessStarts(c)
    /\ reads' = [reads EXCEPT ![c] = IF RunnerOf(c) = "config" THEN cache ELSE config]
    /\ UNCHANGED <<inputVars, watching, pending, build, config, exited>>

\* The config script writes the file last; one that is killed has not, or has.
ScriptEnds(c) ==
    /\ ProcessEnds(c)
    /\ config' \in IF RunnerOf(c) # "config" THEN {config}
                   ELSE IF proc[c] = "running" THEN {reads[c]} ELSE {config, reads[c]}
    /\ reads' = [reads EXCEPT ![c] = 0]
    /\ UNCHANGED <<inputVars, watching, pending, build, exited>>

\* Bound: while two more builds are left.
Cancel ==
    /\ build[MaxRuns - 1] = "none"
    /\ CancelContext
    /\ UNCHANGED devVars

\* The command waits for the context when the first build is over, and then
\* returns: the process exits, whatever its goroutines were about to do.
Exit ==
    /\ ctxDone /\ ~exited /\ build[1] \notin {"none", "config"}
    /\ exited' = TRUE
    /\ UNCHANGED <<runnerVars, inputVars, watching, pending, build, reads, config>>

\* The steps of a call of Run, and of the goroutine that it leaves.
RunnerStep(c) ==
    /\ ~exited
    /\ Stop(c) \/ Await(c) \/ Stopped(c) \/ Make(c) \/ MakeChannel(c) \/ Start(c)
    /\ UNCHANGED devVars

GoroutineStep(c) == ~exited /\ ContextEnds(c) /\ UNCHANGED devVars

Next ==
    \/ UpstreamChanges \/ PollBegins \/ (\E v \in Versions : PollEnds(v))
    \/ FirstBuild \/ WatchBegins
    \/ \E k \in Builds : Debounced(k) \/ ConfigRan(k) \/ RestartHooks(k) \/ RestartPoller(k)
    \/ \E c \in Runs :
          \/ RunnerStep(c) \/ GoroutineStep(c)
          \/ ScriptStarts(c) \/ ScriptEnds(c)
    \/ Cancel \/ Exit

Spec == Init /\ [][Next]_vars

\* Goroutines and processes go on, polls return, timers fire, and the command
\* exits.  Nothing makes the upstream change or the context end.
Fairness ==
    /\ WF_vars(PollBegins) /\ \A v \in Versions : WF_vars(PollEnds(v))
    /\ WF_vars(FirstBuild) /\ WF_vars(WatchBegins) /\ WF_vars(Exit)
    /\ \A k \in Builds : WF_vars(Debounced(k)) /\ WF_vars(ConfigRan(k))
          /\ WF_vars(RestartHooks(k)) /\ WF_vars(RestartPoller(k))
    /\ \A c \in Runs :
          /\ WF_vars(RunnerStep(c)) /\ WF_vars(GoroutineStep(c))
          /\ WF_vars(ScriptStarts(c)) /\ WF_vars(ScriptEnds(c))

FairSpec == Spec /\ Fairness
-----------------------------------------------------------------------------
(* What the loop guarantees *)

\* As long as no two calls of Run overlap, a runner has at most one process,
\* and the one it has is the one that it can stop.
OneProcessPerRunner ==
    \A r \in Runners \ overlapped :
        /\ Cardinality({c \in Runs : RunnerOf(c) = r /\ Live(c)}) <= 1
        /\ \A c \in Runs : (RunnerOf(c) = r /\ Live(c)) => cmd[r] = c

\* Polls overtake each other, but in the end the cache has what the upstream has.
CacheConverges == \A v \in Versions : <>[](upstream = v /\ ~ctxDone) => <>[](cache = v)

\* What the upstream has in the end is what is generated in the end, unless
\* calls of Run overlapped or the cache changed before it was watched; and the
\* hooks server runs on that configuration in the end, and has not started
\* before it was written.
Undisturbed(r) == r \notin overlapped /\ r \notin tooEarly /\ ~missed /\ ~ctxDone
Serves(v) == \E c \in Runs : RunnerOf(c) = "hooks" /\ proc[c] = "running" /\ reads[c] = v
LastChangeIsServed ==
    \A v \in Versions :
        /\ <>[](upstream = v /\ Undisturbed("config")) => <>[](config = v)
        /\ <>[](upstream = v /\ Undisturbed("config") /\ Undisturbed("hooks"))
              => <>[](config = v /\ Serves(v))

(* Refinement *)

\* What is promised to the callers of Run (module ProcessSlot): a call asks from
\* Stop to Start, and the slot holds the process that lives.
OneOf(S) == IF S = {} THEN None ELSE CHOOSE c \in S : TRUE
Used == {c \in Runs : call[c] # "none"}
Asking(r) == OneOf({c \in Runs : RunnerOf(c) = r /\ r \notin overlapped /\ InRun(c)})
Holding(r) == OneOf({c \in Runs : RunnerOf(c) = r /\ r \notin overlapped /\ Live(c)})
ToldRunners ==
    {r \in Runners \ overlapped : \E c \in Runs : RunnerOf(c) = r /\ proc[c] = "stopping"}

Slot == INSTANCE ProcessSlot WITH
    Slots <- Runners, Lasting <- Daemons, Processes <- Runs, Nobody <- None,
    used <- Used,
    asked <- [r \in Runners |-> Asking(r)],
    holds <- [r \in Runners |-> Holding(r)],
    told <- ToldRunners,
    void <- overlapped,
    cancelled <- ctxDone

SlotSpec == Slot!Spec
=============================================================================
