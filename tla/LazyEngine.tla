----------------------------- MODULE LazyEngine -----------------------------
(***************************************************************************)
(* The lazily started database engine of the WunderNode                    *)
(* (pkg/datasources/database/datasource.go).  A LazyEngine owns at most    *)
(* one Prisma query engine, an external process that the first request     *)
(* starts, and that a goroutine (LazyEngine.Start, "the loop" below) stops *)
(* when no request was processed for closeTimeoutSeconds.                  *)
(*                                                                         *)
(* Each member of Requests is a goroutine that calls Source.Load again and *)
(* again: Load sets a five second deadline, calls LazyEngine.Execute and   *)
(* retries until Execute succeeds or the deadline has passed.  Execute     *)
(* runs under the read lock when there is an engine, and under the write   *)
(* lock, after starting one, when it saw none.  Either way it tells the    *)
(* loop over an unbuffered channel, with the lock still held, that the     *)
(* request was processed.                                                  *)
(***************************************************************************)
EXTENDS Naturals, RWMutex

CONSTANTS
    Requests,        \* the goroutines that call Source.Load
    Loop,            \* the goroutine that runs LazyEngine.Start
    MaxEngines,      \* bound: how many times an engine process can be started
    Cancellable      \* can the context given to Factory.Planner be cancelled?

ASSUME ConstantsAssumption ==
    /\ Nobody \notin Requests
    /\ Loop \notin Requests
    /\ Loop # Nobody
    /\ MaxEngines \in Nat
    /\ Cancellable \in BOOLEAN

VARIABLES
    engine,          \* LazyEngine.engine: an engine process, or NoEngine
    closed,          \* LazyEngine.closed
    running,         \* the engine processes started and not yet closed
    started,         \* how many engine processes were ever started
    loop,            \* where the loop is
    timer,           \* the channel stopEngine: nil, waiting, or holding a tick
    closer,          \* is the closer channel (ctx.Done()) closed?
    pc,              \* where each request is
    using,           \* the engine whose Execute a request is in
    expired,         \* has the context of Load been cancelled?
    failed,          \* is the error of the Execute being left non-nil?
    buf              \* what the buffer of Load holds

engineVars == <<engine, closed, running, started>>
loopVars == <<loop, timer, closer>>
loadVars == <<using, expired, failed, buf>>
vars == <<mutexVars, engineVars, loopVars, pc, loadVars>>

NoEngine == 0
Engines == 1 .. MaxEngines

\* "make": requestWasProcessed is still nil.  "stopLock" and "closeLock": a
\* case of the select was taken and m.Lock() is about to be called; "stop" and
\* "close": inside m.Lock() or holding the lock.
LoopPlaces ==
    {"make", "select", "stopLock", "stop", "closeLock", "close", "returned"}

\* "rlock", "lock": about to take the lock; "check", "init": inside RLock or
\* Lock, or just returned from it; "ready": in WaitUntilReady; "exec": in
\* Execute of the engine; "send": about to send on requestWasProcessed or
\* blocked doing so; "stuck": sending on the nil channel; "unlock": the lock is
\* still to be released; "failed", "done": Execute has returned to Load.
RequestPlaces ==
    {"idle", "rlock", "check", "lock", "init", "ready", "exec", "send",
     "stuck", "unlock", "failed", "done"}

TypeOK ==
    /\ readers \subseteq Requests
    /\ blocked \subseteq Requests
    /\ writer \in Requests \cup {Loop, Nobody}
    /\ engine \in Engines \cup {NoEngine}
    /\ closed \in BOOLEAN
    /\ running \subseteq Engines
    /\ started \in 0 .. MaxEngines
    /\ loop \in LoopPlaces
    /\ timer \in {"nil", "armed", "fired"}
    /\ closer \in BOOLEAN
    /\ pc \in [Requests -> RequestPlaces]
    /\ using \in [Requests -> Engines \cup {NoEngine}]
    /\ expired \in [Requests -> BOOLEAN]
    /\ failed \in [Requests -> BOOLEAN]
    /\ buf \in [Requests -> {"empty", "part", "response", "mixed"}]

Init ==
    /\ MutexInit
    /\ engine = NoEngine
    /\ closed = FALSE
    /\ running = {}
    /\ started = 0
    /\ loop = "make"
    /\ timer = "nil"
    /\ closer = FALSE
    /\ pc = [r \in Requests |-> "idle"]
    /\ using = [r \in Requests |-> NoEngine]
    /\ expired = [r \in Requests |-> FALSE]
    /\ failed = [r \in Requests |-> FALSE]
    /\ buf = [r \in Requests |-> "empty"]

Goto(r, place) == pc' = [pc EXCEPT ![r] = place]
-----------------------------------------------------------------------------
(* Source.Load *)

\* A resolver calls Load: an empty buffer of the pool and a fresh deadline.
Load(r) ==
    /\ pc[r] = "idle"
    /\ Goto(r, "rlock")
    /\ UNCHANGED <<mutexVars, engineVars, loopVars, loadVars>>

\* Load returns: the context and the buffer are given back.
Return(r) ==
    /\ Goto(r, "idle")
    /\ expired' = [expired EXCEPT ![r] = FALSE]
    /\ buf' = [buf EXCEPT ![r] = "empty"]
    /\ UNCHANGED <<mutexVars, engineVars, loopVars, using, failed>>

\* Five seconds have passed, or the caller's context was cancelled.
Expire(r) ==
    /\ pc[r] # "idle"
    /\ ~expired[r]
    /\ expired' = [expired EXCEPT ![r] = TRUE]
    /\ UNCHANGED <<mutexVars, engineVars, loopVars, pc, using, failed, buf>>

\* Execute failed and the context is done: Load returns the error.
GiveUp(r) ==
    /\ pc[r] = "failed"
    /\ expired[r]
    /\ Return(r)

\* Mutant: the buffer is not reset before the next attempt.
RetryWithoutReset(r) ==
    /\ pc[r] = "failed"
    /\ ~expired[r]
    /\ Goto(r, "rlock")
    /\ UNCHANGED <<mutexVars, engineVars, loopVars, loadVars>>

\* Execute failed and the context is not done: sleep, reset, try again.
Retry(r) ==
    /\ pc[r] = "failed"
    /\ ~expired[r]
    /\ buf' = [buf EXCEPT ![r] = "empty"]
    /\ Goto(r, "rlock")
    /\ UNCHANGED <<mutexVars, engineVars, loopVars, using, expired, failed>>

\* Execute succeeded: the buffer is written to the caller's writer.
Deliver(r) ==
    /\ pc[r] = "done"
    /\ Return(r)
-----------------------------------------------------------------------------
(* LazyEngine.Execute *)

EnterRLock(r) ==
    /\ pc[r] = "rlock"
    /\ RLock(r)
    /\ Goto(r, "check")
    /\ UNCHANGED <<engineVars, loopVars, loadVars>>

RejectClosed(r) ==
    /\ pc[r] = "check"
    /\ r \in readers
    /\ closed
    /\ RUnlock(r)
    /\ Goto(r, "failed")
    /\ UNCHANGED <<engineVars, loopVars, loadVars>>

\* Mutant: the read lock is still held when the write lock is asked for.
SeeNoEngineKeepsLock(r) ==
    /\ pc[r] = "check"
    /\ r \in readers
    /\ ~closed
    /\ engine = NoEngine
    /\ Goto(r, "lock")
    /\ UNCHANGED <<mutexVars, engineVars, loopVars, loadVars>>

\* No engine: the read lock is given up before the write lock is asked for.
SeeNoEngine(r) ==
    /\ pc[r] = "check"
    /\ r \in readers
    /\ ~closed
    /\ engine = NoEngine
    /\ RUnlock(r)
    /\ Goto(r, "lock")
    /\ UNCHANGED <<engineVars, loopVars, loadVars>>

\* Mutant: the read lock only protects the test for nil.
UseEngineUnlocked(r) ==
    /\ pc[r] = "check"
    /\ r \in readers
    /\ ~closed
    /\ engine # NoEngine
    /\ using' = [using EXCEPT ![r] = engine]
    /\ RUnlock(r)
    /\ Goto(r, "exec")
    /\ UNCHANGED <<engineVars, loopVars, expired, failed, buf>>

UseEngine(r) ==
    /\ pc[r] = "check"
    /\ r \in readers
    /\ ~closed
    /\ engine # NoEngine
    /\ using' = [using EXCEPT ![r] = engine]
    /\ Goto(r, "exec")
    /\ UNCHANGED <<mutexVars, engineVars, loopVars, expired, failed, buf>>
-----------------------------------------------------------------------------
(* LazyEngine.initEngineAndExecute *)

EnterLock(r) ==
    /\ pc[r] = "lock"
    /\ Announce(r)
    /\ Goto(r, "init")
    /\ UNCHANGED <<engineVars, loopVars, loadVars>>

\* NewHybridEngine starts a process and overwrites e.engine, whatever it was.
StartEngine(r) ==
    /\ pc[r] = "init"
    /\ HoldsWrite(r)
    /\ started < MaxEngines
    /\ started' = started + 1
    /\ engine' = started + 1
    /\ running' = running \cup {started + 1}
    /\ Goto(r, "ready")
    /\ UNCHANGED <<mutexVars, closed, loopVars, loadVars>>

\* NewHybridEngine fails (download, free port): e.engine becomes nil.
StartEngineFails(r) ==
    /\ pc[r] = "init"
    /\ Unlock(r)
    /\ engine' = NoEngine
    /\ Goto(r, "failed")
    /\ UNCHANGED <<closed, running, started, loopVars, loadVars>>

EngineReady(r) ==
    /\ pc[r] = "ready"
    /\ using' = [using EXCEPT ![r] = engine]
    /\ Goto(r, "exec")
    /\ UNCHANGED <<mutexVars, engineVars, loopVars, expired, failed, buf>>

\* WaitUntilReady sees the context done: the engine it waited for stays in
\* e.engine and the loop is told nothing.
EngineNotReady(r) ==
    /\ pc[r] = "ready"
    /\ expired[r]
    /\ Unlock(r)
    /\ Goto(r, "failed")
    /\ UNCHANGED <<engineVars, loopVars, loadVars>>
-----------------------------------------------------------------------------
(* LazyEngine.execute and sendRequestProcessed *)

\* What the buffer holds after "more" was copied to it.
Copied(old, more) == IF old = "empty" THEN more ELSE "mixed"

ExecuteSucceeds(r) ==
    /\ pc[r] = "exec"
    /\ buf' = [buf EXCEPT ![r] = Copied(buf[r], "response")]
    /\ using' = [using EXCEPT ![r] = NoEngine]
    /\ Goto(r, "send")
    /\ UNCHANGED <<mutexVars, engineVars, loopVars, expired, failed>>

\* The HTTP request to the engine fails, or breaks off within the body.
ExecuteFails(r) ==
    /\ pc[r] = "exec"
    /\ \/ UNCHANGED buf
       \/ buf' = [buf EXCEPT ![r] = Copied(buf[r], "part")]
    /\ failed' = [failed EXCEPT ![r] = TRUE]
    /\ using' = [using EXCEPT ![r] = NoEngine]
    /\ Goto(r, "send")
    /\ UNCHANGED <<mutexVars, engineVars, loopVars, expired>>

\* The loop has not made the channel yet: a send on nil blocks for ever.
SendOnNil(r) ==
    /\ pc[r] = "send"
    /\ loop = "make"
    /\ Goto(r, "stuck")
    /\ UNCHANGED <<mutexVars, engineVars, loopVars, loadVars>>

\* Mutant: the wait for the loop ends with the context.
ReleaseOnDeadline(r) ==
    /\ pc[r] = "unlock" \/ (pc[r] = "send" /\ expired[r])
    /\ IF writer = r THEN Unlock(r) ELSE RUnlock(r)
    /\ Goto(r, IF failed[r] THEN "failed" ELSE "done")
    /\ failed' = [failed EXCEPT ![r] = FALSE]
    /\ UNCHANGED <<engineVars, loopVars, using, expired, buf>>

\* Execute, or initEngineAndExecute, gives the lock back and returns.
Release(r) ==
    /\ pc[r] = "unlock"
    /\ IF writer = r THEN Unlock(r) ELSE RUnlock(r)
    /\ Goto(r, IF failed[r] THEN "failed" ELSE "done")
    /\ failed' = [failed EXCEPT ![r] = FALSE]
    /\ UNCHANGED <<engineVars, loopVars, using, expired, buf>>
-----------------------------------------------------------------------------
(* LazyEngine.Start *)

MakeChannel ==
    /\ loop = "make"
    /\ loop' = "select"
    /\ UNCHANGED <<mutexVars, engineVars, timer, closer, pc, loadVars>>

\* The rendezvous on requestWasProcessed: the timer starts afresh.
Processed(r) ==
    /\ loop = "select"
    /\ pc[r] = "send"
    /\ Goto(r, "unlock")
    /\ timer' = "armed"
    /\ UNCHANGED <<mutexVars, engineVars, loop, closer, loadVars>>

TimerFires ==
    /\ timer = "armed"
    /\ timer' = "fired"
    /\ UNCHANGED <<mutexVars, engineVars, loop, closer, pc, loadVars>>

\* Both cases close the engine, if there is one, and forget it.
CloseEngine ==
    /\ running' = running \ {engine}
    /\ engine' = NoEngine
    /\ UNCHANGED started

\* Mutant: the engine is closed without the lock.
TakeStopWithoutLock ==
    /\ loop = "select"
    /\ timer = "fired"
    /\ timer' = "nil"
    /\ CloseEngine
    /\ UNCHANGED <<mutexVars, closed, loop, closer, pc, loadVars>>

TakeStop ==
    /\ loop = "select"
    /\ timer = "fired"
    /\ timer' = "nil"
    /\ loop' = "stopLock"
    /\ UNCHANGED <<mutexVars, engineVars, closer, pc, loadVars>>

TakeCloser ==
    /\ loop = "select"
    /\ closer
    /\ loop' = "closeLock"
    /\ UNCHANGED <<mutexVars, engineVars, timer, closer, pc, loadVars>>

\* Mutant: the loop takes the read lock.
LoopEnterRLock ==
    /\ \/ loop = "stopLock" /\ loop' = "stop"
       \/ loop = "closeLock" /\ loop' = "close"
    /\ RLock(Loop)
    /\ UNCHANGED <<engineVars, timer, closer, pc, loadVars>>

LoopEnterLock ==
    /\ \/ loop = "stopLock" /\ loop' = "stop"
       \/ loop = "closeLock" /\ loop' = "close"
    /\ Announce(Loop)
    /\ UNCHANGED <<engineVars, timer, closer, pc, loadVars>>

\* Mutant: the engine is closed but not forgotten.
StopEngineKeepsIt ==
    /\ loop = "stop"
    /\ running' = running \ {engine}
    /\ Unlock(Loop)
    /\ loop' = "select"
    /\ UNCHANGED <<engine, started, closed, timer, closer, pc, loadVars>>

StopEngine ==
    /\ loop = "stop"
    /\ CloseEngine
    /\ Unlock(Loop)
    /\ loop' = "select"
    /\ UNCHANGED <<closed, timer, closer, pc, loadVars>>

CloseForGood ==
    /\ loop = "close"
    /\ CloseEngine
    /\ closed' = TRUE
    /\ Unlock(Loop)
    /\ loop' = "returned"
    /\ UNCHANGED <<timer, closer, pc, loadVars>>

\* The context of the planner is cancelled, where it can be.
CancelPlanner ==
    /\ Cancellable
    /\ ~closer
    /\ closer' = TRUE
    /\ UNCHANGED <<mutexVars, engineVars, loop, timer, pc, loadVars>>
-----------------------------------------------------------------------------
\* The steps a request takes by itself once Load was called; the write lock
\* and the channel are apart, because they are contended for.
RequestStep(r) ==
    \/ GiveUp(r) \/ Retry(r) \/ Deliver(r)
    \/ EnterRLock(r) \/ RejectClosed(r) \/ SeeNoEngine(r) \/ UseEngine(r)
    \/ StartEngine(r) \/ StartEngineFails(r) \/ EngineReady(r) \/ EngineNotReady(r)
    \/ ExecuteSucceeds(r) \/ ExecuteFails(r) \/ SendOnNil(r) \/ Release(r)

LoopStep ==
    \/ MakeChannel \/ TakeStop \/ TakeCloser \/ StopEngine \/ CloseForGood

Next ==
    \/ \E r \in Requests :
          Load(r) \/ Expire(r) \/ RequestStep(r) \/ EnterLock(r) \/ Processed(r)
    \/ LoopStep \/ LoopEnterLock \/ TimerFires \/ CancelPlanner

Spec == Init /\ [][Next]_vars

\* Goroutines run, deadlines and timers pass.  sync.Mutex hands itself to a
\* waiter that has waited for long, and the senders on a channel are served in
\* the order in which they came: strong fairness.  Nobody has to call Load or
\* to cancel the planner's context.
Fairness ==
    /\ \A r \in Requests :
          /\ WF_vars(RequestStep(r))
          /\ WF_vars(Expire(r))
          /\ SF_vars(EnterLock(r))
          /\ SF_vars(Processed(r))
    /\ WF_vars(LoopStep)
    /\ SF_vars(LoopEnterLock)
    /\ WF_vars(TimerFires)

FairSpec == Spec /\ Fairness
-----------------------------------------------------------------------------
(* Safety *)

Idle == \A r \in Requests : pc[r] = "idle"

\* A request executes only on the engine the LazyEngine holds, and that
\* process was started and not closed: neither the loop nor a request that
\* starts a second engine ever closes or replaces an engine under a request
\* (Execute and initEngineAndExecute against the two closing cases of Start).
ExecutesOnCurrentEngine ==
    \A r \in Requests :
        pc[r] = "exec" => using[r] = engine /\ engine \in running

\* What Load hands to the resolver is exactly the response of one Execute:
\* nothing of an earlier attempt that broke off is left in front of it.
DeliversOneResponse ==
    \A r \in Requests : pc[r] = "done" => buf[r] = "response"

\* The request holds the lock and will send, or is sending, to a loop that has
\* left its select and needs that lock before it selects again.
Doomed(r) ==
    \/ pc[r] = "stuck"
    \/ /\ loop \notin {"make", "select"}
       /\ Holds(r)
       /\ \/ pc[r] \in {"exec", "send"}
          \/ pc[r] = "check" /\ ~closed /\ engine # NoEngine

\* sendRequestProcessed waits for the loop with the lock held, and no deadline
\* ends that wait: a request caught in it is caught for ever.
DoomIsForever == [][\A r \in Requests : Doomed(r) => Doomed(r)']_vars

(* Liveness *)

\* That meeting is the only way to hang: as long as no request is doomed, every
\* Load returns, through the lock, the start of an engine, and the retries.
LoadReturns ==
    [](\A r \in Requests : ~Doomed(r)) =>
        \A r \in Requests : pc[r] # "idle" ~> pc[r] = "idle"

\* Once a request was processed, an engine nobody asks for is stopped, unless
\* the loop has closed the LazyEngine for good.
UsedEngineIsStopped ==
    (engine # NoEngine /\ timer # "nil" /\ Idle) ~> (engine = NoEngine \/ ~Idle \/ closed)

(* Refinement *)

\* What is promised to the users of an engine (module EngineSlot).
Slot == INSTANCE EngineSlot WITH
    current <- engine,
    users <- {r \in Requests : pc[r] = "exec"}

SlotSpec == Slot!Spec
=============================================================================
