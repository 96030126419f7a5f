---------------------------- MODULE IdleTimeout ----------------------------
(***************************************************************************)
(* The idle-timeout middleware of the WunderNode                           *)
(* (pkg/httpidletimeout/httpidletimeout.go) and its use by startServer     *)
(* (pkg/node/node.go): requests count themselves in and out and send       *)
(* events to a goroutine that owns a timer; when the timer ticks, the      *)
(* goroutine that waits calls the idle handler, which ends the process;    *)
(* the graceful shutdown cancels the middleware.                           *)
(*                                                                         *)
(* The counter is changed atomically, and the event is sent afterwards:    *)
(* between the two, other requests can change the counter and send first.  *)
(***************************************************************************)
EXTENDS Naturals, Sequences, FiniteSets

CONSTANTS
    Requests,        \* goroutines that serve HTTP requests, one after another
    Skipped          \* those whose requests the skip function exempts (/health)

ASSUME RequestsAssumption ==
    /\ IsFiniteSet(Requests)
    /\ Skipped \subseteq Requests

VARIABLES
    counter,         \* Middleware.counter
    eventCh,         \* Middleware.eventCh, a channel with room for one event
    notifyCh,        \* does Middleware.notifyCh, with room for one, hold a value?
    timer,           \* the timer t of Start
    loop,            \* the goroutine of Start
    pc,              \* where each request is
    cancel,          \* Cancel, as Server.Shutdown runs it in a goroutine
    waiter,          \* the goroutine of startServer that waits for the tick
    ctxDone          \* is the node's context cancelled?

vars == <<counter, eventCh, notifyCh, timer, loop, pc, cancel, waiter, ctxDone>>

EventCap == 1
Events == {"reset", "start", "stop"}
Counted == Requests \ Skipped

\* "armed": counting down to the timeout; "tick": expired, the value is in t.C;
\* "forever": reset to the infinite duration; "off": stopped.
TimerStates == {"armed", "tick", "forever", "off"}

TypeOK ==
    /\ counter \in 0 .. Cardinality(Counted)
    /\ eventCh \in Seq(Events) /\ Len(eventCh) <= EventCap
    /\ notifyCh \in BOOLEAN
    /\ timer \in TimerStates
    /\ loop \in {"select", "returned"}
    /\ pc \in [Requests -> {"idle", "reset", "serving", "start"}]
    /\ cancel \in {"no", "sending", "sent"}
    /\ waiter \in {"waiting", "triggered", "cancelled", "handled"}
    /\ ctxDone \in BOOLEAN

\* New and Start, before the server listens.
Init ==
    /\ counter = 0
    /\ eventCh = <<>>
    /\ notifyCh = FALSE
    /\ timer = "armed"
    /\ loop = "select"
    /\ pc = [r \in Requests |-> "idle"]
    /\ cancel = "no"
    /\ waiter = "waiting"
    /\ ctxDone = FALSE

SendEvent(e) ==
    /\ Len(eventCh) < EventCap
    /\ eventCh' = Append(eventCh, e)
-----------------------------------------------------------------------------
(* Handler: startRequest, the next handler, endRequest *)

\* Mutant: the skip function is not asked when a request begins.
StartRequestCountsAll(r) ==
    /\ pc[r] = "idle"
    /\ counter' = counter + 1
    /\ pc' = [pc EXCEPT ![r] = IF counter' = 1 THEN "reset" ELSE "serving"]
    /\ UNCHANGED <<eventCh, notifyCh, timer, loop, cancel, waiter, ctxDone>>

\* The request that makes the counter 1 has to stop the timer before it is
\* served.
StartRequest(r) ==
    /\ pc[r] = "idle"
    /\ IF r \in Skipped
       THEN /\ pc' = [pc EXCEPT ![r] = "serving"]
            /\ UNCHANGED counter
       ELSE /\ counter' = counter + 1
            /\ pc' = [pc EXCEPT ![r] = IF counter' = 1 THEN "reset" ELSE "serving"]
    /\ UNCHANGED <<eventCh, notifyCh, timer, loop, cancel, waiter, ctxDone>>

SendReset(r) ==
    /\ pc[r] = "reset"
    /\ SendEvent("reset")
    /\ pc' = [pc EXCEPT ![r] = "serving"]
    /\ UNCHANGED <<counter, notifyCh, timer, loop, cancel, waiter, ctxDone>>

\* Mutant: endRequest is deferred for skipped requests too.
EndRequestCountsAll(r) ==
    /\ pc[r] = "serving"
    /\ counter' = counter - 1
    /\ pc' = [pc EXCEPT ![r] = IF counter' = 0 THEN "start" ELSE "idle"]
    /\ UNCHANGED <<eventCh, notifyCh, timer, loop, cancel, waiter, ctxDone>>

\* Mutant: the event is dropped when the channel is full.
SendStartOrDrop(r) ==
    /\ pc[r] = "start"
    /\ IF Len(eventCh) < EventCap THEN SendEvent("start") ELSE UNCHANGED eventCh
    /\ pc' = [pc EXCEPT ![r] = "idle"]
    /\ UNCHANGED <<counter, notifyCh, timer, loop, cancel, waiter, ctxDone>>

\* The request that makes the counter 0 has to start the timer.  Deferred: also
\* when the next handler panics.
EndRequest(r) ==
    /\ pc[r] = "serving"
    /\ IF r \in Skipped
       THEN /\ pc' = [pc EXCEPT ![r] = "idle"]
            /\ UNCHANGED counter
       ELSE /\ counter' = counter - 1
            /\ pc' = [pc EXCEPT ![r] = IF counter' = 0 THEN "start" ELSE "idle"]
    /\ UNCHANGED <<eventCh, notifyCh, timer, loop, cancel, waiter, ctxDone>>

SendStart(r) ==
    /\ pc[r] = "start"
    /\ SendEvent("start")
    /\ pc' = [pc EXCEPT ![r] = "idle"]
    /\ UNCHANGED <<counter, notifyCh, timer, loop, cancel, waiter, ctxDone>>
-----------------------------------------------------------------------------
(* Start *)

TimerExpires ==
    /\ timer = "armed"
    /\ timer' = "tick"
    /\ UNCHANGED <<counter, eventCh, notifyCh, loop, pc, cancel, waiter, ctxDone>>

\* Notify, unless a notification is still there, and count down again.
TakeTick ==
    /\ loop = "select"
    /\ timer = "tick"
    /\ notifyCh' = TRUE
    /\ timer' = "armed"
    /\ UNCHANGED <<counter, eventCh, loop, pc, cancel, waiter, ctxDone>>

\* Mutant: the timer's channel is drained whether or not it has expired.
TakeEventDrainsAlways ==
    /\ loop = "select"
    /\ eventCh # <<>>
    /\ timer = "tick"
    /\ eventCh' = Tail(eventCh)
    /\ CASE Head(eventCh) = "reset" -> timer' = "forever" /\ UNCHANGED loop
         [] Head(eventCh) = "start" -> timer' = "armed" /\ UNCHANGED loop
         [] Head(eventCh) = "stop" -> timer' = "off" /\ loop' = "returned"
    /\ UNCHANGED <<counter, notifyCh, pc, cancel, waiter, ctxDone>>

\* Stop the timer, drain its channel, and do what the event asks for.
TakeEvent ==
    /\ loop = "select"
    /\ eventCh # <<>>
    /\ eventCh' = Tail(eventCh)
    /\ CASE Head(eventCh) = "reset" -> timer' = "forever" /\ UNCHANGED loop
         [] Head(eventCh) = "start" -> timer' = "armed" /\ UNCHANGED loop
         [] Head(eventCh) = "stop" -> timer' = "off" /\ loop' = "returned"
    /\ UNCHANGED <<counter, notifyCh, pc, cancel, waiter, ctxDone>>
-----------------------------------------------------------------------------
(* startServer, HandleGracefulShutdown and the idle handler of the CLI *)

\* A signal, or a failure elsewhere in the process.
CancelContext ==
    /\ ~ctxDone
    /\ ctxDone' = TRUE
    /\ UNCHANGED <<counter, eventCh, notifyCh, timer, loop, pc, cancel, waiter>>

\* Mutant: the handler is called only after a cancellation.
WaitReturnsOnCancel ==
    /\ waiter = "waiting"
    /\ ctxDone
    /\ waiter' = "cancelled"
    /\ UNCHANGED <<counter, eventCh, notifyCh, timer, loop, pc, cancel, ctxDone>>

\* Wait: either case may be taken when both are ready.
WaitReturns ==
    /\ waiter = "waiting"
    /\ \/ notifyCh /\ notifyCh' = FALSE /\ waiter' = "triggered"
       \/ ctxDone /\ waiter' = "cancelled" /\ UNCHANGED notifyCh
    /\ UNCHANGED <<counter, eventCh, timer, loop, pc, cancel, ctxDone>>

\* startServer does not look at what Wait returned; the handler that the
\* commands "start" and "node start" install cancels the node's context.
IdleHandler ==
    /\ waiter \in {"triggered", "cancelled"}
    /\ waiter' = "handled"
    /\ ctxDone' = TRUE
    /\ UNCHANGED <<counter, eventCh, notifyCh, timer, loop, pc, cancel>>

\* HandleGracefulShutdown calls Server.Shutdown, which starts Cancel.
Shutdown ==
    /\ ctxDone
    /\ cancel = "no"
    /\ cancel' = "sending"
    /\ UNCHANGED <<counter, eventCh, notifyCh, timer, loop, pc, waiter, ctxDone>>

Cancel ==
    /\ cancel = "sending"
    /\ SendEvent("stop")
    /\ cancel' = "sent"
    /\ UNCHANGED <<counter, notifyCh, timer, loop, pc, waiter, ctxDone>>
-----------------------------------------------------------------------------
Next ==
    \/ \E r \in Requests :
          StartRequest(r) \/ SendReset(r) \/ EndRequest(r) \/ SendStart(r)
    \/ TimerExpires \/ TakeTick \/ TakeEvent
    \/ CancelContext \/ WaitReturns \/ IdleHandler \/ Shutdown \/ Cancel

Spec == Init /\ [][Next]_vars

\* Goroutines run and time passes; blocked senders are served in order of
\* arrival; select picks a ready case at random, so neither the timer nor the
\* events are passed over for ever.  Clients need not come nor handlers return.
Fairness ==
    /\ \A r \in Requests : SF_vars(SendReset(r)) /\ SF_vars(SendStart(r))
    /\ WF_vars(TimerExpires)
    /\ SF_vars(TakeTick)
    /\ SF_vars(TakeEvent)
    /\ WF_vars(WaitReturns) /\ WF_vars(IdleHandler)
    /\ WF_vars(Shutdown) /\ SF_vars(Cancel)

FairSpec == Spec /\ Fairness
-----------------------------------------------------------------------------
(* Properties *)

\* The counter is the number of requests between startRequest and endRequest:
\* it never wraps below zero, and a skipped request does not touch it.
CounterIsExact ==
    counter = Cardinality({r \in Counted : pc[r] \in {"reset", "serving"}})

\* An event was decided upon and has not reached the timer.
InTransit ==
    \/ eventCh # <<>>
    \/ \E r \in Requests : pc[r] \in {"reset", "start"}

\* However the events of overlapping requests overtake each other, once they
\* have arrived and nobody is served, the timer counts down.
IdleIsCountedDown ==
    counter = 0 /\ ~InTransit /\ loop = "select" => timer \in {"armed", "tick"}

\* A request never waits for ever to stop or start the timer, as long as the
\* middleware was not cancelled.
SendersProceed ==
    [](cancel = "no") =>
        \A r \in Requests : pc[r] \in {"reset", "start"} ~> pc[r] \in {"serving", "idle"}

\* When no counted request is served any more, the idle handler ends the
\* process, whatever the health checks do.
IdleProcessEnds ==
    <>[](counter = 0) => <>(ctxDone /\ waiter = "handled")
=============================================================================
