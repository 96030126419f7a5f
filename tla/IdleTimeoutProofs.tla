------------------------- MODULE IdleTimeoutProofs -------------------------
(***************************************************************************)
(* Proofs about IdleTimeout, for any finite set of requests.               *)
(***************************************************************************)
EXTENDS IdleTimeout, FiniteSetTheorems, TLAPS

InService == {r \in Counted : pc[r] \in {"reset", "serving"}}

\* The channel has room for one event, and only counted requests send any.
ChannelInv ==
    /\ eventCh = <<>> \/ \E e \in Events : eventCh = <<e>>
    /\ \A r \in Requests : pc[r] \in {"reset", "start"} => r \in Counted

\* When the timer is stopped, or the event that stops it is the last one sent,
\* somebody is served or is about to send the event that starts it.
TimerInv ==
    /\ \/ eventCh = <<>> /\ timer = "forever"
       \/ eventCh = <<"reset">>
       => counter > 0 \/ \E r \in Requests : pc[r] = "start"
    /\ timer = "off" => loop = "returned"

IInv == TypeOK /\ ChannelInv /\ CounterIsExact /\ TimerInv
-----------------------------------------------------------------------------
\* What the channel of capacity one holds after SendEvent.
LEMMA SendEventFills ==
  ASSUME ChannelInv, NEW e \in Events, SendEvent(e)
  PROVE  eventCh = <<>> /\ eventCh' = <<e>>
<1>1. eventCh = <<>>
  BY DEF ChannelInv, SendEvent, EventCap
<1>2. QED
  BY <1>1 DEF SendEvent

\* What is left when the loop of Start has taken the event.
LEMMA TakeEventEmpties ==
  ASSUME ChannelInv, TakeEvent
  PROVE  eventCh' = <<>> /\ Head(eventCh) \in Events /\ eventCh = <<Head(eventCh)>>
<1>1. PICK e \in Events : eventCh = <<e>>
  BY DEF ChannelInv, TakeEvent
<1>2. Head(eventCh) = e /\ Tail(eventCh) = <<>>
  BY <1>1
<1>3. QED
  BY <1>1, <1>2 DEF TakeEvent

\* Any of the counted requests are finitely many.
LEMMA CountedFinite ==
  ASSUME NEW S \in SUBSET Counted
  PROVE  IsFiniteSet(S) /\ Cardinality(S) \in 0 .. Cardinality(Counted)
<1>1. IsFiniteSet(Counted)
  BY RequestsAssumption, FS_Subset DEF Counted
<1>2. QED
  BY <1>1, FS_Subset, FS_CardinalityType

\* startRequest and endRequest count exactly the requests in between, whatever
\* the order in which the goroutines run.
LEMMA CounterStep ==
  TypeOK /\ ChannelInv /\ CounterIsExact /\ [Next]_vars => CounterIsExact'
<1> SUFFICES ASSUME TypeOK, ChannelInv, CounterIsExact, [Next]_vars
             PROVE  CounterIsExact'
  OBVIOUS
<1>0. counter = Cardinality(InService) /\ pc \in [Requests -> {"idle", "reset", "serving", "start"}]
  BY DEF CounterIsExact, InService, TypeOK
<1>1. ASSUME counter' = counter, InService' = InService PROVE CounterIsExact'
  BY <1>0, <1>1 DEF CounterIsExact, InService
<1>2. ASSUME NEW r \in Requests, StartRequest(r) PROVE CounterIsExact'
  <2>1. CASE r \in Skipped
    <3>1. counter' = counter /\ InService' = InService
      BY <1>0, <1>2, <2>1 DEF StartRequest, InService, Counted
    <3>2. QED
      BY <3>1, <1>1
  <2>2. CASE r \notin Skipped
    <3>1. r \notin InService /\ InService' = InService \cup {r}
      BY <1>0, <1>2, <2>2 DEF StartRequest, InService, Counted
    <3>2. Cardinality(InService') = Cardinality(InService) + 1
      BY <3>1, CountedFinite, FS_AddElement DEF InService
    <3>3. counter' = counter + 1
      BY <1>2, <2>2 DEF StartRequest
    <3>4. QED
      BY <1>0, <3>2, <3>3 DEF CounterIsExact, InService
  <2>3. QED
    BY <2>1, <2>2
<1>3. ASSUME NEW r \in Requests, EndRequest(r) PROVE CounterIsExact'
  <2>1. CASE r \in Skipped
    <3>1. counter' = counter /\ InService' = InService
      BY <1>0, <1>3, <2>1 DEF EndRequest, InService, Counted
    <3>2. QED
      BY <3>1, <1>1
  <2>2. CASE r \notin Skipped
    <3>1. r \in InService /\ InService' = InService \ {r}
      BY <1>0, <1>3, <2>2 DEF EndRequest, InService, Counted
    <3>2. Cardinality(InService') = Cardinality(InService) - 1
      BY <3>1, CountedFinite, FS_RemoveElement DEF InService
    <3>3. counter' = counter - 1
      BY <1>3, <2>2 DEF EndRequest
    <3>4. QED
      BY <1>0, <3>2, <3>3 DEF CounterIsExact, InService
  <2>3. QED
    BY <2>1, <2>2
<1>4. ASSUME NEW r \in Requests, SendReset(r) PROVE CounterIsExact'
  <2>1. counter' = counter /\ InService' = InService
    BY <1>0, <1>4 DEF SendReset, InService
  <2>2. QED
    BY <2>1, <1>1
<1>5. ASSUME NEW r \in Requests, SendStart(r) PROVE CounterIsExact'
  <2>1. counter' = counter /\ InService' = InService
    BY <1>0, <1>5 DEF SendStart, InService
  <2>2. QED
    BY <2>1, <1>1
<1>6. ASSUME UNCHANGED <<counter, pc>> PROVE CounterIsExact'
  BY <1>6, <1>1 DEF InService
<1>7. QED
  BY <1>2, <1>3, <1>4, <1>5, <1>6
     DEF Next, vars, TimerExpires, TakeTick, TakeEvent, CancelContext, WaitReturns,
         IdleHandler, Shutdown, Cancel

\* The channel holds one event at most, and only counted requests send any.
LEMMA ChannelStep == TypeOK /\ ChannelInv /\ [Next]_vars => ChannelInv'
<1> SUFFICES ASSUME TypeOK, ChannelInv, [Next]_vars PROVE ChannelInv'
  OBVIOUS
<1>0. pc \in [Requests -> {"idle", "reset", "serving", "start"}]
  BY DEF TypeOK
<1>1. ASSUME NEW r \in Requests, StartRequest(r) PROVE ChannelInv'
  BY <1>0, <1>1 DEF StartRequest, ChannelInv, Counted
<1>2. ASSUME NEW r \in Requests, SendReset(r) PROVE ChannelInv'
  BY <1>0, <1>2, SendEventFills DEF SendReset, ChannelInv, Events
<1>3. ASSUME NEW r \in Requests, EndRequest(r) PROVE ChannelInv'
  BY <1>0, <1>3 DEF EndRequest, ChannelInv, Counted
<1>4. ASSUME NEW r \in Requests, SendStart(r) PROVE ChannelInv'
  BY <1>0, <1>4, SendEventFills DEF SendStart, ChannelInv, Events
<1>5. CASE TakeEvent
  BY <1>5, TakeEventEmpties DEF TakeEvent, ChannelInv
<1>6. CASE Cancel
  BY <1>6, SendEventFills DEF Cancel, ChannelInv, Events
<1>7. ASSUME UNCHANGED <<eventCh, pc>> PROVE ChannelInv'
  BY <1>7 DEF ChannelInv
<1>8. QED
  BY <1>1, <1>2, <1>3, <1>4, <1>5, <1>6, <1>7
     DEF Next, vars, TimerExpires, TakeTick, CancelContext, WaitReturns,
         IdleHandler, Shutdown

\* A channel that holds nothing, or one event, is within its capacity.
LEMMA OneEvent ==
  ASSUME NEW ch, ch = <<>> \/ \E e \in Events : ch = <<e>>
  PROVE  ch \in Seq(Events) /\ Len(ch) <= EventCap
<1>1. CASE ch = <<>>
  BY <1>1 DEF EventCap
<1>2. ASSUME NEW e \in Events, ch = <<e>> PROVE ch \in Seq(Events) /\ Len(ch) <= EventCap
  BY <1>2 DEF EventCap
<1>3. QED
  BY <1>1, <1>2

\* Every variable keeps its type; the counter does because it is exact.
LEMMA TypeStep ==
  TypeOK /\ ChannelInv /\ CounterIsExact /\ [Next]_vars => TypeOK'
<1> SUFFICES ASSUME TypeOK, ChannelInv, CounterIsExact, [Next]_vars PROVE TypeOK'
  OBVIOUS
<1>1. counter' \in 0 .. Cardinality(Counted)
  <2>1. InService' \in SUBSET Counted
    BY DEF InService
  <2>2. counter' = Cardinality(InService')
    BY CounterStep DEF CounterIsExact, InService
  <2>3. QED
    BY <2>1, <2>2, CountedFinite
<1>0. eventCh' \in Seq(Events) /\ Len(eventCh') <= EventCap
  BY ChannelStep, OneEvent DEF ChannelInv
<1> USE <1>0, <1>1 DEF TypeOK, TimerStates
<1>2. ASSUME NEW r \in Requests, StartRequest(r) PROVE TypeOK'
  BY <1>2 DEF StartRequest
<1>3. ASSUME NEW r \in Requests, SendReset(r) PROVE TypeOK'
  BY <1>3 DEF SendReset
<1>4. ASSUME NEW r \in Requests, EndRequest(r) PROVE TypeOK'
  BY <1>4 DEF EndRequest
<1>5. ASSUME NEW r \in Requests, SendStart(r) PROVE TypeOK'
  BY <1>5 DEF SendStart
<1>6. CASE TimerExpires
  BY <1>6 DEF TimerExpires
<1>7. CASE TakeTick
  BY <1>7 DEF TakeTick
<1>8. CASE TakeEvent
  <2>1. Head(eventCh) \in Events
    BY <1>8, TakeEventEmpties
  <2>2. timer' \in {"forever", "armed", "off"} /\ loop' \in {loop, "returned"}
    BY <1>8, <2>1 DEF TakeEvent, Events
  <2>3. QED
    BY <1>8, <2>2 DEF TakeEvent
<1>9. CASE CancelContext
  BY <1>9 DEF CancelContext
<1>10. CASE WaitReturns
  BY <1>10 DEF WaitReturns
<1>11. CASE IdleHandler
  BY <1>11 DEF IdleHandler
<1>12. CASE Shutdown
  BY <1>12 DEF Shutdown
<1>13. CASE Cancel
  BY <1>13 DEF Cancel
<1>14. CASE UNCHANGED vars
  BY <1>14 DEF vars
<1>15. QED
  BY <1>2, <1>3, <1>4, <1>5, <1>6, <1>7, <1>8, <1>9, <1>10, <1>11, <1>12,
     <1>13, <1>14 DEF Next

\* A reset that is the last word to the timer is answered for: its sender is
\* counted until it, or whoever ends after it, decides to send the start.
LEMMA TimerStep ==
  TypeOK /\ ChannelInv /\ CounterIsExact /\ TimerInv /\ [Next]_vars => TimerInv'
<1> SUFFICES ASSUME TypeOK, ChannelInv, CounterIsExact, TimerInv, [Next]_vars
             PROVE  TimerInv'
  OBVIOUS
<1>0. /\ pc \in [Requests -> {"idle", "reset", "serving", "start"}]
      /\ counter \in Nat
  BY CountedFinite DEF TypeOK, CounterIsExact
<1>1. ASSUME NEW r \in Requests, StartRequest(r) PROVE TimerInv'
  BY <1>0, <1>1 DEF StartRequest, TimerInv
<1>2. ASSUME NEW r \in Requests, SendReset(r) PROVE TimerInv'
  <2>1. r \in InService /\ counter = Cardinality(InService)
    BY <1>2 DEF SendReset, InService, ChannelInv, CounterIsExact
  <2>2. IsFiniteSet(InService)
    BY CountedFinite DEF InService
  <2>3. counter > 0
    BY <2>1, <2>2, FS_EmptySet, <1>0
  <2>4. eventCh' = <<"reset">>
    BY <1>2, SendEventFills DEF SendReset, Events
  <2>5. QED
    BY <1>2, <2>3, <2>4 DEF SendReset, TimerInv
<1>3. ASSUME NEW r \in Requests, EndRequest(r) PROVE TimerInv'
  <2>1. CASE r \in Skipped
    BY <1>0, <1>3, <2>1 DEF EndRequest, TimerInv
  <2>2. CASE r \notin Skipped
    <3>1. counter' > 0 \/ pc'[r] = "start"
      <4>1. r \in InService /\ counter = Cardinality(InService)
        BY <1>3, <2>2 DEF EndRequest, InService, Counted, CounterIsExact
      <4>2. IsFiniteSet(InService)
        BY CountedFinite DEF InService
      <4>3. counter > 0
        BY <4>1, <4>2, FS_EmptySet, <1>0
      <4>4. QED
        BY <4>3, <1>0, <1>3, <2>2 DEF EndRequest
    <3>2. QED
      BY <3>1, <1>3 DEF EndRequest, TimerInv
  <2>3. QED
    BY <2>1, <2>2
<1>4. ASSUME NEW r \in Requests, SendStart(r) PROVE TimerInv'
  <2>1. eventCh' = <<"start">>
    BY <1>4, SendEventFills DEF SendStart, Events
  <2>2. eventCh' # <<>> /\ eventCh' # <<"reset">>
    BY <2>1
  <2>3. QED
    BY <1>4, <2>2 DEF SendStart, TimerInv
<1>5. CASE TimerExpires
  BY <1>5 DEF TimerExpires, TimerInv
<1>6. CASE TakeTick
  BY <1>6 DEF TakeTick, TimerInv
<1>7. CASE TakeEvent
  <2>1. eventCh' = <<>> /\ Head(eventCh) \in Events /\ eventCh = <<Head(eventCh)>>
    BY <1>7, TakeEventEmpties
  <2>2. eventCh' # <<"reset">>
    BY <2>1
  <2>3. UNCHANGED <<counter, pc>>
    BY <1>7 DEF TakeEvent
  <2>4. CASE Head(eventCh) = "reset"
    BY <1>7, <2>1, <2>2, <2>3, <2>4 DEF TakeEvent, TimerInv
  <2>5. CASE Head(eventCh) = "start"
    BY <1>7, <2>2, <2>3, <2>5 DEF TakeEvent, TimerInv
  <2>6. CASE Head(eventCh) = "stop"
    BY <1>7, <2>2, <2>3, <2>6 DEF TakeEvent, TimerInv
  <2>7. QED
    BY <2>1, <2>4, <2>5, <2>6 DEF Events
<1>8. CASE Cancel
  <2>1. eventCh' = <<"stop">>
    BY <1>8, SendEventFills DEF Cancel, Events
  <2>2. eventCh' # <<>> /\ eventCh' # <<"reset">>
    BY <2>1
  <2>3. QED
    BY <1>8, <2>2 DEF Cancel, TimerInv
<1>9. ASSUME UNCHANGED <<counter, eventCh, timer, loop, pc>> PROVE TimerInv'
  BY <1>9 DEF TimerInv
<1>10. QED
  BY <1>1, <1>2, <1>3, <1>4, <1>5, <1>6, <1>7, <1>8, <1>9
     DEF Next, vars, CancelContext, WaitReturns, IdleHandler, Shutdown

\* The invariant the theorems rest on.
LEMMA InductiveInvariant == Spec => []IInv
<1>1. Init => IInv
  <2> SUFFICES ASSUME Init PROVE IInv
    OBVIOUS
  <2>1. InService = {}
    BY DEF Init, InService, Counted
  <2>2. CounterIsExact
    BY <2>1, FS_EmptySet DEF Init, InService, CounterIsExact
  <2>3. Cardinality(Counted) \in Nat
    BY CountedFinite
  <2>4. TypeOK
    <3>1. eventCh \in Seq(Events) /\ Len(eventCh) <= EventCap
      BY OneEvent DEF Init
    <3>2. counter \in 0 .. Cardinality(Counted)
      BY <2>3 DEF Init
    <3>3. pc \in [Requests -> {"idle", "reset", "serving", "start"}]
      BY DEF Init
    <3>4. QED
      BY <3>1, <3>2, <3>3 DEF Init, TypeOK, TimerStates
  <2>5. ChannelInv /\ TimerInv
    BY DEF Init, ChannelInv, TimerInv
  <2>6. QED
    BY <2>2, <2>4, <2>5 DEF IInv
<1>2. IInv /\ [Next]_vars => IInv'
  BY TypeStep, ChannelStep, CounterStep, TimerStep DEF IInv
<1>3. QED
  BY <1>1, <1>2, PTL DEF Spec

\* Every variable of the middleware and its users keeps its type.
THEOREM TypeCorrect == Spec => []TypeOK
<1>1. IInv => TypeOK
  BY DEF IInv
<1>2. QED
  BY <1>1, InductiveInvariant, PTL

\* The counter is exact for any number of requests, health checks among them.
THEOREM CounterSafe == Spec => []CounterIsExact
<1>1. IInv => CounterIsExact
  BY DEF IInv
<1>2. QED
  BY <1>1, InductiveInvariant, PTL

\* A server that nobody uses never ends up with its timer stopped: whatever the
\* order of the events, the last one to arrive starts it.
THEOREM IdleSafe == Spec => []IdleIsCountedDown
<1>1. IInv => IdleIsCountedDown
  <2> SUFFICES ASSUME IInv, counter = 0, ~InTransit, loop = "select"
               PROVE  timer \in {"armed", "tick"}
    BY DEF IdleIsCountedDown
  <2>1. timer # "forever" /\ timer # "off"
    BY DEF IInv, TimerInv, InTransit
  <2>2. QED
    BY <2>1 DEF IInv, TypeOK, TimerStates
<1>2. QED
  BY <1>1, InductiveInvariant, PTL
=============================================================================
