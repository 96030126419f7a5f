------------------------- MODULE OperationHooksProofs -------------------------
(***************************************************************************)
(* Proofs about OperationHooks, for any combinations of hooks and however  *)
(* often a hook is repeated, the data changes and a live query polls.      *)
(***************************************************************************)
EXTENDS OperationHooks, NaturalsInduction, TLAPS

\* A call under way is the call of a hook that the operation has and the
\* handler knows.
EnabledInv == pc \in Hooks => pc \in Enabled

\* A mutation is applied when the origin is called, by a database as often as the
\* call is repeated, and nothing else is.
AppliedInv ==
    /\ kind # "mutation" => applied = 0
    /\ pc \in Steps /\ Index(pc) < Index("origin") => applied = 0
    /\ pc = "origin" /\ ~database => applied = 0
    /\ applied > 1 => database

\* Until the hook that mutates the input has answered, that has happened once
\* less often.
InputInv ==
    /\ pc = "accept" => polls = 0 /\ input = 0
    /\ kind # "live" /\ pc \notin {"accept", "done"} => polls = 1
    /\ pc \in Steps =>
          IF Index(pc) <= Index("mutatingPreResolve")
          THEN IF kind = "live" /\ pc # "accept" /\ "mutatingPreResolve" \in Enabled
               THEN Saturated(input) = polls
               ELSE input = 0
          ELSE failed = {} \/ kind # "live" => input = MutationsAre
    /\ pc = "wait" => input = MutationsAre

\* The headers are those of the last hook when the origin is called.
HeadersInv ==
    /\ Before = {} /\ pc \in Steps \cup {"wait"} /\ ~(kind = "mutation" /\ pc = "write")
          => headers = "client"
    /\ (\/ pc \in {"onOriginRequest", "origin"}
        \/ kind = "subscription" /\ pc \in {"postResolve", "mutatingPostResolve", "write"})
          => headers = HeadersAre

\* What the handler has at hand.  An error ends a live query, after it is sent.
ResponseInv ==
    /\ response.from # "text"
    /\ kind = "mutation" /\ response.from = "origin" => applied > 0
    /\ kind = "live" /\ failed # {} => pc \in {"write", "done"}
    /\ kind = "live" /\ failed # {} /\ pc = "write" => response.from = "error"
    /\ /\ pc = "write" /\ response.from = "origin"
       /\ "mutatingPostResolve" \in Enabled /\ ~response.mutated
       => kind = "subscription" /\ "mutatingPostResolve" \in failed

\* Nothing is sent, and nothing has failed, before a handler that is no stream
\* is done; a stream has its status from the start.
StatusInv ==
    /\ pc = "wait" => kind = "live"
    /\ kind \in Synchronous /\ pc # "done" =>
          status = "none" /\ bodies = 0 /\ failed = {} /\ last = Body("none")
    /\ kind \in Streams /\ pc \notin {"accept", "done"} => status = "ok"
    /\ pc = "accept" => status = "none"

IInv ==
    /\ TypeOK
    /\ EnabledInv /\ AppliedInv
    /\ InputInv /\ HeadersInv /\ ResponseInv /\ StatusInv
    /\ ResolvedAsTheHooksLeftIt /\ StatusTellsOutcome /\ ResponsesPassTheirHook
-----------------------------------------------------------------------------
(* The order of the steps *)

Names == {"accept", "mockResolve", "preResolve", "mutatingPreResolve", "customResolve",
          "onOriginRequest", "origin", "onOriginResponse", "postResolve",
          "mutatingPostResolve", "write"}

\* The places of the steps.
LEMMA OrderIs ==
    /\ Len(Order) = 11
    /\ Order[1] = "accept" /\ Order[2] = "mockResolve" /\ Order[3] = "preResolve"
    /\ Order[4] = "mutatingPreResolve" /\ Order[5] = "customResolve"
    /\ Order[6] = "onOriginRequest" /\ Order[7] = "origin"
    /\ Order[8] = "onOriginResponse" /\ Order[9] = "postResolve"
    /\ Order[10] = "mutatingPostResolve" /\ Order[11] = "write"
BY DEF Order

\* The steps by name.
LEMMA StepsAre == Steps = Names
BY OrderIs DEF Steps, Names

\* The hooks by name.
LEMMA HooksAre == Hooks = Names \ {"accept", "origin", "write"}
BY StepsAre DEF Hooks

\* Every step has one place.
LEMMA IndexOf == \A i \in 1 .. 11 : Index(Order[i]) = i
<1>1. \A i, j \in 1 .. 11 : Order[i] = Order[j] => i = j
  BY OrderIs
<1>2. QED
  BY <1>1, OrderIs DEF Index

\* The place of every step.
LEMMA IndexIs ==
    /\ Index("accept") = 1 /\ Index("mockResolve") = 2 /\ Index("preResolve") = 3
    /\ Index("mutatingPreResolve") = 4 /\ Index("customResolve") = 5
    /\ Index("onOriginRequest") = 6 /\ Index("origin") = 7
    /\ Index("onOriginResponse") = 8 /\ Index("postResolve") = 9
    /\ Index("mutatingPostResolve") = 10 /\ Index("write") = 11
BY IndexOf, OrderIs

\* What a handler enables is what it knows.
LEMMA EnabledIs ==
    ASSUME kind \in Kinds
    PROVE  /\ Enabled \subseteq Hooks
           /\ kind = "subscription" => Enabled \subseteq
                {"preResolve", "mutatingPreResolve", "onOriginRequest", "postResolve",
                 "mutatingPostResolve"}
           /\ kind = "internal" => Enabled \subseteq {"onOriginRequest", "onOriginResponse"}
BY HooksAre DEF Enabled, Supported, Kinds, Synchronous, Streams, PreHooks, OriginHooks, Names

\* After a step comes the next one that runs, and none is passed over.
LEMMA AfterIs ==
    ASSUME kind \in Kinds, NEW s \in Steps, s # "write"
    PROVE  /\ After(s) \in Enabled \cup {"origin", "write"}
           /\ After(s) \in Steps
           /\ Index(s) < Index(After(s))
           /\ \A h \in Enabled \cup {"origin", "write"} :
                 Index(s) < Index(h) => Index(After(s)) <= Index(h)
<1> DEFINE first(i) == Runs(i) /\ \A j \in Index(s) + 1 .. i - 1 : ~Runs(j)
           rest == {i \in Index(s) + 1 .. 11 : Runs(i)}
           next == CHOOSE i \in Index(s) + 1 .. 11 : first(i)
<1>1. Index(s) \in 1 .. 10
  BY IndexIs, StepsAre DEF Names
<1>2. rest \subseteq Nat /\ 11 \in rest
  BY <1>1, OrderIs DEF Runs
<1>3. \E i \in Index(s) + 1 .. 11 : first(i)
  <2>1. PICK i \in rest : \A j \in rest : i <= j
    BY <1>2, SmallestNatural
  <2>2. QED
    BY <1>1, <2>1
<1>4. next \in Index(s) + 1 .. 11 /\ first(next)
  BY <1>3
<1>5. After(s) = Order[next]
  BY OrderIs DEF After
<1> HIDE DEF next
<1>6. Index(After(s)) = next
  BY <1>1, <1>4, <1>5, IndexOf
<1>7. \A h \in Steps : Index(h) \in 1 .. 11 /\ Order[Index(h)] = h
  BY IndexIs, OrderIs, StepsAre DEF Names
<1>8. \A h \in Enabled \cup {"origin", "write"} : h \in Steps
  BY EnabledIs, HooksAre, StepsAre DEF Names
<1>9. ASSUME NEW h \in Enabled \cup {"origin", "write"}, Index(s) < Index(h)
      PROVE  next <= Index(h)
  <2>1. Runs(Index(h)) /\ Index(h) \in 1 .. 11
    BY <1>7, <1>8 DEF Runs
  <2>2. QED
    BY <1>1, <1>4, <1>9, <2>1
<1>10. After(s) \in Enabled \cup {"origin", "write"}
  BY <1>4, <1>5 DEF Runs
<1>11. QED
  BY <1>1, <1>4, <1>6, <1>8, <1>9, <1>10

\* The last of the hooks before the origin.
LEMMA LastOfBefore ==
    HeadersAre = IF "customResolve" \in Enabled THEN "customResolve"
                 ELSE IF "mutatingPreResolve" \in Enabled THEN "mutatingPreResolve"
                 ELSE IF "preResolve" \in Enabled THEN "preResolve" ELSE "client"
<1>1. Before \subseteq {"preResolve", "mutatingPreResolve", "customResolve"}
  BY DEF Before, PreHooks
<1>2. \A h \in Before : (\A g \in Before : Index(g) <= Index(h)) => LastOf(Before) = h
  <2> SUFFICES ASSUME NEW h \in Before, \A g \in Before : Index(g) <= Index(h)
               PROVE  LastOf(Before) = h
    OBVIOUS
  <2> DEFINE l == CHOOSE x \in Before : \A g \in Before : Index(g) <= Index(x)
  <2>1. l \in Before /\ \A g \in Before : Index(g) <= Index(l)
    OBVIOUS
  <2>2. LastOf(Before) = l
    BY DEF LastOf
  <2> HIDE DEF l
  <2>3. QED
    BY <1>1, <2>1, <2>2, IndexIs
<1>3. QED
  BY <1>1, <1>2, IndexIs DEF HeadersAre, Before, PreHooks

\* The request and the configuration of its operation stay what they are.
LEMMA EnabledKept ==
    ASSUME UNCHANGED reqVars
    PROVE  Enabled' = Enabled /\ Before' = Before /\ HeadersAre' = HeadersAre
<1>1. Enabled' = Enabled
  BY DEF Enabled, reqVars
<1>2. Before' = Before
  BY <1>1 DEF Before
<1>3. QED
  BY <1>1, <1>2 DEF HeadersAre, LastOf
-----------------------------------------------------------------------------
(* Every step keeps the invariant *)

\* TypeOK in parts: the request, where the handler is, what it has counted, what
\* it has to say.
RequestOK == kind \in Kinds /\ hooks \in HookSets /\ once \in BOOLEAN /\ database \in BOOLEAN
             /\ ctxDone \in BOOLEAN
PcOK == pc \in Steps \cup {"wait", "done"}
AttemptOK == attempt \in 0 .. RetryMax + 1 /\ ((attempt # 0) <=> (pc \in Hooks))
CountersOK ==
    /\ polls \in 0 .. MaxPolls /\ input \in 0 .. MaxPolls /\ headers \in {"client"} \cup Hooks
    /\ data \in 0 .. MaxData /\ applied \in 0 .. 2
ResponseOK == response \in Responses
StatusOK ==
    /\ last \in Responses /\ bodies \in 0 .. 2
    /\ status \in {"none", "ok", "refused", "error", "timeout", "canceled"}
    /\ failed \subseteq Steps

\* The parts make the whole, before a step and after it.
LEMMA TypeParts ==
    TypeOK <=> RequestOK /\ PcOK /\ AttemptOK /\ CountersOK /\ ResponseOK /\ StatusOK
BY DEF TypeOK, RequestOK, PcOK, AttemptOK, CountersOK, ResponseOK, StatusOK

\* The responses are records, whatever they are made from.
LEMMA BodyTyped == \A from \in Froms : Body(from) \in Responses
BY BoundsAssumption DEF Responses, Body

\* A response that is changed is one.
LEMMA ResponseChanged ==
    ASSUME NEW r \in Responses
    PROVE  /\ [r EXCEPT !.mutated = TRUE] \in Responses
           /\ \A d \in 0 .. MaxData : [r EXCEPT !.data = d] \in Responses
BY DEF Responses

\* What the origin answers is a response.
LEMMA ResolvedTyped ==
    ASSUME TypeOK
    PROVE  /\ Resolved \in Responses
           /\ data < MaxData => [Resolved EXCEPT !.data = data + 1] \in Responses
<1>1. Resolved \in Responses
  BY DEF TypeOK, Responses, Resolved, Froms
<1>2. data < MaxData => data + 1 \in 0 .. MaxData
  BY BoundsAssumption DEF TypeOK
<1>3. QED
  BY <1>1, <1>2, ResponseChanged

\* What becomes of a request whose step has failed.
LEMMA FailIs ==
    ASSUME TypeOK, EnabledInv, pc \in Hooks \cup {"origin"}, Fail
    PROVE  /\ failed' = failed \cup {pc}
           /\ \/ /\ kind \in Synchronous \/ (kind = "live" /\ pc = "mockResolve")
                    \/ (kind = "subscription" /\ pc \in PreHooks)
                 /\ ReplyError /\ Goto("done") /\ response' = response
              \/ /\ kind = "live" /\ pc # "mockResolve"
                 /\ response' = Body("error") /\ Goto("write") /\ UNCHANGED <<status, sentVars>>
              \/ /\ kind = "subscription" /\ pc = "postResolve"
                 /\ ReplyError /\ Goto(After(pc)) /\ response' = response
              \/ /\ kind = "subscription" /\ pc = "mutatingPostResolve"
                 /\ Goto(After(pc)) /\ UNCHANGED <<response, status, sentVars>>
              \/ /\ kind = "subscription" /\ pc \in {"onOriginRequest", "origin"}
                 /\ Goto("done") /\ UNCHANGED <<response, status, sentVars>>
<1>1. failed' = failed \cup {pc} /\ (FailSynchronous \/ FailLive \/ FailSubscription)
  BY DEF Fail
<1>2. CASE FailSynchronous
  BY <1>1, <1>2 DEF FailSynchronous
<1>3. CASE FailLive
  BY <1>1, <1>3 DEF FailLive
<1>4. CASE FailSubscription
  <2>1. kind = "subscription" /\ response' = response
    BY <1>4 DEF FailSubscription
  <2>2. pc \in PreHooks \cup {"postResolve", "mutatingPostResolve", "onOriginRequest", "origin"}
    BY <2>1, EnabledIs DEF TypeOK, EnabledInv, PreHooks
  <2>3. CASE pc \in PreHooks
    BY <1>1, <1>4, <2>1, <2>3 DEF FailSubscription, PreHooks
  <2>4. CASE pc = "postResolve"
    BY <1>1, <1>4, <2>1, <2>4 DEF FailSubscription, PreHooks
  <2>5. CASE pc = "mutatingPostResolve"
    BY <1>1, <1>4, <2>1, <2>5 DEF FailSubscription, PreHooks
  <2>6. CASE pc \in {"onOriginRequest", "origin"}
    BY <1>1, <1>4, <2>1, <2>6 DEF FailSubscription, PreHooks
  <2>7. QED
    BY <2>2, <2>3, <2>4, <2>5, <2>6
<1>5. QED
  BY <1>1, <1>2, <1>3, <1>4

\* The same after a step.
LEMMA TypePartsPrimed ==
    TypeOK' <=> RequestOK' /\ PcOK' /\ AttemptOK' /\ CountersOK' /\ ResponseOK' /\ StatusOK'
BY DEF TypeOK, RequestOK, PcOK, AttemptOK, CountersOK, ResponseOK, StatusOK

\* No step changes the request or the configuration of its operation.
LEMMA RequestStep == IInv /\ [Next]_vars => RequestOK'
<1> SUFFICES ASSUME IInv, [Next]_vars PROVE RequestOK'
  OBVIOUS
<1> USE TypeParts DEF IInv, RequestOK, vars, reqVars, sentVars
<1>1. CASE Accept
  BY <1>1 DEF Accept
<1>2. CASE MockAnswers
  BY <1>2 DEF MockAnswers
<1>3. CASE PreAnswers
  BY <1>3 DEF PreAnswers
<1>4. CASE MutatingPreAnswers
  BY <1>4 DEF MutatingPreAnswers
<1>5. CASE CustomAnswers
  BY <1>5 DEF CustomAnswers
<1>6. CASE OriginHookAnswers
  BY <1>6 DEF OriginHookAnswers
<1>7. CASE PostAnswers
  BY <1>7 DEF PostAnswers
<1>8. CASE MutatingPostAnswers
  BY <1>8 DEF MutatingPostAnswers
<1>9. CASE Retry
  BY <1>9 DEF Retry
<1>10. CASE HookFails
  BY <1>10, FailIs DEF HookFails
<1>11. CASE OriginAnswers
  BY <1>11 DEF OriginAnswers
<1>12. CASE OriginFails
  BY <1>12, FailIs DEF OriginFails
<1>13. CASE Canceled
  BY <1>13 DEF Canceled
<1>14. CASE WriteSynchronous
  BY <1>14 DEF WriteSynchronous
<1>15. CASE WriteLive
  BY <1>15 DEF WriteLive
<1>16. CASE WriteSubscription
  BY <1>16 DEF WriteSubscription
<1>17. CASE Poll
  BY <1>17 DEF Poll
<1>18. CASE LiveStops
  BY <1>18 DEF LiveStops
<1>19. CASE Event
  BY <1>19 DEF Event
<1>20. CASE UpstreamEnds
  BY <1>20 DEF UpstreamEnds
<1>21. CASE DataChanges
  BY <1>21 DEF DataChanges
<1>22. CASE Disconnect
  BY <1>22 DEF Disconnect
<1>23. CASE OriginRepeats
  BY <1>23 DEF OriginRepeats
<1>24. CASE UNCHANGED vars
  BY <1>24
<1> HIDE DEF IInv, TypeOK
<1>25. QED
  BY <1>1, <1>2, <1>3, <1>4, <1>5, <1>6, <1>7, <1>8, <1>9, <1>10, <1>11, <1>12,
     <1>13, <1>14, <1>15, <1>16, <1>17, <1>18, <1>19, <1>20, <1>21, <1>22, <1>23, <1>24
     DEF Next, Handler, Environment, HookAnswers

\* A handler stays in the steps it has.
LEMMA PcStep == IInv /\ [Next]_vars => PcOK'
<1> SUFFICES ASSUME IInv, [Next]_vars PROVE PcOK'
  OBVIOUS
<1> USE TypeParts, StepsAre, HooksAre, AfterIs
        DEF IInv, EnabledInv, RequestOK, PcOK, vars, reqVars, sentVars, Goto, Names, OriginHooks
<1>1. CASE Accept
  BY <1>1 DEF Accept
<1>2. CASE MockAnswers
  BY <1>2 DEF MockAnswers
<1>3. CASE PreAnswers
  BY <1>3 DEF PreAnswers
<1>4. CASE MutatingPreAnswers
  BY <1>4 DEF MutatingPreAnswers
<1>5. CASE CustomAnswers
  BY <1>5 DEF CustomAnswers
<1>6. CASE OriginHookAnswers
  BY <1>6 DEF OriginHookAnswers
<1>7. CASE PostAnswers
  BY <1>7 DEF PostAnswers
<1>8. CASE MutatingPostAnswers
  BY <1>8 DEF MutatingPostAnswers
<1>9. CASE Retry
  BY <1>9 DEF Retry
<1>10. CASE HookFails
  BY <1>10, FailIs DEF HookFails
<1>11. CASE OriginAnswers
  BY <1>11 DEF OriginAnswers
<1>12. CASE OriginFails
  BY <1>12, FailIs DEF OriginFails
<1>13. CASE Canceled
  BY <1>13 DEF Canceled
<1>14. CASE WriteSynchronous
  BY <1>14 DEF WriteSynchronous
<1>15. CASE WriteLive
  BY <1>15 DEF WriteLive
<1>16. CASE WriteSubscription
  BY <1>16 DEF WriteSubscription
<1>17. CASE Poll
  BY <1>17 DEF Poll
<1>18. CASE LiveStops
  BY <1>18 DEF LiveStops
<1>19. CASE Event
  BY <1>19 DEF Event
<1>20. CASE UpstreamEnds
  BY <1>20 DEF UpstreamEnds
<1>21. CASE DataChanges
  BY <1>21 DEF DataChanges
<1>22. CASE Disconnect
  BY <1>22 DEF Disconnect
<1>23. CASE OriginRepeats
  BY <1>23 DEF OriginRepeats
<1>24. CASE UNCHANGED vars
  BY <1>24
<1> HIDE DEF IInv, TypeOK
<1>25. QED
  BY <1>1, <1>2, <1>3, <1>4, <1>5, <1>6, <1>7, <1>8, <1>9, <1>10, <1>11, <1>12,
     <1>13, <1>14, <1>15, <1>16, <1>17, <1>18, <1>19, <1>20, <1>21, <1>22, <1>23, <1>24
     DEF Next, Handler, Environment, HookAnswers

\* A hook's call is counted while it is under way, and no longer.
LEMMA AttemptStep == IInv /\ [Next]_vars => AttemptOK'
<1> SUFFICES ASSUME IInv, [Next]_vars PROVE AttemptOK'
  OBVIOUS
<1> USE TypeParts, BoundsAssumption, HooksAre
        DEF IInv, EnabledInv, AttemptOK, vars, reqVars, sentVars, Goto, Names
<1>1. CASE Accept
  BY <1>1 DEF Accept
<1>2. CASE MockAnswers
  BY <1>2 DEF MockAnswers
<1>3. CASE PreAnswers
  BY <1>3 DEF PreAnswers
<1>4. CASE MutatingPreAnswers
  BY <1>4 DEF MutatingPreAnswers
<1>5. CASE CustomAnswers
  BY <1>5 DEF CustomAnswers
<1>6. CASE OriginHookAnswers
  BY <1>6 DEF OriginHookAnswers
<1>7. CASE PostAnswers
  BY <1>7 DEF PostAnswers
<1>8. CASE MutatingPostAnswers
  BY <1>8 DEF MutatingPostAnswers
<1>9. CASE Retry
  BY <1>9 DEF Retry
<1>10. CASE HookFails
  BY <1>10, FailIs DEF HookFails
<1>11. CASE OriginAnswers
  BY <1>11 DEF OriginAnswers
<1>12. CASE OriginFails
  BY <1>12, FailIs DEF OriginFails
<1>13. CASE Canceled
  BY <1>13 DEF Canceled
<1>14. CASE WriteSynchronous
  BY <1>14 DEF WriteSynchronous
<1>15. CASE WriteLive
  BY <1>15 DEF WriteLive
<1>16. CASE WriteSubscription
  BY <1>16 DEF WriteSubscription
<1>17. CASE Poll
  BY <1>17 DEF Poll
<1>18. CASE LiveStops
  BY <1>18 DEF LiveStops
<1>19. CASE Event
  BY <1>19 DEF Event
<1>20. CASE UpstreamEnds
  BY <1>20 DEF UpstreamEnds
<1>21. CASE DataChanges
  BY <1>21 DEF DataChanges
<1>22. CASE Disconnect
  BY <1>22 DEF Disconnect
<1>23. CASE OriginRepeats
  BY <1>23 DEF OriginRepeats
<1>24. CASE UNCHANGED vars
  BY <1>24
<1> HIDE DEF IInv, TypeOK
<1>25. QED
  BY <1>1, <1>2, <1>3, <1>4, <1>5, <1>6, <1>7, <1>8, <1>9, <1>10, <1>11, <1>12,
     <1>13, <1>14, <1>15, <1>16, <1>17, <1>18, <1>19, <1>20, <1>21, <1>22, <1>23, <1>24
     DEF Next, Handler, Environment, HookAnswers

\* What is counted stays within its bounds.
LEMMA CountersStep == IInv /\ [Next]_vars => CountersOK'
<1> SUFFICES ASSUME IInv, [Next]_vars PROVE CountersOK'
  OBVIOUS
<1> USE TypeParts, BoundsAssumption, HooksAre, IndexIs, StepsAre
        DEF IInv, CountersOK, AppliedInv, vars, reqVars, sentVars, Saturated, Names
<1>1. CASE Accept
  BY <1>1 DEF Accept
<1>2. CASE MockAnswers
  BY <1>2 DEF MockAnswers
<1>3. CASE PreAnswers
  BY <1>3 DEF PreAnswers
<1>4. CASE MutatingPreAnswers
  BY <1>4 DEF MutatingPreAnswers
<1>5. CASE CustomAnswers
  BY <1>5 DEF CustomAnswers
<1>6. CASE OriginHookAnswers
  BY <1>6 DEF OriginHookAnswers
<1>7. CASE PostAnswers
  BY <1>7 DEF PostAnswers
<1>8. CASE MutatingPostAnswers
  BY <1>8 DEF MutatingPostAnswers
<1>9. CASE Retry
  BY <1>9 DEF Retry
<1>10. CASE HookFails
  BY <1>10, FailIs DEF HookFails
<1>11. CASE OriginAnswers
  BY <1>11 DEF OriginAnswers, More
<1>12. CASE OriginFails
  BY <1>12, FailIs DEF OriginFails, MayApply, More
<1>13. CASE Canceled
  BY <1>13 DEF Canceled, MayApply, More
<1>14. CASE WriteSynchronous
  BY <1>14 DEF WriteSynchronous
<1>15. CASE WriteLive
  BY <1>15 DEF WriteLive
<1>16. CASE WriteSubscription
  BY <1>16 DEF WriteSubscription
<1>17. CASE Poll
  BY <1>17 DEF Poll
<1>18. CASE LiveStops
  BY <1>18 DEF LiveStops
<1>19. CASE Event
  BY <1>19 DEF Event
<1>20. CASE UpstreamEnds
  BY <1>20 DEF UpstreamEnds
<1>21. CASE DataChanges
  BY <1>21 DEF DataChanges
<1>22. CASE Disconnect
  BY <1>22 DEF Disconnect
<1>23. CASE OriginRepeats
  BY <1>23 DEF OriginRepeats, MayApply, More
<1>24. CASE UNCHANGED vars
  BY <1>24
<1> HIDE DEF IInv, TypeOK
<1>25. QED
  BY <1>1, <1>2, <1>3, <1>4, <1>5, <1>6, <1>7, <1>8, <1>9, <1>10, <1>11, <1>12,
     <1>13, <1>14, <1>15, <1>16, <1>17, <1>18, <1>19, <1>20, <1>21, <1>22, <1>23, <1>24
     DEF Next, Handler, Environment, HookAnswers

\* What is at hand is a response.
LEMMA ResponseStep == IInv /\ [Next]_vars => ResponseOK'
<1> SUFFICES ASSUME IInv, [Next]_vars PROVE ResponseOK'
  OBVIOUS
<1> USE TypeParts, BodyTyped, ResponseChanged, ResolvedTyped
        DEF IInv, ResponseOK, Froms, vars, reqVars, sentVars
<1>1. CASE Accept
  BY <1>1 DEF Accept
<1>2. CASE MockAnswers
  BY <1>2 DEF MockAnswers
<1>3. CASE PreAnswers
  BY <1>3 DEF PreAnswers
<1>4. CASE MutatingPreAnswers
  BY <1>4 DEF MutatingPreAnswers
<1>5. CASE CustomAnswers
  BY <1>5 DEF CustomAnswers
<1>6. CASE OriginHookAnswers
  BY <1>6 DEF OriginHookAnswers
<1>7. CASE PostAnswers
  BY <1>7 DEF PostAnswers
<1>8. CASE MutatingPostAnswers
  BY <1>8 DEF MutatingPostAnswers
<1>9. CASE Retry
  BY <1>9 DEF Retry
<1>10. CASE HookFails
  BY <1>10, FailIs DEF HookFails
<1>11. CASE OriginAnswers
  BY <1>11 DEF OriginAnswers
<1>12. CASE OriginFails
  BY <1>12, FailIs DEF OriginFails
<1>13. CASE Canceled
  BY <1>13 DEF Canceled
<1>14. CASE WriteSynchronous
  BY <1>14 DEF WriteSynchronous
<1>15. CASE WriteLive
  BY <1>15 DEF WriteLive
<1>16. CASE WriteSubscription
  BY <1>16 DEF WriteSubscription
<1>17. CASE Poll
  BY <1>17 DEF Poll
<1>18. CASE LiveStops
  BY <1>18 DEF LiveStops
<1>19. CASE Event
  BY <1>19 DEF Event
<1>20. CASE UpstreamEnds
  BY <1>20 DEF UpstreamEnds
<1>21. CASE DataChanges
  BY <1>21 DEF DataChanges
<1>22. CASE Disconnect
  BY <1>22 DEF Disconnect
<1>23. CASE OriginRepeats
  BY <1>23 DEF OriginRepeats
<1>24. CASE UNCHANGED vars
  BY <1>24
<1> HIDE DEF IInv, TypeOK
<1>25. QED
  BY <1>1, <1>2, <1>3, <1>4, <1>5, <1>6, <1>7, <1>8, <1>9, <1>10, <1>11, <1>12,
     <1>13, <1>14, <1>15, <1>16, <1>17, <1>18, <1>19, <1>20, <1>21, <1>22, <1>23, <1>24
     DEF Next, Handler, Environment, HookAnswers

\* What is sent is a response, with a status.
LEMMA StatusStep == IInv /\ [Next]_vars => StatusOK'
<1> SUFFICES ASSUME IInv, [Next]_vars PROVE StatusOK'
  OBVIOUS
<1> USE TypeParts, BodyTyped
        DEF IInv, PcOK, ResponseOK, StatusOK, Froms, vars, reqVars, sentVars, Goto, Settle,
            WriteBody, More, ReplyError
<1>1. CASE Accept
  BY <1>1 DEF Accept
<1>2. CASE MockAnswers
  BY <1>2 DEF MockAnswers
<1>3. CASE PreAnswers
  BY <1>3 DEF PreAnswers
<1>4. CASE MutatingPreAnswers
  BY <1>4 DEF MutatingPreAnswers
<1>5. CASE CustomAnswers
  BY <1>5 DEF CustomAnswers
<1>6. CASE OriginHookAnswers
  BY <1>6 DEF OriginHookAnswers
<1>7. CASE PostAnswers
  BY <1>7 DEF PostAnswers
<1>8. CASE MutatingPostAnswers
  BY <1>8 DEF MutatingPostAnswers
<1>9. CASE Retry
  BY <1>9 DEF Retry
<1>10. CASE HookFails
  <2>1. \/ ReplyError
        \/ UNCHANGED <<status, sentVars>>
    BY <1>10, FailIs DEF HookFails
  <2>2. failed' \subseteq Steps
    BY <1>10, FailIs, HooksAre, StepsAre DEF HookFails, Names
  <2>3. QED
    BY <2>1, <2>2
<1>11. CASE OriginAnswers
  BY <1>11 DEF OriginAnswers
<1>12. CASE OriginFails
  BY <1>12, FailIs DEF OriginFails
<1>13. CASE Canceled
  BY <1>13 DEF Canceled
<1>14. CASE WriteSynchronous
  BY <1>14 DEF WriteSynchronous
<1>15. CASE WriteLive
  BY <1>15 DEF WriteLive
<1>16. CASE WriteSubscription
  BY <1>16 DEF WriteSubscription
<1>17. CASE Poll
  BY <1>17 DEF Poll
<1>18. CASE LiveStops
  BY <1>18 DEF LiveStops
<1>19. CASE Event
  BY <1>19 DEF Event
<1>20. CASE UpstreamEnds
  BY <1>20 DEF UpstreamEnds
<1>21. CASE DataChanges
  BY <1>21 DEF DataChanges
<1>22. CASE Disconnect
  BY <1>22 DEF Disconnect
<1>23. CASE OriginRepeats
  BY <1>23 DEF OriginRepeats
<1>24. CASE UNCHANGED vars
  BY <1>24
<1> HIDE DEF IInv, TypeOK
<1>25. QED
  BY <1>1, <1>2, <1>3, <1>4, <1>5, <1>6, <1>7, <1>8, <1>9, <1>10, <1>11, <1>12,
     <1>13, <1>14, <1>15, <1>16, <1>17, <1>18, <1>19, <1>20, <1>21, <1>22, <1>23, <1>24
     DEF Next, Handler, Environment, HookAnswers

\* Only hooks that are configured get called.
LEMMA EnabledStep == IInv /\ [Next]_vars => EnabledInv'
<1> SUFFICES ASSUME IInv, [Next]_vars PROVE EnabledInv'
  OBVIOUS
<1> USE TypeParts, EnabledKept, HooksAre, StepsAre, AfterIs
        DEF IInv, EnabledInv, RequestOK, PcOK, vars, reqVars, sentVars, Goto, Names, OriginHooks
<1>1. CASE Accept
  BY <1>1 DEF Accept
<1>2. CASE MockAnswers
  BY <1>2 DEF MockAnswers
<1>3. CASE PreAnswers
  BY <1>3 DEF PreAnswers
<1>4. CASE MutatingPreAnswers
  BY <1>4 DEF MutatingPreAnswers
<1>5. CASE CustomAnswers
  BY <1>5 DEF CustomAnswers
<1>6. CASE OriginHookAnswers
  BY <1>6 DEF OriginHookAnswers
<1>7. CASE PostAnswers
  BY <1>7 DEF PostAnswers
<1>8. CASE MutatingPostAnswers
  BY <1>8 DEF MutatingPostAnswers
<1>9. CASE Retry
  BY <1>9 DEF Retry
<1>10. CASE HookFails
  BY <1>10, FailIs DEF HookFails
<1>11. CASE OriginAnswers
  BY <1>11 DEF OriginAnswers
<1>12. CASE OriginFails
  BY <1>12, FailIs DEF OriginFails
<1>13. CASE Canceled
  BY <1>13 DEF Canceled
<1>14. CASE WriteSynchronous
  BY <1>14 DEF WriteSynchronous
<1>15. CASE WriteLive
  BY <1>15 DEF WriteLive
<1>16. CASE WriteSubscription
  BY <1>16 DEF WriteSubscription
<1>17. CASE Poll
  BY <1>17 DEF Poll
<1>18. CASE LiveStops
  BY <1>18 DEF LiveStops
<1>19. CASE Event
  BY <1>19 DEF Event
<1>20. CASE UpstreamEnds
  BY <1>20 DEF UpstreamEnds
<1>21. CASE DataChanges
  BY <1>21 DEF DataChanges
<1>22. CASE Disconnect
  BY <1>22 DEF Disconnect
<1>23. CASE OriginRepeats
  BY <1>23 DEF OriginRepeats
<1>24. CASE UNCHANGED vars
  BY <1>24
<1> HIDE DEF IInv, TypeOK
<1>25. QED
  BY <1>1, <1>2, <1>3, <1>4, <1>5, <1>6, <1>7, <1>8, <1>9, <1>10, <1>11, <1>12,
     <1>13, <1>14, <1>15, <1>16, <1>17, <1>18, <1>19, <1>20, <1>21, <1>22, <1>23, <1>24
     DEF Next, Handler, Environment, HookAnswers

\* The origin is passed at most once by a mutation.
LEMMA AppliedStep == IInv /\ [Next]_vars => AppliedInv'
<1> SUFFICES ASSUME IInv, [Next]_vars PROVE AppliedInv'
  OBVIOUS
<1> USE TypeParts, StepsAre, HooksAre, IndexIs, AfterIs, EnabledIs, EnabledKept
        DEF IInv, AppliedInv, EnabledInv, StatusInv, RequestOK, PcOK, CountersOK, vars, reqVars,
            sentVars, Goto, Names, PreHooks, OriginHooks, Kinds, Synchronous, Streams
<1>1. CASE Accept
  BY <1>1 DEF Accept
<1>2. CASE MockAnswers
  BY <1>2 DEF MockAnswers
<1>3. CASE PreAnswers
  BY <1>3 DEF PreAnswers
<1>4. CASE MutatingPreAnswers
  BY <1>4 DEF MutatingPreAnswers
<1>5. CASE CustomAnswers
  BY <1>5 DEF CustomAnswers
<1>6. CASE OriginHookAnswers
  BY <1>6 DEF OriginHookAnswers
<1>7. CASE PostAnswers
  BY <1>7 DEF PostAnswers
<1>8. CASE MutatingPostAnswers
  BY <1>8 DEF MutatingPostAnswers
<1>9. CASE Retry
  BY <1>9 DEF Retry
<1>10. CASE HookFails
  BY <1>10, FailIs DEF HookFails
<1>11. CASE OriginAnswers
  BY <1>11 DEF OriginAnswers, More
<1>12. CASE OriginFails
  BY <1>12, FailIs DEF OriginFails, MayApply, More
<1>13. CASE Canceled
  BY <1>13 DEF Canceled, MayApply, More
<1>14. CASE WriteSynchronous
  BY <1>14 DEF WriteSynchronous
<1>15. CASE WriteLive
  BY <1>15 DEF WriteLive
<1>16. CASE WriteSubscription
  BY <1>16 DEF WriteSubscription
<1>17. CASE Poll
  BY <1>17 DEF Poll
<1>18. CASE LiveStops
  BY <1>18 DEF LiveStops
<1>19. CASE Event
  BY <1>19 DEF Event
<1>20. CASE UpstreamEnds
  BY <1>20 DEF UpstreamEnds
<1>21. CASE DataChanges
  BY <1>21 DEF DataChanges
<1>22. CASE Disconnect
  BY <1>22 DEF Disconnect
<1>23. CASE OriginRepeats
  BY <1>23 DEF OriginRepeats, MayApply, More
<1>24. CASE UNCHANGED vars
  BY <1>24
<1> HIDE DEF IInv, TypeOK
<1>25. QED
  BY <1>1, <1>2, <1>3, <1>4, <1>5, <1>6, <1>7, <1>8, <1>9, <1>10, <1>11, <1>12,
     <1>13, <1>14, <1>15, <1>16, <1>17, <1>18, <1>19, <1>20, <1>21, <1>22, <1>23, <1>24
     DEF Next, Handler, Environment, HookAnswers

\* A hook that mutates the input does so once for each time it is passed.
LEMMA InputStep == IInv /\ [Next]_vars => InputInv'
<1> SUFFICES ASSUME IInv, [Next]_vars PROVE InputInv'
  OBVIOUS
<1> USE TypeParts, BoundsAssumption, StepsAre, HooksAre, IndexIs, AfterIs, EnabledIs, EnabledKept
        DEF IInv, InputInv, MutationsAre, EnabledInv, StatusInv, ResponseInv, RequestOK, PcOK,
            CountersOK, vars, reqVars, sentVars, Goto, Names, PreHooks, OriginHooks, Kinds,
            Synchronous, Streams, Saturated
<1>1. CASE Accept
  BY <1>1 DEF Accept
<1>2. CASE MockAnswers
  BY <1>2 DEF MockAnswers
<1>3. CASE PreAnswers
  BY <1>3 DEF PreAnswers
<1>4. CASE MutatingPreAnswers
  <2>1. pc = "mutatingPreResolve" /\ pc' = After(pc) /\ UNCHANGED <<reqVars, polls>>
    BY <1>4 DEF MutatingPreAnswers
  <2>2. pc' \in Steps /\ Index(pc') > 4 /\ pc' \notin {"accept", "done", "wait"}
    BY <2>1
  <2>3. "mutatingPreResolve" \in Enabled
    BY <2>1
  <2>4. input' = MutationsAre'
    <3>1. CASE kind = "query"
      BY <1>4, <2>1, <3>1 DEF MutatingPreAnswers
    <3>2. CASE kind = "live"
      BY <1>4, <2>1, <2>3, <3>2 DEF MutatingPreAnswers
    <3>3. CASE kind \notin {"query", "live"}
      BY <1>4, <2>1, <2>3, <3>3 DEF MutatingPreAnswers
    <3>4. QED
      BY <3>1, <3>2, <3>3
  <2>5. kind # "live" => polls' = 1
    BY <2>1
  <2> HIDE DEF InputInv, MutationsAre
  <2>6. QED
    BY <2>1, <2>2, <2>4, <2>5 DEF InputInv
<1>5. CASE CustomAnswers
  BY <1>5 DEF CustomAnswers
<1>6. CASE OriginHookAnswers
  BY <1>6 DEF OriginHookAnswers
<1>7. CASE PostAnswers
  BY <1>7 DEF PostAnswers
<1>8. CASE MutatingPostAnswers
  BY <1>8 DEF MutatingPostAnswers
<1>9. CASE Retry
  BY <1>9 DEF Retry
<1>10. CASE HookFails
  BY <1>10, FailIs DEF HookFails
<1>11. CASE OriginAnswers
  BY <1>11 DEF OriginAnswers
<1>12. CASE OriginFails
  BY <1>12, FailIs DEF OriginFails
<1>13. CASE Canceled
  BY <1>13 DEF Canceled
<1>14. CASE WriteSynchronous
  BY <1>14 DEF WriteSynchronous
<1>15. CASE WriteLive
  BY <1>15 DEF WriteLive
<1>16. CASE WriteSubscription
  BY <1>16 DEF WriteSubscription
<1>17. CASE Poll
  BY <1>17 DEF Poll
<1>18. CASE LiveStops
  BY <1>18 DEF LiveStops
<1>19. CASE Event
  BY <1>19 DEF Event
<1>20. CASE UpstreamEnds
  BY <1>20 DEF UpstreamEnds
<1>21. CASE DataChanges
  BY <1>21 DEF DataChanges
<1>22. CASE Disconnect
  BY <1>22 DEF Disconnect
<1>23. CASE OriginRepeats
  BY <1>23 DEF OriginRepeats
<1>24. CASE UNCHANGED vars
  BY <1>24
<1> HIDE DEF IInv, TypeOK
<1>25. QED
  BY <1>1, <1>2, <1>3, <1>4, <1>5, <1>6, <1>7, <1>8, <1>9, <1>10, <1>11, <1>12,
     <1>13, <1>14, <1>15, <1>16, <1>17, <1>18, <1>19, <1>20, <1>21, <1>22, <1>23, <1>24
     DEF Next, Handler, Environment, HookAnswers

\* The last hook before the origin leaves the headers that the origin gets.
LEMMA HeadersStep == IInv /\ [Next]_vars => HeadersInv'
<1> SUFFICES ASSUME IInv, [Next]_vars PROVE HeadersInv'
  OBVIOUS
<1> USE TypeParts, LastOfBefore, StepsAre, HooksAre, IndexIs, AfterIs, EnabledIs, EnabledKept
        DEF IInv, HeadersInv, Before, EnabledInv, StatusInv, RequestOK, PcOK, CountersOK, vars,
            reqVars, sentVars, Goto, Names, PreHooks, OriginHooks, Kinds, Synchronous, Streams
<1>1. CASE Accept
  BY <1>1 DEF Accept
<1>2. CASE MockAnswers
  BY <1>2 DEF MockAnswers
<1>3. CASE PreAnswers
  BY <1>3 DEF PreAnswers
<1>4. CASE MutatingPreAnswers
  BY <1>4 DEF MutatingPreAnswers
<1>5. CASE CustomAnswers
  BY <1>5 DEF CustomAnswers
<1>6. CASE OriginHookAnswers
  BY <1>6 DEF OriginHookAnswers
<1>7. CASE PostAnswers
  BY <1>7 DEF PostAnswers
<1>8. CASE MutatingPostAnswers
  BY <1>8 DEF MutatingPostAnswers
<1>9. CASE Retry
  BY <1>9 DEF Retry
<1>10. CASE HookFails
  BY <1>10, FailIs DEF HookFails
<1>11. CASE OriginAnswers
  BY <1>11 DEF OriginAnswers
<1>12. CASE OriginFails
  BY <1>12, FailIs DEF OriginFails
<1>13. CASE Canceled
  BY <1>13 DEF Canceled
<1>14. CASE WriteSynchronous
  BY <1>14 DEF WriteSynchronous
<1>15. CASE WriteLive
  BY <1>15 DEF WriteLive
<1>16. CASE WriteSubscription
  BY <1>16 DEF WriteSubscription
<1>17. CASE Poll
  BY <1>17 DEF Poll
<1>18. CASE LiveStops
  BY <1>18 DEF LiveStops
<1>19. CASE Event
  <2>1. pc = "origin" /\ kind = "subscription" /\ headers' = headers /\ UNCHANGED reqVars
    BY <1>19 DEF Event
  <2>2. pc' = After("origin")
    BY <1>19 DEF Event
  <2>3. headers = HeadersAre /\ (Before = {} => headers = "client")
    BY <2>1
  <2> HIDE DEF HeadersInv
  <2>4. headers' = HeadersAre' /\ (Before' = {} => headers' = "client")
    BY <2>1, <2>3
  <2>5. pc' \notin {"onOriginRequest", "origin"} /\ kind' = "subscription"
    BY <2>1, <2>2
  <2>6. QED
    BY <2>4, <2>5 DEF HeadersInv
<1>20. CASE UpstreamEnds
  BY <1>20 DEF UpstreamEnds
<1>21. CASE DataChanges
  BY <1>21 DEF DataChanges
<1>22. CASE Disconnect
  BY <1>22 DEF Disconnect
<1>23. CASE OriginRepeats
  BY <1>23 DEF OriginRepeats
<1>24. CASE UNCHANGED vars
  BY <1>24
<1> HIDE DEF IInv, TypeOK
<1>25. QED
  BY <1>1, <1>2, <1>3, <1>4, <1>5, <1>6, <1>7, <1>8, <1>9, <1>10, <1>11, <1>12,
     <1>13, <1>14, <1>15, <1>16, <1>17, <1>18, <1>19, <1>20, <1>21, <1>22, <1>23, <1>24
     DEF Next, Handler, Environment, HookAnswers

\* A response reaches the writer by way of its last hook.
LEMMA ResponseInvStep == IInv /\ [Next]_vars => ResponseInv'
<1> SUFFICES ASSUME IInv, [Next]_vars PROVE ResponseInv'
  OBVIOUS
<1> USE TypeParts, StepsAre, HooksAre, IndexIs, AfterIs, EnabledIs, EnabledKept
        DEF IInv, ResponseInv, AppliedInv, EnabledInv, StatusInv, RequestOK, PcOK, CountersOK,
            vars, reqVars, sentVars, Goto, Names, PreHooks, OriginHooks, Kinds, Synchronous,
            Streams, Body, Resolved, ResponseOK, Responses
<1>1. CASE Accept
  BY <1>1 DEF Accept
<1>2. CASE MockAnswers
  BY <1>2 DEF MockAnswers
<1>3. CASE PreAnswers
  BY <1>3 DEF PreAnswers
<1>4. CASE MutatingPreAnswers
  BY <1>4 DEF MutatingPreAnswers
<1>5. CASE CustomAnswers
  BY <1>5 DEF CustomAnswers
<1>6. CASE OriginHookAnswers
  BY <1>6 DEF OriginHookAnswers
<1>7. CASE PostAnswers
  BY <1>7 DEF PostAnswers
<1>8. CASE MutatingPostAnswers
  BY <1>8 DEF MutatingPostAnswers
<1>9. CASE Retry
  BY <1>9 DEF Retry
<1>10. CASE HookFails
  BY <1>10, FailIs DEF HookFails
<1>11. CASE OriginAnswers
  BY <1>11 DEF OriginAnswers, More
<1>12. CASE OriginFails
  BY <1>12, FailIs DEF OriginFails, MayApply, More
<1>13. CASE Canceled
  BY <1>13 DEF Canceled, MayApply, More
<1>14. CASE WriteSynchronous
  BY <1>14 DEF WriteSynchronous
<1>15. CASE WriteLive
  BY <1>15 DEF WriteLive
<1>16. CASE WriteSubscription
  BY <1>16 DEF WriteSubscription
<1>17. CASE Poll
  BY <1>17 DEF Poll
<1>18. CASE LiveStops
  BY <1>18 DEF LiveStops
<1>19. CASE Event
  <2>1. /\ kind = "subscription" /\ pc' # "done"
        /\ response'.mutated = FALSE /\ response'.from = "origin"
    BY <1>19 DEF Event
  <2>2. pc' = "write" => "mutatingPostResolve" \notin Enabled
    BY <1>19 DEF Event
  <2>3. QED
    BY <1>19, <2>1, <2>2 DEF Event
<1>20. CASE UpstreamEnds
  BY <1>20 DEF UpstreamEnds
<1>21. CASE DataChanges
  BY <1>21 DEF DataChanges
<1>22. CASE Disconnect
  BY <1>22 DEF Disconnect
<1>23. CASE OriginRepeats
  BY <1>23 DEF OriginRepeats, MayApply, More
<1>24. CASE UNCHANGED vars
  BY <1>24
<1> HIDE DEF IInv, TypeOK
<1>25. QED
  BY <1>1, <1>2, <1>3, <1>4, <1>5, <1>6, <1>7, <1>8, <1>9, <1>10, <1>11, <1>12,
     <1>13, <1>14, <1>15, <1>16, <1>17, <1>18, <1>19, <1>20, <1>21, <1>22, <1>23, <1>24
     DEF Next, Handler, Environment, HookAnswers

\* Whoever ends a request that is no stream is the first to set its status.
LEMMA StatusInvStep == IInv /\ [Next]_vars => StatusInv'
<1> SUFFICES ASSUME IInv, [Next]_vars PROVE StatusInv'
  OBVIOUS
<1> USE TypeParts, StepsAre, HooksAre, IndexIs, AfterIs, EnabledIs, EnabledKept
        DEF IInv, StatusInv, EnabledInv, RequestOK, PcOK, CountersOK, vars, reqVars, sentVars,
            Goto, Names, PreHooks, OriginHooks, Kinds, Synchronous, Streams, Settle,
            WriteBody, More, ReplyError
<1>1. CASE Accept
  BY <1>1 DEF Accept
<1>2. CASE MockAnswers
  BY <1>2 DEF MockAnswers
<1>3. CASE PreAnswers
  BY <1>3 DEF PreAnswers
<1>4. CASE MutatingPreAnswers
  BY <1>4 DEF MutatingPreAnswers
<1>5. CASE CustomAnswers
  BY <1>5 DEF CustomAnswers
<1>6. CASE OriginHookAnswers
  BY <1>6 DEF OriginHookAnswers
<1>7. CASE PostAnswers
  BY <1>7 DEF PostAnswers
<1>8. CASE MutatingPostAnswers
  BY <1>8 DEF MutatingPostAnswers
<1>9. CASE Retry
  BY <1>9 DEF Retry
<1>10. CASE HookFails
  BY <1>10, FailIs DEF HookFails
<1>11. CASE OriginAnswers
  BY <1>11 DEF OriginAnswers
<1>12. CASE OriginFails
  BY <1>12, FailIs DEF OriginFails
<1>13. CASE Canceled
  BY <1>13 DEF Canceled
<1>14. CASE WriteSynchronous
  BY <1>14 DEF WriteSynchronous
<1>15. CASE WriteLive
  BY <1>15 DEF WriteLive
<1>16. CASE WriteSubscription
  BY <1>16 DEF WriteSubscription
<1>17. CASE Poll
  BY <1>17 DEF Poll
<1>18. CASE LiveStops
  BY <1>18 DEF LiveStops
<1>19. CASE Event
  BY <1>19 DEF Event
<1>20. CASE UpstreamEnds
  BY <1>20 DEF UpstreamEnds
<1>21. CASE DataChanges
  BY <1>21 DEF DataChanges
<1>22. CASE Disconnect
  BY <1>22 DEF Disconnect
<1>23. CASE OriginRepeats
  BY <1>23 DEF OriginRepeats
<1>24. CASE UNCHANGED vars
  BY <1>24
<1> HIDE DEF IInv, TypeOK
<1>25. QED
  BY <1>1, <1>2, <1>3, <1>4, <1>5, <1>6, <1>7, <1>8, <1>9, <1>10, <1>11, <1>12,
     <1>13, <1>14, <1>15, <1>16, <1>17, <1>18, <1>19, <1>20, <1>21, <1>22, <1>23, <1>24
     DEF Next, Handler, Environment, HookAnswers

\* The origin answers what it was asked.
LEMMA ResolvedStep == IInv /\ [Next]_vars => ResolvedAsTheHooksLeftIt'
<1> SUFFICES ASSUME IInv, [Next]_vars PROVE ResolvedAsTheHooksLeftIt'
  OBVIOUS
<1> USE TypeParts, StepsAre, HooksAre, IndexIs, AfterIs, EnabledIs, EnabledKept
        DEF IInv, ResolvedAsTheHooksLeftIt, AfterOrigin, MutationsAre, HeadersAre, Before,
            InputInv, HeadersInv, StatusInv, ResponseInv, EnabledInv, RequestOK, PcOK, CountersOK,
            vars, reqVars, sentVars, Goto, Names, PreHooks, OriginHooks, Kinds, Synchronous,
            Streams, Body, Resolved
<1>1. CASE Accept
  BY <1>1 DEF Accept
<1>2. CASE MockAnswers
  BY <1>2 DEF MockAnswers
<1>3. CASE PreAnswers
  BY <1>3 DEF PreAnswers
<1>4. CASE MutatingPreAnswers
  BY <1>4 DEF MutatingPreAnswers
<1>5. CASE CustomAnswers
  BY <1>5 DEF CustomAnswers
<1>6. CASE OriginHookAnswers
  BY <1>6 DEF OriginHookAnswers
<1>7. CASE PostAnswers
  BY <1>7 DEF PostAnswers
<1>8. CASE MutatingPostAnswers
  BY <1>8 DEF MutatingPostAnswers
<1>9. CASE Retry
  BY <1>9 DEF Retry
<1>10. CASE HookFails
  BY <1>10, FailIs DEF HookFails
<1>11. CASE OriginAnswers
  <2>1. pc = "origin" /\ UNCHANGED <<reqVars, polls>>
    BY <1>11 DEF OriginAnswers
  <2>2. response'.input = input /\ response'.headers = headers
    BY <1>11 DEF OriginAnswers
  <2>3. headers = HeadersAre
    BY <2>1
  <2>4. input = MutationsAre
    BY <2>1
  <2>5. HeadersAre' = HeadersAre /\ Enabled' = Enabled /\ Before' = Before
    BY <2>1
  <2>6. response'.headers = HeadersAre'
    BY <2>2, <2>3, <2>5
  <2>7. MutationsAre' = MutationsAre
    BY <2>1, <2>5
  <2> HIDE DEF MutationsAre, HeadersAre
  <2>8. QED
    BY <2>2, <2>4, <2>6, <2>7 DEF ResolvedAsTheHooksLeftIt
<1>12. CASE OriginFails
  BY <1>12, FailIs DEF OriginFails
<1>13. CASE Canceled
  BY <1>13 DEF Canceled
<1>14. CASE WriteSynchronous
  BY <1>14 DEF WriteSynchronous
<1>15. CASE WriteLive
  BY <1>15 DEF WriteLive
<1>16. CASE WriteSubscription
  BY <1>16 DEF WriteSubscription
<1>17. CASE Poll
  BY <1>17 DEF Poll
<1>18. CASE LiveStops
  BY <1>18 DEF LiveStops
<1>19. CASE Event
  BY <1>19 DEF Event
<1>20. CASE UpstreamEnds
  BY <1>20 DEF UpstreamEnds
<1>21. CASE DataChanges
  BY <1>21 DEF DataChanges
<1>22. CASE Disconnect
  BY <1>22 DEF Disconnect
<1>23. CASE OriginRepeats
  BY <1>23 DEF OriginRepeats
<1>24. CASE UNCHANGED vars
  BY <1>24
<1> HIDE DEF IInv, TypeOK
<1>25. QED
  BY <1>1, <1>2, <1>3, <1>4, <1>5, <1>6, <1>7, <1>8, <1>9, <1>10, <1>11, <1>12,
     <1>13, <1>14, <1>15, <1>16, <1>17, <1>18, <1>19, <1>20, <1>21, <1>22, <1>23, <1>24
     DEF Next, Handler, Environment, HookAnswers

\* A handler that ends says how.
LEMMA OutcomeStep == IInv /\ [Next]_vars => StatusTellsOutcome'
<1> SUFFICES ASSUME IInv, [Next]_vars PROVE StatusTellsOutcome'
  OBVIOUS
<1> USE TypeParts, FailIs, BodyTyped, AfterIs, IndexIs, HooksAre, StepsAre
        DEF IInv, StatusTellsOutcome, AppliedInv, StatusInv, ResponseInv, EnabledInv, RequestOK,
            PcOK, CountersOK, vars, reqVars, sentVars, Goto, Names, PreHooks, OriginHooks, Kinds,
            Synchronous, Streams, Body, Settle, WriteBody, More, ReplyError
<1>1. CASE Accept
  BY <1>1 DEF Accept
<1>2. CASE MockAnswers
  BY <1>2 DEF MockAnswers
<1>3. CASE PreAnswers
  BY <1>3 DEF PreAnswers
<1>4. CASE MutatingPreAnswers
  BY <1>4 DEF MutatingPreAnswers
<1>5. CASE CustomAnswers
  BY <1>5 DEF CustomAnswers
<1>6. CASE OriginHookAnswers
  BY <1>6 DEF OriginHookAnswers
<1>7. CASE PostAnswers
  BY <1>7 DEF PostAnswers
<1>8. CASE MutatingPostAnswers
  BY <1>8 DEF MutatingPostAnswers
<1>9. CASE Retry
  BY <1>9 DEF Retry
<1>10. CASE HookFails
  BY <1>10, FailIs DEF HookFails
<1>11. CASE OriginAnswers
  BY <1>11 DEF OriginAnswers, More
<1>12. CASE OriginFails
  BY <1>12, FailIs DEF OriginFails, MayApply, More
<1>13. CASE Canceled
  BY <1>13 DEF Canceled, MayApply, More
<1>14. CASE WriteSynchronous
  BY <1>14 DEF WriteSynchronous
<1>15. CASE WriteLive
  BY <1>15 DEF WriteLive
<1>16. CASE WriteSubscription
  BY <1>16 DEF WriteSubscription
<1>17. CASE Poll
  BY <1>17 DEF Poll
<1>18. CASE LiveStops
  BY <1>18 DEF LiveStops
<1>19. CASE Event
  BY <1>19 DEF Event
<1>20. CASE UpstreamEnds
  BY <1>20 DEF UpstreamEnds
<1>21. CASE DataChanges
  BY <1>21 DEF DataChanges
<1>22. CASE Disconnect
  BY <1>22 DEF Disconnect
<1>23. CASE OriginRepeats
  BY <1>23 DEF OriginRepeats, MayApply, More
<1>24. CASE UNCHANGED vars
  BY <1>24
<1> HIDE DEF IInv, TypeOK
<1>25. QED
  BY <1>1, <1>2, <1>3, <1>4, <1>5, <1>6, <1>7, <1>8, <1>9, <1>10, <1>11, <1>12,
     <1>13, <1>14, <1>15, <1>16, <1>17, <1>18, <1>19, <1>20, <1>21, <1>22, <1>23, <1>24
     DEF Next, Handler, Environment, HookAnswers

\* What is written was at hand.
LEMMA PassStep == IInv /\ [Next]_vars => ResponsesPassTheirHook'
<1> SUFFICES ASSUME IInv, [Next]_vars PROVE ResponsesPassTheirHook'
  OBVIOUS
<1> USE TypeParts, EnabledKept
        DEF IInv, ResponsesPassTheirHook, ResponseInv, StatusInv, RequestOK, PcOK, CountersOK,
            vars, reqVars, sentVars, Body, WriteBody, More, ReplyError
<1>1. CASE Accept
  BY <1>1 DEF Accept
<1>2. CASE MockAnswers
  BY <1>2 DEF MockAnswers
<1>3. CASE PreAnswers
  BY <1>3 DEF PreAnswers
<1>4. CASE MutatingPreAnswers
  BY <1>4 DEF MutatingPreAnswers
<1>5. CASE CustomAnswers
  BY <1>5 DEF CustomAnswers
<1>6. CASE OriginHookAnswers
  BY <1>6 DEF OriginHookAnswers
<1>7. CASE PostAnswers
  BY <1>7 DEF PostAnswers
<1>8. CASE MutatingPostAnswers
  BY <1>8 DEF MutatingPostAnswers
<1>9. CASE Retry
  BY <1>9 DEF Retry
<1>10. CASE HookFails
  BY <1>10, FailIs DEF HookFails
<1>11. CASE OriginAnswers
  BY <1>11 DEF OriginAnswers
<1>12. CASE OriginFails
  BY <1>12, FailIs DEF OriginFails
<1>13. CASE Canceled
  BY <1>13 DEF Canceled
<1>14. CASE WriteSynchronous
  BY <1>14 DEF WriteSynchronous
<1>15. CASE WriteLive
  BY <1>15 DEF WriteLive
<1>16. CASE WriteSubscription
  BY <1>16 DEF WriteSubscription
<1>17. CASE Poll
  BY <1>17 DEF Poll
<1>18. CASE LiveStops
  BY <1>18 DEF LiveStops
<1>19. CASE Event
  BY <1>19 DEF Event
<1>20. CASE UpstreamEnds
  BY <1>20 DEF UpstreamEnds
<1>21. CASE DataChanges
  BY <1>21 DEF DataChanges
<1>22. CASE Disconnect
  BY <1>22 DEF Disconnect
<1>23. CASE OriginRepeats
  BY <1>23 DEF OriginRepeats
<1>24. CASE UNCHANGED vars
  BY <1>24
<1> HIDE DEF IInv, TypeOK
<1>25. QED
  BY <1>1, <1>2, <1>3, <1>4, <1>5, <1>6, <1>7, <1>8, <1>9, <1>10, <1>11, <1>12,
     <1>13, <1>14, <1>15, <1>16, <1>17, <1>18, <1>19, <1>20, <1>21, <1>22, <1>23, <1>24
     DEF Next, Handler, Environment, HookAnswers

-----------------------------------------------------------------------------
(* The theorems *)

\* The invariant holds in every state.
LEMMA Inductive == Spec => []IInv
<1>1. Init => IInv
  <2> SUFFICES ASSUME Init PROVE IInv
    OBVIOUS
  <2> USE BoundsAssumption, StepsAre, HooksAre, IndexIs
      DEF Init, Kinds, Synchronous, Streams, Names
  <2>1. TypeOK
    <3>1. Body("none") \in Responses
      BY BodyTyped DEF Froms
    <3>2. RequestOK /\ PcOK /\ AttemptOK
      <4>1. once \in BOOLEAN
        OBVIOUS
      <4>2. kind \in Kinds /\ hooks \in HookSets /\ ctxDone \in BOOLEAN
        OBVIOUS
      <4>3. pc \in Steps \cup {"wait", "done"} /\ attempt \in 0 .. RetryMax + 1
        OBVIOUS
      <4>4. (attempt # 0) <=> (pc \in Hooks)
        OBVIOUS
      <4>5. QED
        BY <4>1, <4>2, <4>3, <4>4 DEF RequestOK, PcOK, AttemptOK
    <3>3. CountersOK
      BY DEF CountersOK
    <3>4. ResponseOK /\ StatusOK
      BY <3>1 DEF ResponseOK, StatusOK
    <3>5. QED
      BY <3>2, <3>3, <3>4, TypeParts
  <2>2. EnabledInv /\ AppliedInv /\ InputInv /\ HeadersInv
    BY DEF EnabledInv, AppliedInv, InputInv, HeadersInv
  <2>3. ResponseInv /\ StatusInv
    BY DEF ResponseInv, StatusInv, Body
  <2>4. ResolvedAsTheHooksLeftIt /\ StatusTellsOutcome /\ ResponsesPassTheirHook
    BY DEF ResolvedAsTheHooksLeftIt, StatusTellsOutcome, ResponsesPassTheirHook, Body
  <2>5. QED
    BY <2>1, <2>2, <2>3, <2>4 DEF IInv
<1>2. IInv /\ [Next]_vars => IInv'
  <2>1. IInv /\ [Next]_vars => TypeOK'
    BY RequestStep, PcStep, AttemptStep, CountersStep, ResponseStep, StatusStep, TypePartsPrimed
  <2>2. QED
    BY <2>1, EnabledStep, AppliedStep, InputStep, HeadersStep, ResponseInvStep, StatusInvStep,
       ResolvedStep, OutcomeStep, PassStep DEF IInv
<1>3. QED
  BY <1>1, <1>2, PTL DEF Spec

\* Type correctness: a hook is called at most RetryMax + 1 times, and no handler
\* leaves the steps it has.
THEOREM TypeCorrect == Spec => []TypeOK
BY Inductive, PTL DEF IInv

\* The origin is asked with the input and the headers that the hooks left,
\* whichever hooks there are and however often their calls were repeated.
THEOREM HooksRespected == Spec => []ResolvedAsTheHooksLeftIt
BY Inductive, PTL DEF IInv

\* The status of an operation that is done tells its client what happened.
THEOREM OutcomeTold == Spec => []StatusTellsOutcome
BY Inductive, PTL DEF IInv

\* What the mutatingPostResolve hook has not seen is not sent.
THEOREM ResponsesPass == Spec => []ResponsesPassTheirHook
BY Inductive, PTL DEF IInv
-----------------------------------------------------------------------------
(* Where InputIsMutated still holds *)

\* A live query that is under way has had an event, so that its input was mutated;
\* only the query handler resolves with an input that was not.
MutatedInv ==
    /\ kind = "live" /\ pc \notin {"accept", "done"} => polls # 0
    /\ kind # "query" => InputIsMutated

\* When a handler other than the query's calls the origin, the hook has mutated the
\* input.
LEMMA MutatedBeforeOrigin ==
    ASSUME IInv, MutatedInv, pc = "origin", kind # "query", "mutatingPreResolve" \in Enabled
    PROVE  input # 0
<1>1. Index("mutatingPreResolve") < Index(pc) /\ pc \in Steps
  BY IndexIs, StepsAre DEF Names
<1>2. kind = "live" => failed = {}
  BY DEF IInv, ResponseInv
<1>3. input = MutationsAre
  BY <1>1, <1>2, IndexIs DEF IInv, InputInv
<1>4. QED
  BY <1>3 DEF MutationsAre, MutatedInv

\* Every step keeps it: what the origin answers carries the input that it was called
\* with, and every other response is not the origin's.
LEMMA MutatedStep == IInv /\ MutatedInv /\ [Next]_vars => MutatedInv'
<1> SUFFICES ASSUME IInv, MutatedInv, [Next]_vars PROVE MutatedInv'
  OBVIOUS
<1> USE BoundsAssumption, EnabledKept, TypeParts
        DEF MutatedInv, InputIsMutated, IInv, PcOK, RequestOK, CountersOK, vars, reqVars, sentVars,
            Goto, Saturated
<1>1. CASE Accept
  BY <1>1 DEF Accept
<1>2. CASE MockAnswers
  BY <1>2 DEF MockAnswers
<1>3. CASE PreAnswers
  BY <1>3 DEF PreAnswers
<1>4. CASE MutatingPreAnswers
  BY <1>4 DEF MutatingPreAnswers
<1>5. CASE CustomAnswers
  BY <1>5 DEF CustomAnswers, Body
<1>6. CASE OriginHookAnswers
  BY <1>6 DEF OriginHookAnswers, OriginHooks
<1>7. CASE PostAnswers
  BY <1>7 DEF PostAnswers
<1>8. CASE MutatingPostAnswers
  BY <1>8 DEF MutatingPostAnswers
<1>9. CASE Retry
  BY <1>9 DEF Retry
<1>10. CASE HookFails
  BY <1>10, FailIs, HooksAre DEF HookFails, Body, Names
<1>11. CASE OriginAnswers
  BY <1>11, MutatedBeforeOrigin DEF OriginAnswers, Resolved
<1>12. CASE OriginFails
  BY <1>12, FailIs DEF OriginFails, Body
<1>13. CASE Canceled
  BY <1>13 DEF Canceled, Body
<1>14. CASE WriteSynchronous
  BY <1>14 DEF WriteSynchronous
<1>15. CASE WriteLive
  BY <1>15 DEF WriteLive
<1>16. CASE WriteSubscription
  BY <1>16 DEF WriteSubscription
<1>17. CASE Poll
  BY <1>17 DEF Poll
<1>18. CASE LiveStops
  BY <1>18 DEF LiveStops
<1>19. CASE Event
  BY <1>19, MutatedBeforeOrigin DEF Event, Resolved
<1>20. CASE UpstreamEnds
  BY <1>20 DEF UpstreamEnds
<1>21. CASE DataChanges
  BY <1>21 DEF DataChanges
<1>22. CASE Disconnect
  BY <1>22 DEF Disconnect
<1>23. CASE OriginRepeats
  BY <1>23 DEF OriginRepeats
<1>24. CASE UNCHANGED vars
  BY <1>24
<1> HIDE DEF IInv, MutatedInv
<1>25. QED
  BY <1>1, <1>2, <1>3, <1>4, <1>5, <1>6, <1>7, <1>8, <1>9, <1>10, <1>11, <1>12,
     <1>13, <1>14, <1>15, <1>16, <1>17, <1>18, <1>19, <1>20, <1>21, <1>22, <1>23, <1>24
     DEF Next, Handler, Environment, HookAnswers

\* The handlers of live queries, mutations, subscriptions and internal calls keep what
\* the documentation of mutatingPreResolve says, whichever hooks fail or are repeated:
\* only QueryHandler.ServeHTTP drops the input that the hook returns.
THEOREM OthersMutateTheirInput == Spec => [](kind # "query" => InputIsMutated)
<1>1. Init => MutatedInv
  BY DEF Init, MutatedInv, InputIsMutated, Body
<1>2. IInv /\ MutatedInv /\ [Next]_vars => MutatedInv'
  BY MutatedStep
<1>3. MutatedInv => (kind # "query" => InputIsMutated)
  BY DEF MutatedInv
<1>4. QED
  BY <1>1, <1>2, <1>3, Inductive, PTL DEF Spec
-----------------------------------------------------------------------------
(* The steps come in their order *)

\* The next step of the order: none that the operation has is passed over, unless
\* customResolve has answered or an event of a live query has failed.
Advances ==
    /\ pc \in Steps /\ pc' \in Steps
    /\ Index(pc) < Index(pc') /\ attempt' <= 1
    /\ \/ \A h \in Enabled \cup {"origin"} : Index(pc) < Index(h) => Index(pc') <= Index(h)
       \/ pc' = "write" /\ (pc = "customResolve" \/ kind = "live")

\* The next attempt of a call, of RetryMax + 1.
TriesAgain ==
    pc \in Hooks /\ pc' = pc /\ attempt' = attempt + 1 /\ attempt' <= RetryMax + 1

\* The next event of a stream, which begins behind what the stream does once.
BeginsEvent ==
    \/ kind = "live" /\ pc = "write" /\ pc' = "wait"
    \/ kind = "live" /\ pc = "wait" /\ pc' = After("mockResolve")
    \/ kind = "subscription" /\ pc = "write" /\ pc' = "origin"

\* A handler takes its steps in their order, each hook once but for RetryMax
\* repetitions, and is done for good.  So the handlers that are no streams have a
\* bounded number of steps, whatever the hooks server does.
HooksInOrder ==
    [][pc # "done" /\ (pc' = "done" \/ Advances \/ TriesAgain \/ BeginsEvent)]_<<pc, attempt>>

\* Every step but one of the environment moves the handler forward.
LEMMA OrderStep ==
    IInv /\ [Next]_vars =>
        \/ pc # "done" /\ (pc' = "done" \/ Advances \/ TriesAgain \/ BeginsEvent)
        \/ UNCHANGED <<pc, attempt>>
<1> DEFINE Orderly ==
        \/ pc # "done" /\ (pc' = "done" \/ Advances \/ TriesAgain \/ BeginsEvent)
        \/ UNCHANGED <<pc, attempt>>
<1> SUFFICES ASSUME IInv, [Next]_vars PROVE Orderly
  OBVIOUS
<1>a. TypeOK /\ EnabledInv
  BY DEF IInv
<1>b. ASSUME pc \in Steps, pc # "write", Goto(After(pc)) PROVE Advances
  BY <1>a, <1>b, AfterIs, EnabledIs DEF Advances, Goto, TypeOK
<1>c. ASSUME pc \in Hooks \cup {"origin"}, Fail PROVE Orderly
  <2>1. pc \in Steps /\ pc \notin {"write", "done"}
    BY <1>c, StepsAre, HooksAre DEF Names
  <2>2. Goto("done") \/ Goto(After(pc)) \/ (kind = "live" /\ Goto("write"))
    BY <1>a, <1>c, FailIs
  <2>3. ASSUME kind = "live", Goto("write") PROVE Advances
    BY <2>1, <2>3, StepsAre, HooksAre, IndexIs DEF Advances, Goto, Names
  <2>4. QED
    BY <1>b, <2>1, <2>2, <2>3 DEF Goto
<1>1. CASE Accept
  BY <1>1, <1>b, StepsAre DEF Accept, Names, Goto
<1>2. CASE MockAnswers
  BY <1>2 DEF MockAnswers, Goto
<1>3. CASE PreAnswers
  BY <1>3, <1>b, StepsAre DEF PreAnswers, Names
<1>4. CASE MutatingPreAnswers
  BY <1>4, <1>b, StepsAre DEF MutatingPreAnswers, Names
<1>5. CASE CustomAnswers
  <2>1. CASE Goto(After(pc))
    BY <1>5, <1>b, <2>1, StepsAre DEF CustomAnswers, Names
  <2>2. CASE Goto("write")
    BY <1>5, <2>2, StepsAre, HooksAre, IndexIs DEF CustomAnswers, Advances, Goto, Names
  <2>3. QED
    BY <1>5, <2>1, <2>2 DEF CustomAnswers
<1>6. CASE OriginHookAnswers
  BY <1>6, <1>b, StepsAre DEF OriginHookAnswers, Names, OriginHooks
<1>7. CASE PostAnswers
  BY <1>7, <1>b, StepsAre DEF PostAnswers, Names
<1>8. CASE MutatingPostAnswers
  BY <1>8, <1>b, StepsAre DEF MutatingPostAnswers, Names
<1>9. CASE Retry
  BY <1>9, <1>a, BoundsAssumption, HooksAre DEF Retry, TriesAgain, TypeOK, Names
<1>10. CASE HookFails
  <2>1. pc \in Hooks /\ Fail
    BY <1>10 DEF HookFails
  <2>2. QED
    BY <1>c, <2>1
<1>11. CASE OriginAnswers
  BY <1>11, <1>b, StepsAre DEF OriginAnswers, Names
<1>12. CASE OriginFails
  <2>1. pc = "origin" /\ Fail
    BY <1>12 DEF OriginFails
  <2>2. QED
    BY <1>c, <2>1
<1>13. CASE Canceled
  <2>1. CASE kind = "subscription" /\ pc \in {"postResolve", "mutatingPostResolve"}
    BY <1>13, <1>b, <2>1, StepsAre DEF Canceled, Names
  <2>2. CASE ~(kind = "subscription" /\ pc \in {"postResolve", "mutatingPostResolve"})
    BY <1>13, <2>2, HooksAre DEF Canceled, Goto, Names
  <2>3. QED
    BY <2>1, <2>2
<1>14. CASE WriteSynchronous
  BY <1>14 DEF WriteSynchronous, Goto
<1>15. CASE WriteLive
  BY <1>15 DEF WriteLive, Goto, BeginsEvent
<1>16. CASE WriteSubscription
  BY <1>16 DEF WriteSubscription, Goto, BeginsEvent
<1>17. CASE Poll
  <2>1. kind = "live"
    BY <1>17 DEF IInv, StatusInv, Poll
  <2>2. QED
    BY <1>17, <2>1 DEF Poll, Goto, BeginsEvent
<1>18. CASE LiveStops
  BY <1>18 DEF LiveStops, Goto
<1>19. CASE Event
  BY <1>19, <1>b, StepsAre DEF Event, Names
<1>20. CASE UpstreamEnds
  BY <1>20 DEF UpstreamEnds, Goto
<1>21. CASE DataChanges
  BY <1>21 DEF DataChanges
<1>22. CASE Disconnect
  BY <1>22 DEF Disconnect
<1>23. CASE OriginRepeats
  BY <1>23 DEF OriginRepeats
<1>24. CASE UNCHANGED vars
  BY <1>24 DEF vars
<1>25. QED
  BY <1>1, <1>2, <1>3, <1>4, <1>5, <1>6, <1>7, <1>8, <1>9, <1>10, <1>11, <1>12,
     <1>13, <1>14, <1>15, <1>16, <1>17, <1>18, <1>19, <1>20, <1>21, <1>22, <1>23, <1>24
     DEF Next, Handler, Environment, HookAnswers

\* The calls of the hooks in ServeHTTP of each handler, and the loop of doRequest: the
\* measure behind HandlerEnds.
THEOREM OrderKept == Spec => HooksInOrder
BY Inductive, OrderStep, PTL DEF Spec, HooksInOrder
=============================================================================
