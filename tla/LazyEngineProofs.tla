-------------------------- MODULE LazyEngineProofs --------------------------
(***************************************************************************)
(* Proofs about LazyEngine, for any set of requests and any number of      *)
(* engine starts.                                                          *)
(***************************************************************************)
EXTENDS LazyEngine, TLAPS

\* Where a request can be while it is known to the lock.
InsideRead == {"check", "exec", "send", "stuck", "unlock"}
InsideWrite == {"init", "ready", "exec", "send", "stuck", "unlock"}

\* Which places go with which hold on the lock.
LockInv ==
    /\ readers \cap blocked = {}
    /\ writer = Loop <=> loop \in {"stop", "close"}
    /\ \A r \in Requests :
        /\ r \in readers => pc[r] \in InsideRead
        /\ r \in blocked => pc[r] = "check"
        /\ writer = r => pc[r] \in InsideWrite
        /\ pc[r] = "check" => r \in readers \cup blocked
        /\ pc[r] \in {"init", "ready"} => writer = r
        /\ pc[r] \in {"ready", "exec", "send", "unlock", "stuck"} => Holds(r)

\* The engine in the slot runs, and it is there while it is waited for or used.
SlotInv ==
    /\ engine # NoEngine => engine \in running
    /\ \A r \in Requests : pc[r] = "ready" => engine # NoEngine
    /\ \A r \in Requests : pc[r] = "exec" => using[r] = engine /\ engine # NoEngine

IInv == TypeOK /\ LockInv /\ SlotInv
-----------------------------------------------------------------------------
\* Every variable keeps its type through every step of Load, Execute and Start.
THEOREM TypeCorrect == Spec => []TypeOK
<1>1. Init => TypeOK
  <2> SUFFICES ASSUME Init PROVE TypeOK
    OBVIOUS
  <2> USE ConstantsAssumption DEF Init
  <2>1. readers \subseteq Requests /\ blocked \subseteq Requests /\ writer = Nobody
    BY DEF MutexInit
  <2>2. started \in 0 .. MaxEngines
    OBVIOUS
  <2>3. QED
    BY <2>1, <2>2 DEF TypeOK, NoEngine, LoopPlaces, RequestPlaces
<1>2. TypeOK /\ [Next]_vars => TypeOK'
  <2> SUFFICES ASSUME TypeOK, [Next]_vars PROVE TypeOK'
    OBVIOUS
  <2> USE ConstantsAssumption
      DEF TypeOK, Goto, NoEngine, Engines, LoopPlaces, RequestPlaces,
          vars, mutexVars, engineVars, loopVars, loadVars
  <2>1. ASSUME NEW r \in Requests, Load(r) PROVE TypeOK'
    BY <2>1 DEF Load
  <2>2. ASSUME NEW r \in Requests, Expire(r) PROVE TypeOK'
    BY <2>2 DEF Expire
  <2>3. ASSUME NEW r \in Requests, GiveUp(r) PROVE TypeOK'
    BY <2>3 DEF GiveUp, Return
  <2>4. ASSUME NEW r \in Requests, Retry(r) PROVE TypeOK'
    BY <2>4 DEF Retry
  <2>5. ASSUME NEW r \in Requests, Deliver(r) PROVE TypeOK'
    BY <2>5 DEF Deliver, Return
  <2>6. ASSUME NEW r \in Requests, EnterRLock(r) PROVE TypeOK'
    BY <2>6 DEF EnterRLock, RLock
  <2>7. ASSUME NEW r \in Requests, RejectClosed(r) PROVE TypeOK'
    BY <2>7 DEF RejectClosed, RUnlock
  <2>8. ASSUME NEW r \in Requests, SeeNoEngine(r) PROVE TypeOK'
    BY <2>8 DEF SeeNoEngine, RUnlock
  <2>9. ASSUME NEW r \in Requests, UseEngine(r) PROVE TypeOK'
    BY <2>9 DEF UseEngine
  <2>10. ASSUME NEW r \in Requests, StartEngine(r) PROVE TypeOK'
    BY <2>10 DEF StartEngine, HoldsWrite
  <2>11. ASSUME NEW r \in Requests, StartEngineFails(r) PROVE TypeOK'
    BY <2>11 DEF StartEngineFails, Unlock, HoldsWrite
  <2>12. ASSUME NEW r \in Requests, EngineReady(r) PROVE TypeOK'
    BY <2>12 DEF EngineReady
  <2>13. ASSUME NEW r \in Requests, EngineNotReady(r) PROVE TypeOK'
    BY <2>13 DEF EngineNotReady, Unlock, HoldsWrite
  <2>14. ASSUME NEW r \in Requests, ExecuteSucceeds(r) PROVE TypeOK'
    BY <2>14 DEF ExecuteSucceeds, Copied
  <2>15. ASSUME NEW r \in Requests, ExecuteFails(r) PROVE TypeOK'
    BY <2>15 DEF ExecuteFails, Copied
  <2>16. ASSUME NEW r \in Requests, SendOnNil(r) PROVE TypeOK'
    BY <2>16 DEF SendOnNil
  <2>17. ASSUME NEW r \in Requests, Release(r) PROVE TypeOK'
    BY <2>17 DEF Release, Unlock, RUnlock, HoldsWrite
  <2>18. ASSUME NEW r \in Requests, EnterLock(r) PROVE TypeOK'
    BY <2>18 DEF EnterLock, Announce
  <2>19. ASSUME NEW r \in Requests, Processed(r) PROVE TypeOK'
    BY <2>19 DEF Processed
  <2>20. CASE MakeChannel
    BY <2>20 DEF MakeChannel
  <2>21. CASE TakeStop
    BY <2>21 DEF TakeStop
  <2>22. CASE TakeCloser
    BY <2>22 DEF TakeCloser
  <2>23. CASE StopEngine
    BY <2>23 DEF StopEngine, CloseEngine, Unlock, HoldsWrite
  <2>24. CASE CloseForGood
    BY <2>24 DEF CloseForGood, CloseEngine, Unlock, HoldsWrite
  <2>25. CASE LoopEnterLock
    BY <2>25 DEF LoopEnterLock, Announce
  <2>26. CASE TimerFires
    BY <2>26 DEF TimerFires
  <2>27. CASE CancelPlanner
    BY <2>27 DEF CancelPlanner
  <2>28. CASE UNCHANGED vars
    BY <2>28
  <2>29. QED
    BY <2>1, <2>2, <2>3, <2>4, <2>5, <2>6, <2>7, <2>8, <2>9, <2>10, <2>11,
       <2>12, <2>13, <2>14, <2>15, <2>16, <2>17, <2>18, <2>19, <2>20, <2>21,
       <2>22, <2>23, <2>24, <2>25, <2>26, <2>27, <2>28
       DEF Next, RequestStep, LoopStep
<1>3. QED
  BY <1>1, <1>2, PTL DEF Spec
-----------------------------------------------------------------------------
\* Each request holds the lock exactly where Execute and initEngineAndExecute
\* say that it does, and the loop exactly where Start does.
LEMMA LockStep == TypeOK /\ LockInv /\ [Next]_vars => LockInv'
<1> SUFFICES ASSUME TypeOK, LockInv, [Next]_vars PROVE LockInv'
  OBVIOUS
<1> USE ConstantsAssumption
    DEF TypeOK, LockInv, InsideRead, InsideWrite, Holds, HoldsWrite, Goto,
        RequestPlaces, LoopPlaces, vars, mutexVars, engineVars, loopVars, loadVars
<1>1. ASSUME NEW r \in Requests, Load(r) PROVE LockInv'
  BY <1>1 DEF Load
<1>2. ASSUME NEW r \in Requests, Expire(r) PROVE LockInv'
  BY <1>2 DEF Expire
<1>3. ASSUME NEW r \in Requests, GiveUp(r) PROVE LockInv'
  BY <1>3 DEF GiveUp, Return
<1>4. ASSUME NEW r \in Requests, Retry(r) PROVE LockInv'
  BY <1>4 DEF Retry
<1>5. ASSUME NEW r \in Requests, Deliver(r) PROVE LockInv'
  BY <1>5 DEF Deliver, Return
<1>6. ASSUME NEW r \in Requests, EnterRLock(r) PROVE LockInv'
  BY <1>6 DEF EnterRLock, RLock
<1>7. ASSUME NEW r \in Requests, RejectClosed(r) PROVE LockInv'
  BY <1>7 DEF RejectClosed, RUnlock
<1>8. ASSUME NEW r \in Requests, SeeNoEngine(r) PROVE LockInv'
  BY <1>8 DEF SeeNoEngine, RUnlock
<1>9. ASSUME NEW r \in Requests, UseEngine(r) PROVE LockInv'
  BY <1>9 DEF UseEngine
<1>10. ASSUME NEW r \in Requests, StartEngine(r) PROVE LockInv'
  BY <1>10 DEF StartEngine
<1>11. ASSUME NEW r \in Requests, StartEngineFails(r) PROVE LockInv'
  BY <1>11 DEF StartEngineFails, Unlock
<1>12. ASSUME NEW r \in Requests, EngineReady(r) PROVE LockInv'
  BY <1>12 DEF EngineReady
<1>13. ASSUME NEW r \in Requests, EngineNotReady(r) PROVE LockInv'
  BY <1>13 DEF EngineNotReady, Unlock
<1>14. ASSUME NEW r \in Requests, ExecuteSucceeds(r) PROVE LockInv'
  BY <1>14 DEF ExecuteSucceeds, Copied
<1>15. ASSUME NEW r \in Requests, ExecuteFails(r) PROVE LockInv'
  BY <1>15 DEF ExecuteFails, Copied
<1>16. ASSUME NEW r \in Requests, SendOnNil(r) PROVE LockInv'
  BY <1>16 DEF SendOnNil
<1>17. ASSUME NEW r \in Requests, Release(r) PROVE LockInv'
  BY <1>17 DEF Release, Unlock, RUnlock
<1>18. ASSUME NEW r \in Requests, EnterLock(r) PROVE LockInv'
  BY <1>18 DEF EnterLock, Announce
<1>19. ASSUME NEW r \in Requests, Processed(r) PROVE LockInv'
  BY <1>19 DEF Processed
<1>20. CASE MakeChannel
  BY <1>20 DEF MakeChannel
<1>21. CASE TakeStop
  BY <1>21 DEF TakeStop
<1>22. CASE TakeCloser
  BY <1>22 DEF TakeCloser
<1>23. CASE StopEngine
  BY <1>23 DEF StopEngine, CloseEngine, Unlock
<1>24. CASE CloseForGood
  BY <1>24 DEF CloseForGood, CloseEngine, Unlock
<1>25. CASE LoopEnterLock
  BY <1>25 DEF LoopEnterLock, Announce
<1>26. CASE TimerFires
  BY <1>26 DEF TimerFires
<1>27. CASE CancelPlanner
  BY <1>27 DEF CancelPlanner
<1>28. CASE UNCHANGED vars
  BY <1>28
<1>29. QED
  BY <1>1, <1>2, <1>3, <1>4, <1>5, <1>6, <1>7, <1>8, <1>9, <1>10, <1>11,
     <1>12, <1>13, <1>14, <1>15, <1>16, <1>17, <1>18, <1>19, <1>20, <1>21,
     <1>22, <1>23, <1>24, <1>25, <1>26, <1>27, <1>28
     DEF Next, RequestStep, LoopStep

-----------------------------------------------------------------------------
\* While a request waits for its engine or executes on it, the slot holds that
\* engine and the process runs.
LEMMA SlotStep == TypeOK /\ LockInv /\ SlotInv /\ [Next]_vars => SlotInv'
<1> SUFFICES ASSUME TypeOK, LockInv, SlotInv, [Next]_vars PROVE SlotInv'
  OBVIOUS
<1> USE ConstantsAssumption
    DEF TypeOK, LockInv, SlotInv, InsideRead, InsideWrite, Holds, HoldsWrite, Goto,
        NoEngine, Engines, vars, mutexVars, engineVars, loopVars, loadVars
<1>1. ASSUME NEW r \in Requests, Load(r) PROVE SlotInv'
  BY <1>1 DEF Load
<1>2. ASSUME NEW r \in Requests, Expire(r) PROVE SlotInv'
  BY <1>2 DEF Expire
<1>3. ASSUME NEW r \in Requests, GiveUp(r) PROVE SlotInv'
  BY <1>3 DEF GiveUp, Return
<1>4. ASSUME NEW r \in Requests, Retry(r) PROVE SlotInv'
  BY <1>4 DEF Retry
<1>5. ASSUME NEW r \in Requests, Deliver(r) PROVE SlotInv'
  BY <1>5 DEF Deliver, Return
<1>6. ASSUME NEW r \in Requests, EnterRLock(r) PROVE SlotInv'
  BY <1>6 DEF EnterRLock, RLock
<1>7. ASSUME NEW r \in Requests, RejectClosed(r) PROVE SlotInv'
  BY <1>7 DEF RejectClosed, RUnlock
<1>8. ASSUME NEW r \in Requests, SeeNoEngine(r) PROVE SlotInv'
  BY <1>8 DEF SeeNoEngine, RUnlock
<1>9. ASSUME NEW r \in Requests, UseEngine(r) PROVE SlotInv'
  BY <1>9 DEF UseEngine
<1>10. ASSUME NEW r \in Requests, StartEngine(r) PROVE SlotInv'
  BY <1>10 DEF StartEngine
<1>11. ASSUME NEW r \in Requests, StartEngineFails(r) PROVE SlotInv'
  BY <1>11 DEF StartEngineFails, Unlock
<1>12. ASSUME NEW r \in Requests, EngineReady(r) PROVE SlotInv'
  BY <1>12 DEF EngineReady
<1>13. ASSUME NEW r \in Requests, EngineNotReady(r) PROVE SlotInv'
  BY <1>13 DEF EngineNotReady, Unlock
<1>14. ASSUME NEW r \in Requests, ExecuteSucceeds(r) PROVE SlotInv'
  BY <1>14 DEF ExecuteSucceeds, Copied
<1>15. ASSUME NEW r \in Requests, ExecuteFails(r) PROVE SlotInv'
  BY <1>15 DEF ExecuteFails, Copied
<1>16. ASSUME NEW r \in Requests, SendOnNil(r) PROVE SlotInv'
  BY <1>16 DEF SendOnNil
<1>17. ASSUME NEW r \in Requests, Release(r) PROVE SlotInv'
  BY <1>17 DEF Release, Unlock, RUnlock
<1>18. ASSUME NEW r \in Requests, EnterLock(r) PROVE SlotInv'
  BY <1>18 DEF EnterLock, Announce
<1>19. ASSUME NEW r \in Requests, Processed(r) PROVE SlotInv'
  BY <1>19 DEF Processed
<1>20. CASE MakeChannel
  BY <1>20 DEF MakeChannel
<1>21. CASE TakeStop
  BY <1>21 DEF TakeStop
<1>22. CASE TakeCloser
  BY <1>22 DEF TakeCloser
<1>23. CASE StopEngine
  BY <1>23 DEF StopEngine, CloseEngine, Unlock
<1>24. CASE CloseForGood
  BY <1>24 DEF CloseForGood, CloseEngine, Unlock
<1>25. CASE LoopEnterLock
  BY <1>25 DEF LoopEnterLock, Announce
<1>26. CASE TimerFires
  BY <1>26 DEF TimerFires
<1>27. CASE CancelPlanner
  BY <1>27 DEF CancelPlanner
<1>28. CASE UNCHANGED vars
  BY <1>28
<1>29. QED
  BY <1>1, <1>2, <1>3, <1>4, <1>5, <1>6, <1>7, <1>8, <1>9, <1>10, <1>11,
     <1>12, <1>13, <1>14, <1>15, <1>16, <1>17, <1>18, <1>19, <1>20, <1>21,
     <1>22, <1>23, <1>24, <1>25, <1>26, <1>27, <1>28
     DEF Next, RequestStep, LoopStep

-----------------------------------------------------------------------------
\* The invariant that the safety theorems and the refinement rest on: the types,
\* the lock's holders, and the engine in the slot.
LEMMA InductiveInvariant == Spec => []IInv
<1>1. Init => LockInv /\ SlotInv
  BY ConstantsAssumption
     DEF Init, MutexInit, LockInv, SlotInv, NoEngine, Holds, HoldsWrite
<1>2. TypeOK /\ LockInv /\ SlotInv /\ [Next]_vars => (LockInv /\ SlotInv)'
  BY LockStep, SlotStep
<1>3. QED
  BY <1>1, <1>2, TypeCorrect, PTL DEF Spec, IInv

\* No request ever executes on an engine that was stopped or replaced.
THEOREM ExecutionSafe == Spec => []ExecutesOnCurrentEngine
<1>1. IInv => ExecutesOnCurrentEngine
  BY DEF IInv, SlotInv, ExecutesOnCurrentEngine
<1>2. QED
  BY <1>1, InductiveInvariant, PTL
-----------------------------------------------------------------------------
\* The buffer of Load is empty until the engine answers; after an answer it
\* holds that answer.
BufferInv ==
    \A r \in Requests :
        /\ pc[r] \notin {"send", "stuck", "unlock"} => ~failed[r]
        /\ pc[r] \in {"idle", "rlock", "check", "lock", "init", "ready", "exec"}
              => buf[r] = "empty"
        /\ pc[r] \in {"send", "unlock", "done"} /\ ~failed[r] => buf[r] = "response"

\* A retry starts from an empty buffer, and only a successful Execute, or one that
\* failed and is retried, leaves anything in it.
LEMMA BufferStep == TypeOK /\ BufferInv /\ [Next]_vars => BufferInv'
<1> SUFFICES ASSUME TypeOK, BufferInv, [Next]_vars PROVE BufferInv'
  OBVIOUS
<1> USE DEF TypeOK, BufferInv, Goto, RequestPlaces,
            vars, mutexVars, engineVars, loopVars, loadVars
<1>1. ASSUME NEW r \in Requests, Load(r) PROVE BufferInv'
  BY <1>1 DEF Load
<1>2. ASSUME NEW r \in Requests, Expire(r) PROVE BufferInv'
  BY <1>2 DEF Expire
<1>3. ASSUME NEW r \in Requests, GiveUp(r) PROVE BufferInv'
  BY <1>3 DEF GiveUp, Return
<1>4. ASSUME NEW r \in Requests, Retry(r) PROVE BufferInv'
  BY <1>4 DEF Retry
<1>5. ASSUME NEW r \in Requests, Deliver(r) PROVE BufferInv'
  BY <1>5 DEF Deliver, Return
<1>6. ASSUME NEW r \in Requests, EnterRLock(r) PROVE BufferInv'
  BY <1>6 DEF EnterRLock, RLock
<1>7. ASSUME NEW r \in Requests, RejectClosed(r) PROVE BufferInv'
  BY <1>7 DEF RejectClosed, RUnlock
<1>8. ASSUME NEW r \in Requests, SeeNoEngine(r) PROVE BufferInv'
  BY <1>8 DEF SeeNoEngine, RUnlock
<1>9. ASSUME NEW r \in Requests, UseEngine(r) PROVE BufferInv'
  BY <1>9 DEF UseEngine
<1>10. ASSUME NEW r \in Requests, StartEngine(r) PROVE BufferInv'
  BY <1>10 DEF StartEngine
<1>11. ASSUME NEW r \in Requests, StartEngineFails(r) PROVE BufferInv'
  BY <1>11 DEF StartEngineFails, Unlock
<1>12. ASSUME NEW r \in Requests, EngineReady(r) PROVE BufferInv'
  BY <1>12 DEF EngineReady
<1>13. ASSUME NEW r \in Requests, EngineNotReady(r) PROVE BufferInv'
  BY <1>13 DEF EngineNotReady, Unlock
<1>14. ASSUME NEW r \in Requests, ExecuteSucceeds(r) PROVE BufferInv'
  BY <1>14 DEF ExecuteSucceeds, Copied
<1>15. ASSUME NEW r \in Requests, ExecuteFails(r) PROVE BufferInv'
  BY <1>15 DEF ExecuteFails, Copied
<1>16. ASSUME NEW r \in Requests, SendOnNil(r) PROVE BufferInv'
  BY <1>16 DEF SendOnNil
<1>17. ASSUME NEW r \in Requests, Release(r) PROVE BufferInv'
  BY <1>17 DEF Release, Unlock, RUnlock
<1>18. ASSUME NEW r \in Requests, EnterLock(r) PROVE BufferInv'
  BY <1>18 DEF EnterLock, Announce
<1>19. ASSUME NEW r \in Requests, Processed(r) PROVE BufferInv'
  BY <1>19 DEF Processed
<1>20. CASE MakeChannel
  BY <1>20 DEF MakeChannel
<1>21. CASE TakeStop
  BY <1>21 DEF TakeStop
<1>22. CASE TakeCloser
  BY <1>22 DEF TakeCloser
<1>23. CASE StopEngine
  BY <1>23 DEF StopEngine, CloseEngine, Unlock
<1>24. CASE CloseForGood
  BY <1>24 DEF CloseForGood, CloseEngine, Unlock
<1>25. CASE LoopEnterLock
  BY <1>25 DEF LoopEnterLock, Announce
<1>26. CASE TimerFires
  BY <1>26 DEF TimerFires
<1>27. CASE CancelPlanner
  BY <1>27 DEF CancelPlanner
<1>28. CASE UNCHANGED vars
  BY <1>28
<1>29. QED
  BY <1>1, <1>2, <1>3, <1>4, <1>5, <1>6, <1>7, <1>8, <1>9, <1>10, <1>11,
     <1>12, <1>13, <1>14, <1>15, <1>16, <1>17, <1>18, <1>19, <1>20, <1>21,
     <1>22, <1>23, <1>24, <1>25, <1>26, <1>27, <1>28
     DEF Next, RequestStep, LoopStep

\* A Load that succeeds delivers the response of a single Execute, however many
\* attempts broke off before it.
THEOREM DeliverySafe == Spec => []DeliversOneResponse
<1>1. Init => BufferInv
  BY DEF Init, BufferInv
<1>2. TypeOK /\ BufferInv => DeliversOneResponse
  BY DEF BufferInv, DeliversOneResponse
<1>3. QED
  BY <1>1, <1>2, BufferStep, TypeCorrect, PTL DEF Spec
-----------------------------------------------------------------------------
\* The meeting of a sender and the loop is final: no step gets a request out.
LEMMA DoomStep ==
    IInv /\ [Next]_vars => \A q \in Requests : Doomed(q) => Doomed(q)'
<1> SUFFICES ASSUME IInv, [Next]_vars, NEW q \in Requests, Doomed(q)
             PROVE Doomed(q)'
  OBVIOUS
<1> USE ConstantsAssumption
    DEF IInv, TypeOK, LockInv, InsideRead, InsideWrite, Holds, HoldsWrite, Goto,
        Doomed, NoEngine, vars, mutexVars, engineVars, loopVars, loadVars
<1>1. ASSUME NEW r \in Requests, Load(r) PROVE Doomed(q)'
  BY <1>1 DEF Load
<1>2. ASSUME NEW r \in Requests, Expire(r) PROVE Doomed(q)'
  BY <1>2 DEF Expire
<1>3. ASSUME NEW r \in Requests, GiveUp(r) PROVE Doomed(q)'
  BY <1>3 DEF GiveUp, Return
<1>4. ASSUME NEW r \in Requests, Retry(r) PROVE Doomed(q)'
  BY <1>4 DEF Retry
<1>5. ASSUME NEW r \in Requests, Deliver(r) PROVE Doomed(q)'
  BY <1>5 DEF Deliver, Return
<1>6. ASSUME NEW r \in Requests, EnterRLock(r) PROVE Doomed(q)'
  BY <1>6 DEF EnterRLock, RLock
<1>7. ASSUME NEW r \in Requests, RejectClosed(r) PROVE Doomed(q)'
  BY <1>7 DEF RejectClosed, RUnlock
<1>8. ASSUME NEW r \in Requests, SeeNoEngine(r) PROVE Doomed(q)'
  BY <1>8 DEF SeeNoEngine, RUnlock
<1>9. ASSUME NEW r \in Requests, UseEngine(r) PROVE Doomed(q)'
  BY <1>9 DEF UseEngine
<1>10. ASSUME NEW r \in Requests, StartEngine(r) PROVE Doomed(q)'
  BY <1>10 DEF StartEngine
<1>11. ASSUME NEW r \in Requests, StartEngineFails(r) PROVE Doomed(q)'
  BY <1>11 DEF StartEngineFails, Unlock
<1>12. ASSUME NEW r \in Requests, EngineReady(r) PROVE Doomed(q)'
  BY <1>12 DEF EngineReady
<1>13. ASSUME NEW r \in Requests, EngineNotReady(r) PROVE Doomed(q)'
  BY <1>13 DEF EngineNotReady, Unlock
<1>14. ASSUME NEW r \in Requests, ExecuteSucceeds(r) PROVE Doomed(q)'
  BY <1>14 DEF ExecuteSucceeds, Copied
<1>15. ASSUME NEW r \in Requests, ExecuteFails(r) PROVE Doomed(q)'
  BY <1>15 DEF ExecuteFails, Copied
<1>16. ASSUME NEW r \in Requests, SendOnNil(r) PROVE Doomed(q)'
  BY <1>16 DEF SendOnNil
<1>17. ASSUME NEW r \in Requests, Release(r) PROVE Doomed(q)'
  BY <1>17 DEF Release, Unlock, RUnlock
<1>18. ASSUME NEW r \in Requests, EnterLock(r) PROVE Doomed(q)'
  BY <1>18 DEF EnterLock, Announce
<1>19. ASSUME NEW r \in Requests, Processed(r) PROVE Doomed(q)'
  BY <1>19 DEF Processed
<1>20. CASE MakeChannel
  BY <1>20 DEF MakeChannel
<1>21. CASE TakeStop
  BY <1>21 DEF TakeStop
<1>22. CASE TakeCloser
  BY <1>22 DEF TakeCloser
<1>23. CASE StopEngine
  BY <1>23 DEF StopEngine, CloseEngine, Unlock
<1>24. CASE CloseForGood
  BY <1>24 DEF CloseForGood, CloseEngine, Unlock
<1>25. CASE LoopEnterLock
  BY <1>25 DEF LoopEnterLock, Announce
<1>26. CASE TimerFires
  BY <1>26 DEF TimerFires
<1>27. CASE CancelPlanner
  BY <1>27 DEF CancelPlanner
<1>28. CASE UNCHANGED vars
  BY <1>28
<1>29. QED
  BY <1>1, <1>2, <1>3, <1>4, <1>5, <1>6, <1>7, <1>8, <1>9, <1>10, <1>11,
     <1>12, <1>13, <1>14, <1>15, <1>16, <1>17, <1>18, <1>19, <1>20, <1>21,
     <1>22, <1>23, <1>24, <1>25, <1>26, <1>27, <1>28
     DEF Next, RequestStep, LoopStep

\* sendRequestProcessed under the lock and Lock in the loop: a request caught
\* between the two is caught for ever, whatever its context does.
THEOREM DoomFinal == Spec => DoomIsForever
<1>1. IInv /\ [Next]_vars => [\A r \in Requests : Doomed(r) => Doomed(r)']_vars
  BY DoomStep
<1>2. QED
  BY <1>1, InductiveInvariant, PTL DEF Spec, DoomIsForever
-----------------------------------------------------------------------------
\* Every step of a LazyEngine installs or removes an engine that nobody uses,
\* begins or ends the use of the one there is, or is invisible to the users.
LEMMA SlotRefinementStep == IInv /\ [Next]_vars => [Slot!Next]_(Slot!slotVars)
<1> DEFINE Users == {q \in Requests : pc[q] = "exec"}
<1> SUFFICES ASSUME IInv, [Next]_vars
             PROVE  \/ UNCHANGED <<engine, Users>>
                    \/ Users = {} /\ Users' = {} /\ engine' \in Nat \ {engine}
                    \/ /\ engine # 0 /\ engine' = engine
                       /\ \E r \in Requests : \/ r \notin Users /\ Users' = Users \cup {r}
                                              \/ r \in Users /\ Users' = Users \ {r}
  BY DEF Slot!Next, Slot!Install, Slot!Enter, Slot!Leave, Slot!slotVars
<1> USE ConstantsAssumption
    DEF IInv, TypeOK, LockInv, SlotInv, InsideRead, InsideWrite, Holds, HoldsWrite, Goto,
        NoEngine, Engines, vars, mutexVars, engineVars, loopVars, loadVars
<1>1. ASSUME NEW r \in Requests, Load(r)
      PROVE  UNCHANGED <<engine, Users>>
  BY <1>1 DEF Load
<1>2. ASSUME NEW r \in Requests, Expire(r)
      PROVE  UNCHANGED <<engine, Users>>
  BY <1>2 DEF Expire
<1>3. ASSUME NEW r \in Requests, GiveUp(r)
      PROVE  UNCHANGED <<engine, Users>>
  BY <1>3 DEF GiveUp, Return
<1>4. ASSUME NEW r \in Requests, Retry(r)
      PROVE  UNCHANGED <<engine, Users>>
  BY <1>4 DEF Retry
<1>5. ASSUME NEW r \in Requests, Deliver(r)
      PROVE  UNCHANGED <<engine, Users>>
  BY <1>5 DEF Deliver, Return
<1>6. ASSUME NEW r \in Requests, EnterRLock(r)
      PROVE  UNCHANGED <<engine, Users>>
  BY <1>6 DEF EnterRLock, RLock
<1>7. ASSUME NEW r \in Requests, RejectClosed(r)
      PROVE  UNCHANGED <<engine, Users>>
  BY <1>7 DEF RejectClosed, RUnlock
<1>8. ASSUME NEW r \in Requests, SeeNoEngine(r)
      PROVE  UNCHANGED <<engine, Users>>
  BY <1>8 DEF SeeNoEngine, RUnlock
<1>9. ASSUME NEW r \in Requests, UseEngine(r)
      PROVE  engine # 0 /\ engine' = engine /\ r \notin Users /\ Users' = Users \cup {r}
  BY <1>9 DEF UseEngine
<1>10. ASSUME NEW r \in Requests, StartEngine(r)
      PROVE  Users = {} /\ Users' = {} /\ engine' \in Nat
  BY <1>10 DEF StartEngine
<1>11. ASSUME NEW r \in Requests, StartEngineFails(r)
      PROVE  Users = {} /\ Users' = {} /\ engine' \in Nat
  BY <1>11 DEF StartEngineFails, Unlock
<1>12. ASSUME NEW r \in Requests, EngineReady(r)
      PROVE  engine # 0 /\ engine' = engine /\ r \notin Users /\ Users' = Users \cup {r}
  BY <1>12 DEF EngineReady
<1>13. ASSUME NEW r \in Requests, EngineNotReady(r)
      PROVE  UNCHANGED <<engine, Users>>
  BY <1>13 DEF EngineNotReady, Unlock
<1>14. ASSUME NEW r \in Requests, ExecuteSucceeds(r)
      PROVE  engine # 0 /\ engine' = engine /\ r \in Users /\ Users' = Users \ {r}
  BY <1>14 DEF ExecuteSucceeds, Copied
<1>15. ASSUME NEW r \in Requests, ExecuteFails(r)
      PROVE  engine # 0 /\ engine' = engine /\ r \in Users /\ Users' = Users \ {r}
  BY <1>15 DEF ExecuteFails, Copied
<1>16. ASSUME NEW r \in Requests, SendOnNil(r)
      PROVE  UNCHANGED <<engine, Users>>
  BY <1>16 DEF SendOnNil
<1>17. ASSUME NEW r \in Requests, Release(r)
      PROVE  UNCHANGED <<engine, Users>>
  BY <1>17 DEF Release, Unlock, RUnlock
<1>18. ASSUME NEW r \in Requests, EnterLock(r)
      PROVE  UNCHANGED <<engine, Users>>
  BY <1>18 DEF EnterLock, Announce
<1>19. ASSUME NEW r \in Requests, Processed(r)
      PROVE  UNCHANGED <<engine, Users>>
  BY <1>19 DEF Processed
<1>20. ASSUME MakeChannel
      PROVE  UNCHANGED <<engine, Users>>
  BY <1>20 DEF MakeChannel
<1>21. ASSUME TakeStop
      PROVE  UNCHANGED <<engine, Users>>
  BY <1>21 DEF TakeStop
<1>22. ASSUME TakeCloser
      PROVE  UNCHANGED <<engine, Users>>
  BY <1>22 DEF TakeCloser
<1>23. ASSUME StopEngine
      PROVE  Users = {} /\ Users' = {} /\ engine' \in Nat
  BY <1>23 DEF StopEngine, CloseEngine, Unlock
<1>24. ASSUME CloseForGood
      PROVE  Users = {} /\ Users' = {} /\ engine' \in Nat
  BY <1>24 DEF CloseForGood, CloseEngine, Unlock
<1>25. ASSUME LoopEnterLock
      PROVE  UNCHANGED <<engine, Users>>
  BY <1>25 DEF LoopEnterLock, Announce
<1>26. ASSUME TimerFires
      PROVE  UNCHANGED <<engine, Users>>
  BY <1>26 DEF TimerFires
<1>27. ASSUME CancelPlanner
      PROVE  UNCHANGED <<engine, Users>>
  BY <1>27 DEF CancelPlanner
<1>28. CASE UNCHANGED vars
  BY <1>28
<1> HIDE DEF Users, IInv, TypeOK, LockInv, SlotInv
<1>29. QED
  BY <1>1, <1>2, <1>3, <1>4, <1>5, <1>6, <1>7, <1>8, <1>9, <1>10, <1>11,
     <1>12, <1>13, <1>14, <1>15, <1>16, <1>17, <1>18, <1>19, <1>20, <1>21,
     <1>22, <1>23, <1>24, <1>25, <1>26, <1>27, <1>28
     DEF Next, RequestStep, LoopStep

\* A LazyEngine implements the slot its users rely on.
THEOREM SlotRefinement == Spec => SlotSpec
<1>1. Init => Slot!Init
  BY DEF Init, Slot!Init, NoEngine
<1>2. QED
  BY <1>1, SlotRefinementStep, InductiveInvariant, PTL DEF Spec, SlotSpec, Slot!Spec
-----------------------------------------------------------------------------
(* No other deadlock.  A request waits for the lock where it blocks in RLock, *)
(* in either phase of Lock, and for the loop where it sends to one that is    *)
(* not in its select; everywhere else it has a step to take.                  *)

WaitsForLock(r) ==
    \/ pc[r] = "lock" /\ writer # Nobody
    \/ pc[r] = "check" /\ r \in blocked
    \/ pc[r] = "init" /\ ~HoldsWrite(r)

WaitsForLoop(r) ==
    \/ pc[r] = "stuck"
    \/ pc[r] = "send" /\ loop \notin {"make", "select"}

\* Every Load under way waits, and the loop does not hold the lock either.
AllWait ==
    /\ ~Idle
    /\ \A r \in Requests : pc[r] # "idle" => WaitsForLock(r) \/ WaitsForLoop(r)
    /\ ~HoldsWrite(Loop)

\* The lock alone never deadlocks, between two requests or between a request
\* and the loop: when all wait, one of them is caught in sendRequestProcessed.
HangIsDoom == AllWait => \E r \in Requests : Doomed(r)

\* Readers are only kept waiting by a writer.
BlockedInv == writer = Nobody => blocked = {}

\* RLock blocks behind an announced writer, and Unlock admits all it blocked.
LEMMA BlockedStep == TypeOK /\ BlockedInv /\ [Next]_vars => BlockedInv'
<1> SUFFICES ASSUME TypeOK, BlockedInv, [Next]_vars PROVE BlockedInv'
  OBVIOUS
<1> USE ConstantsAssumption
    DEF TypeOK, BlockedInv, HoldsWrite, vars, mutexVars
<1>1. ASSUME NEW r \in Requests, RequestStep(r) PROVE BlockedInv'
  <2>1. CASE EnterRLock(r)
    BY <2>1 DEF EnterRLock, RLock
  <2>2. CASE RejectClosed(r) \/ SeeNoEngine(r)
    BY <2>2 DEF RejectClosed, SeeNoEngine, RUnlock
  <2>3. CASE StartEngineFails(r) \/ EngineNotReady(r)
    BY <2>3 DEF StartEngineFails, EngineNotReady, Unlock
  <2>4. CASE Release(r)
    BY <2>4 DEF Release, Unlock, RUnlock
  <2>5. CASE GiveUp(r) \/ Retry(r) \/ Deliver(r)
    BY <2>5 DEF GiveUp, Retry, Deliver, Return
  <2>6. CASE UseEngine(r) \/ StartEngine(r) \/ EngineReady(r)
    BY <2>6 DEF UseEngine, StartEngine, EngineReady
  <2>7. CASE ExecuteSucceeds(r) \/ ExecuteFails(r) \/ SendOnNil(r)
    BY <2>7 DEF ExecuteSucceeds, ExecuteFails, SendOnNil
  <2>8. QED
    BY <1>1, <2>1, <2>2, <2>3, <2>4, <2>5, <2>6, <2>7 DEF RequestStep
<1>2. ASSUME NEW r \in Requests,
             Load(r) \/ Expire(r) \/ EnterLock(r) \/ Processed(r)
      PROVE BlockedInv'
  BY <1>2 DEF Load, Expire, EnterLock, Announce, Processed
<1>3. CASE LoopStep
  BY <1>3 DEF LoopStep, MakeChannel, TakeStop, TakeCloser, StopEngine,
              CloseForGood, Unlock
<1>4. CASE LoopEnterLock \/ TimerFires \/ CancelPlanner
  BY <1>4 DEF LoopEnterLock, Announce, TimerFires, CancelPlanner
<1>5. CASE UNCHANGED vars
  BY <1>5
<1>6. QED
  BY <1>1, <1>2, <1>3, <1>4, <1>5 DEF Next

\* A reader that waits waits for the loop: the lock is its own already.
LEMMA WaitingReaderIsDoomed ==
    ASSUME IInv, AllWait, NEW q \in readers
    PROVE  Doomed(q)
<1>1. q \in Requests /\ q \notin blocked /\ pc[q] \in InsideRead
  BY DEF IInv, TypeOK, LockInv
<1>2. WaitsForLock(q) \/ WaitsForLoop(q)
  BY <1>1 DEF AllWait, InsideRead
<1>3. WaitsForLoop(q)
  BY <1>1, <1>2 DEF WaitsForLock, InsideRead
<1>4. QED
  BY <1>3 DEF WaitsForLoop, Doomed, Holds

\* Whoever the others wait for is the announced writer, and that one waits for
\* the readers that were there before it, or for the loop.
LEMMA WaitingIsDoom == IInv /\ BlockedInv => HangIsDoom
<1> SUFFICES ASSUME IInv, BlockedInv, AllWait
             PROVE \E r \in Requests : Doomed(r)
  BY DEF HangIsDoom
<1>1. CASE readers # {}
  <2>1. PICK q \in readers : TRUE
    BY <1>1
  <2>2. q \in Requests
    BY DEF IInv, TypeOK
  <2>3. QED
    BY <2>1, <2>2, WaitingReaderIsDoomed
<1>2. CASE readers = {}
  <2>1. PICK p \in Requests : pc[p] # "idle"
    BY DEF AllWait, Idle
  <2>2. CASE WaitsForLoop(p)
    BY <2>2, <2>1 DEF WaitsForLoop, Doomed, IInv, LockInv
  <2>3. CASE WaitsForLock(p)
    <3>1. writer # Nobody
      BY <1>2, <2>1, <2>3 DEF WaitsForLock, BlockedInv, IInv, LockInv, HoldsWrite
    <3>2. writer \in Requests
      BY <1>2, <3>1 DEF AllWait, HoldsWrite, IInv, TypeOK
    <3>3. PICK w \in Requests : w = writer
      BY <3>2
    <3>4. HoldsWrite(w) /\ w \notin blocked /\ pc[w] \in InsideWrite
      BY <1>2, <3>3 DEF HoldsWrite, IInv, LockInv, InsideWrite
    <3>5. WaitsForLoop(w)
      BY <3>1, <3>3, <3>4 DEF AllWait, WaitsForLock, InsideWrite
    <3>6. QED
      BY <3>4, <3>5 DEF WaitsForLoop, Doomed, Holds
  <2>4. QED
    BY <2>1, <2>2, <2>3 DEF AllWait
<1>3. QED
  BY <1>1, <1>2

\* The safety half of LoadReturns: Execute, initEngineAndExecute and the two
\* closing cases of Start never wait for each other in a circle of the lock
\* alone; a hang always has a request that sends with the lock held.
THEOREM OnlyDoomHangs == Spec => []HangIsDoom
<1>1. Init => BlockedInv
  BY DEF Init, MutexInit, BlockedInv
<1>2. QED
  BY <1>1, BlockedStep, WaitingIsDoom, InductiveInvariant, TypeCorrect, PTL DEF Spec
=============================================================================
