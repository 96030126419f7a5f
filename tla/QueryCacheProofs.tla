-------------------------- MODULE QueryCacheProofs --------------------------
(***************************************************************************)
(* Proofs about QueryCache, for any set of requests, keys and buffers, and *)
(* any cache configuration.                                                *)
(***************************************************************************)
EXTENDS QueryCache, TLAPS

\* Until its deferred calls run, a handler holds the buffer of its variables.
HoldsVariables(r) ==
    pc[r] \in {"lookup", "resolve", "transform", "store", "release"}

\* No other handler holds that buffer, nobody can take it from the pool, and it
\* contains what its holder wrote.
BuffersAreOwned ==
    /\ \A r \in Requests :
          HoldsVariables(r) => vars[r] \in Buffers \ free /\ mem[vars[r]] = key[r]
    /\ \A r, s \in Requests :
          r # s /\ HoldsVariables(r) /\ HoldsVariables(s) => vars[r] # vars[s]

\* Whoever revalidates once had a buffer, and it still contains somebody's
\* variables.
StaleHasVariables ==
    \A r \in Requests :
        /\ vars[r] # None => mem[vars[r]] \in Keys
        /\ stale[r] => vars[r] # None

\* What a handler has resolved, as far as it has come.
OutIsOwn ==
    \A r \in Requests :
        /\ IF pc[r] = "idle" THEN answer[r] = NoAnswer ELSE key[r] \in Keys
        /\ since[r] <= version
        /\ pc[r] \in {"transform", "store"} =>
              /\ out[r] \in Result
              /\ out[r].key = key[r]
              /\ out[r].version \in since[r] .. version
        /\ pc[r] = "store" => out[r].form = "final"
        /\ pc[r] = "revalidated" => out[r] \in Result

\* Every item was stored with the operation's time to live.
ItemsExpire == \A k \in Keys : cache[k] # None => cache[k].ttl = Ttl

IInv ==
    /\ TypeOK
    /\ BuffersAreOwned
    /\ StaleHasVariables
    /\ OutIsOwn
    /\ ItemsExpire
    /\ MissAnswersOwnResult
    /\ HitIsWithinTtl
-----------------------------------------------------------------------------
\* Every step keeps the types; a stale item is resolved anew with some request's
\* variables (Revalidate), never with a buffer nobody wrote to.
LEMMA TypeStep == IInv /\ [Next]_allVars => TypeOK'
<1> SUFFICES ASSUME IInv, [Next]_allVars PROVE TypeOK'
  OBVIOUS
<1> USE CacheAssumption
    DEF IInv, TypeOK, StaleHasVariables, OutIsOwn, NoAnswer, Goto, locals,
        store, allVars, Result, Item, Answer, Stages, Ttl, BuffersAreOwned,
        HoldsVariables
<1>1. ASSUME NEW r \in Requests, NEW k \in Keys, Begin(r, k) PROVE TypeOK'
  BY <1>1 DEF Begin
<1>2. ASSUME NEW r \in Requests, Reject(r) PROVE TypeOK'
  BY <1>2 DEF Reject
<1>3. ASSUME NEW r \in Requests, Compact(r) PROVE TypeOK'
  BY <1>3 DEF Compact
<1>4. ASSUME NEW r \in Requests, Hit(r) PROVE TypeOK'
  BY <1>4 DEF Hit, Alive
<1>5. ASSUME NEW r \in Requests, Miss(r) PROVE TypeOK'
  BY <1>5 DEF Miss
<1>6. ASSUME NEW r \in Requests, HookAnswers(r) PROVE TypeOK'
  BY <1>6 DEF HookAnswers
<1>7. ASSUME NEW r \in Requests, Fail(r) PROVE TypeOK'
  BY <1>7 DEF Fail
<1>8. ASSUME NEW r \in Requests, Resolve(r) PROVE TypeOK'
  BY <1>8 DEF Resolve, Resolved
<1>9. ASSUME NEW r \in Requests, Transform(r) PROVE TypeOK'
  BY <1>9 DEF Transform
<1>10. ASSUME NEW r \in Requests, StoreAndWrite(r) PROVE TypeOK'
  <2>1. out[r] \in Result /\ key[r] \in Keys
    BY <1>10 DEF StoreAndWrite
  <2>2. cache' \in [Keys -> Item \cup {None}]
    BY <1>10, <2>1 DEF StoreAndWrite, SetWithTTL
  <2>3. [kind |-> "miss", data |-> out[r]] \in Answer
    BY <2>1
  <2>4. QED
    BY <1>10, <2>2, <2>3 DEF StoreAndWrite
<1>11. ASSUME NEW r \in Requests, Release(r) PROVE TypeOK'
  BY <1>11 DEF Release
<1>12. ASSUME NEW r \in Requests, Revalidate(r) PROVE TypeOK'
  BY <1>12 DEF Revalidate, Resolved
<1>13. ASSUME NEW r \in Requests, StoreRevalidated(r) PROVE TypeOK'
  BY <1>13 DEF StoreRevalidated, SetWithTTL
<1>14. ASSUME NEW r \in Requests, SkipRevalidation(r) PROVE TypeOK'
  BY <1>14 DEF SkipRevalidation
<1>15. ASSUME NEW r \in Requests, End(r) PROVE TypeOK'
  BY <1>15 DEF End
<1>16. CASE Tick
  BY <1>16 DEF Tick
<1>17. ASSUME NEW k \in Keys, Evict(k) PROVE TypeOK'
  BY <1>17 DEF Evict
<1>18. CASE Update
  BY <1>18 DEF Update
<1>19. CASE UNCHANGED allVars
  BY <1>19
<1>20. QED
  BY <1>1, <1>2, <1>3, <1>4, <1>5, <1>6, <1>7, <1>8, <1>9, <1>10, <1>11,
     <1>12, <1>13, <1>14, <1>15, <1>16, <1>17, <1>18, <1>19
     DEF Next, Handle

\* Every step keeps the buffers owned: Compact takes one out of the pool, and only
\* the deferred put (Release) returns it.
LEMMA BuffersStep == IInv /\ [Next]_allVars => BuffersAreOwned'
<1> SUFFICES ASSUME IInv, [Next]_allVars PROVE BuffersAreOwned'
  OBVIOUS
<1> USE CacheAssumption
    DEF IInv, TypeOK, BuffersAreOwned, HoldsVariables, OutIsOwn, NoAnswer,
        Goto, locals, store, allVars
<1>1. ASSUME NEW r \in Requests, NEW k \in Keys, Begin(r, k) PROVE BuffersAreOwned'
  BY <1>1 DEF Begin
<1>2. ASSUME NEW r \in Requests, Reject(r) PROVE BuffersAreOwned'
  BY <1>2 DEF Reject
<1>3. ASSUME NEW r \in Requests, Compact(r) PROVE BuffersAreOwned'
  BY <1>3 DEF Compact
<1>4. ASSUME NEW r \in Requests, Hit(r) PROVE BuffersAreOwned'
  BY <1>4 DEF Hit, Alive
<1>5. ASSUME NEW r \in Requests, Miss(r) PROVE BuffersAreOwned'
  BY <1>5 DEF Miss
<1>6. ASSUME NEW r \in Requests, HookAnswers(r) PROVE BuffersAreOwned'
  BY <1>6 DEF HookAnswers
<1>7. ASSUME NEW r \in Requests, Fail(r) PROVE BuffersAreOwned'
  BY <1>7 DEF Fail
<1>8. ASSUME NEW r \in Requests, Resolve(r) PROVE BuffersAreOwned'
  BY <1>8 DEF Resolve, Resolved
<1>9. ASSUME NEW r \in Requests, Transform(r) PROVE BuffersAreOwned'
  BY <1>9 DEF Transform
<1>10. ASSUME NEW r \in Requests, StoreAndWrite(r) PROVE BuffersAreOwned'
  BY <1>10 DEF StoreAndWrite, SetWithTTL
<1>11. ASSUME NEW r \in Requests, Release(r) PROVE BuffersAreOwned'
  BY <1>11 DEF Release
<1>12. ASSUME NEW r \in Requests, Revalidate(r) PROVE BuffersAreOwned'
  BY <1>12 DEF Revalidate, Resolved
<1>13. ASSUME NEW r \in Requests, StoreRevalidated(r) PROVE BuffersAreOwned'
  BY <1>13 DEF StoreRevalidated, SetWithTTL
<1>14. ASSUME NEW r \in Requests, SkipRevalidation(r) PROVE BuffersAreOwned'
  BY <1>14 DEF SkipRevalidation
<1>15. ASSUME NEW r \in Requests, End(r) PROVE BuffersAreOwned'
  BY <1>15 DEF End
<1>16. CASE Tick
  BY <1>16 DEF Tick
<1>17. ASSUME NEW k \in Keys, Evict(k) PROVE BuffersAreOwned'
  BY <1>17 DEF Evict
<1>18. CASE Update
  BY <1>18 DEF Update
<1>19. CASE UNCHANGED allVars
  BY <1>19
<1>20. QED
  BY <1>1, <1>2, <1>3, <1>4, <1>5, <1>6, <1>7, <1>8, <1>9, <1>10, <1>11,
     <1>12, <1>13, <1>14, <1>15, <1>16, <1>17, <1>18, <1>19
     DEF Next, Handle

\* Every step keeps variables, if not its own, for whoever may revalidate.
LEMMA StaleStep == IInv /\ [Next]_allVars => StaleHasVariables'
<1> SUFFICES ASSUME IInv, [Next]_allVars PROVE StaleHasVariables'
  OBVIOUS
<1> USE CacheAssumption
    DEF IInv, TypeOK, BuffersAreOwned, HoldsVariables, StaleHasVariables,
        OutIsOwn, NoAnswer, Goto, locals, store, allVars
<1>1. ASSUME NEW r \in Requests, NEW k \in Keys, Begin(r, k) PROVE StaleHasVariables'
  BY <1>1 DEF Begin
<1>2. ASSUME NEW r \in Requests, Reject(r) PROVE StaleHasVariables'
  BY <1>2 DEF Reject
<1>3. ASSUME NEW r \in Requests, Compact(r) PROVE StaleHasVariables'
  BY <1>3 DEF Compact
<1>4. ASSUME NEW r \in Requests, Hit(r) PROVE StaleHasVariables'
  BY <1>4 DEF Hit, Alive
<1>5. ASSUME NEW r \in Requests, Miss(r) PROVE StaleHasVariables'
  BY <1>5 DEF Miss
<1>6. ASSUME NEW r \in Requests, HookAnswers(r) PROVE StaleHasVariables'
  BY <1>6 DEF HookAnswers
<1>7. ASSUME NEW r \in Requests, Fail(r) PROVE StaleHasVariables'
  BY <1>7 DEF Fail
<1>8. ASSUME NEW r \in Requests, Resolve(r) PROVE StaleHasVariables'
  BY <1>8 DEF Resolve, Resolved
<1>9. ASSUME NEW r \in Requests, Transform(r) PROVE StaleHasVariables'
  BY <1>9 DEF Transform
<1>10. ASSUME NEW r \in Requests, StoreAndWrite(r) PROVE StaleHasVariables'
  BY <1>10 DEF StoreAndWrite, SetWithTTL
<1>11. ASSUME NEW r \in Requests, Release(r) PROVE StaleHasVariables'
  BY <1>11 DEF Release
<1>12. ASSUME NEW r \in Requests, Revalidate(r) PROVE StaleHasVariables'
  BY <1>12 DEF Revalidate, Resolved
<1>13. ASSUME NEW r \in Requests, StoreRevalidated(r) PROVE StaleHasVariables'
  BY <1>13 DEF StoreRevalidated, SetWithTTL
<1>14. ASSUME NEW r \in Requests, SkipRevalidation(r) PROVE StaleHasVariables'
  BY <1>14 DEF SkipRevalidation
<1>15. ASSUME NEW r \in Requests, End(r) PROVE StaleHasVariables'
  BY <1>15 DEF End
<1>16. CASE Tick
  BY <1>16 DEF Tick
<1>17. ASSUME NEW k \in Keys, Evict(k) PROVE StaleHasVariables'
  BY <1>17 DEF Evict
<1>18. CASE Update
  BY <1>18 DEF Update
<1>19. CASE UNCHANGED allVars
  BY <1>19
<1>20. QED
  BY <1>1, <1>2, <1>3, <1>4, <1>5, <1>6, <1>7, <1>8, <1>9, <1>10, <1>11,
     <1>12, <1>13, <1>14, <1>15, <1>16, <1>17, <1>18, <1>19
     DEF Next, Handle

\* Every step keeps what a handler resolved its own until it is sent.
LEMMA OutStep == IInv /\ [Next]_allVars => OutIsOwn'
<1> SUFFICES ASSUME IInv, [Next]_allVars PROVE OutIsOwn'
  OBVIOUS
<1> USE CacheAssumption
    DEF IInv, TypeOK, BuffersAreOwned, HoldsVariables, StaleHasVariables,
        OutIsOwn, Result, NoAnswer, Goto, locals, store, allVars
<1>1. ASSUME NEW r \in Requests, NEW k \in Keys, Begin(r, k) PROVE OutIsOwn'
  BY <1>1 DEF Begin
<1>2. ASSUME NEW r \in Requests, Reject(r) PROVE OutIsOwn'
  BY <1>2 DEF Reject
<1>3. ASSUME NEW r \in Requests, Compact(r) PROVE OutIsOwn'
  BY <1>3 DEF Compact
<1>4. ASSUME NEW r \in Requests, Hit(r) PROVE OutIsOwn'
  BY <1>4 DEF Hit, Alive
<1>5. ASSUME NEW r \in Requests, Miss(r) PROVE OutIsOwn'
  BY <1>5 DEF Miss
<1>6. ASSUME NEW r \in Requests, HookAnswers(r) PROVE OutIsOwn'
  BY <1>6 DEF HookAnswers
<1>7. ASSUME NEW r \in Requests, Fail(r) PROVE OutIsOwn'
  BY <1>7 DEF Fail
<1>8. ASSUME NEW r \in Requests, Resolve(r) PROVE OutIsOwn'
  BY <1>8 DEF Resolve, Resolved
<1>9. ASSUME NEW r \in Requests, Transform(r) PROVE OutIsOwn'
  BY <1>9 DEF Transform
<1>10. ASSUME NEW r \in Requests, StoreAndWrite(r) PROVE OutIsOwn'
  BY <1>10 DEF StoreAndWrite, SetWithTTL
<1>11. ASSUME NEW r \in Requests, Release(r) PROVE OutIsOwn'
  BY <1>11 DEF Release
<1>12. ASSUME NEW r \in Requests, Revalidate(r) PROVE OutIsOwn'
  BY <1>12 DEF Revalidate, Resolved
<1>13. ASSUME NEW r \in Requests, StoreRevalidated(r) PROVE OutIsOwn'
  BY <1>13 DEF StoreRevalidated, SetWithTTL
<1>14. ASSUME NEW r \in Requests, SkipRevalidation(r) PROVE OutIsOwn'
  BY <1>14 DEF SkipRevalidation
<1>15. ASSUME NEW r \in Requests, End(r) PROVE OutIsOwn'
  BY <1>15 DEF End
<1>16. CASE Tick
  BY <1>16 DEF Tick
<1>17. ASSUME NEW k \in Keys, Evict(k) PROVE OutIsOwn'
  BY <1>17 DEF Evict
<1>18. CASE Update
  BY <1>18 DEF Update
<1>19. CASE UNCHANGED allVars
  BY <1>19
<1>20. QED
  BY <1>1, <1>2, <1>3, <1>4, <1>5, <1>6, <1>7, <1>8, <1>9, <1>10, <1>11,
     <1>12, <1>13, <1>14, <1>15, <1>16, <1>17, <1>18, <1>19
     DEF Next, Handle

\* Every step keeps the time to live on the items (SetWithTTL).
LEMMA ItemsStep == IInv /\ [Next]_allVars => ItemsExpire'
<1> SUFFICES ASSUME IInv, [Next]_allVars PROVE ItemsExpire'
  OBVIOUS
<1> USE CacheAssumption
    DEF IInv, TypeOK, ItemsExpire, Item, Result, Ttl, Goto, locals, store,
        allVars
<1>1. ASSUME NEW r \in Requests, NEW k \in Keys, Begin(r, k) PROVE ItemsExpire'
  BY <1>1 DEF Begin
<1>2. ASSUME NEW r \in Requests, Reject(r) PROVE ItemsExpire'
  BY <1>2 DEF Reject
<1>3. ASSUME NEW r \in Requests, Compact(r) PROVE ItemsExpire'
  BY <1>3 DEF Compact
<1>4. ASSUME NEW r \in Requests, Hit(r) PROVE ItemsExpire'
  BY <1>4 DEF Hit, Alive
<1>5. ASSUME NEW r \in Requests, Miss(r) PROVE ItemsExpire'
  BY <1>5 DEF Miss
<1>6. ASSUME NEW r \in Requests, HookAnswers(r) PROVE ItemsExpire'
  BY <1>6 DEF HookAnswers
<1>7. ASSUME NEW r \in Requests, Fail(r) PROVE ItemsExpire'
  BY <1>7 DEF Fail
<1>8. ASSUME NEW r \in Requests, Resolve(r) PROVE ItemsExpire'
  BY <1>8 DEF Resolve, Resolved
<1>9. ASSUME NEW r \in Requests, Transform(r) PROVE ItemsExpire'
  BY <1>9 DEF Transform
<1>10. ASSUME NEW r \in Requests, StoreAndWrite(r) PROVE ItemsExpire'
  BY <1>10 DEF StoreAndWrite, SetWithTTL
<1>11. ASSUME NEW r \in Requests, Release(r) PROVE ItemsExpire'
  BY <1>11 DEF Release
<1>12. ASSUME NEW r \in Requests, Revalidate(r) PROVE ItemsExpire'
  BY <1>12 DEF Revalidate, Resolved
<1>13. ASSUME NEW r \in Requests, StoreRevalidated(r) PROVE ItemsExpire'
  BY <1>13 DEF StoreRevalidated, SetWithTTL
<1>14. ASSUME NEW r \in Requests, SkipRevalidation(r) PROVE ItemsExpire'
  BY <1>14 DEF SkipRevalidation
<1>15. ASSUME NEW r \in Requests, End(r) PROVE ItemsExpire'
  BY <1>15 DEF End
<1>16. CASE Tick
  BY <1>16 DEF Tick
<1>17. ASSUME NEW k \in Keys, Evict(k) PROVE ItemsExpire'
  BY <1>17 DEF Evict
<1>18. CASE Update
  BY <1>18 DEF Update
<1>19. CASE UNCHANGED allVars
  BY <1>19
<1>20. QED
  BY <1>1, <1>2, <1>3, <1>4, <1>5, <1>6, <1>7, <1>8, <1>9, <1>10, <1>11,
     <1>12, <1>13, <1>14, <1>15, <1>16, <1>17, <1>18, <1>19
     DEF Next, Handle

\* Every step keeps the answers of the misses the requests' own (StoreAndWrite).
LEMMA MissStep == IInv /\ [Next]_allVars => MissAnswersOwnResult'
<1> SUFFICES ASSUME IInv, [Next]_allVars PROVE MissAnswersOwnResult'
  OBVIOUS
<1> USE CacheAssumption
    DEF IInv, TypeOK, OutIsOwn, MissAnswersOwnResult, NoAnswer, Goto, locals,
        store, allVars
<1>1. ASSUME NEW r \in Requests, NEW k \in Keys, Begin(r, k) PROVE MissAnswersOwnResult'
  BY <1>1 DEF Begin
<1>2. ASSUME NEW r \in Requests, Reject(r) PROVE MissAnswersOwnResult'
  BY <1>2 DEF Reject
<1>3. ASSUME NEW r \in Requests, Compact(r) PROVE MissAnswersOwnResult'
  BY <1>3 DEF Compact
<1>4. ASSUME NEW r \in Requests, Hit(r) PROVE MissAnswersOwnResult'
  BY <1>4 DEF Hit, Alive
<1>5. ASSUME NEW r \in Requests, Miss(r) PROVE MissAnswersOwnResult'
  BY <1>5 DEF Miss
<1>6. ASSUME NEW r \in Requests, HookAnswers(r) PROVE MissAnswersOwnResult'
  BY <1>6 DEF HookAnswers
<1>7. ASSUME NEW r \in Requests, Fail(r) PROVE MissAnswersOwnResult'
  BY <1>7 DEF Fail
<1>8. ASSUME NEW r \in Requests, Resolve(r) PROVE MissAnswersOwnResult'
  BY <1>8 DEF Resolve, Resolved
<1>9. ASSUME NEW r \in Requests, Transform(r) PROVE MissAnswersOwnResult'
  BY <1>9 DEF Transform
<1>10. ASSUME NEW r \in Requests, StoreAndWrite(r) PROVE MissAnswersOwnResult'
  BY <1>10 DEF StoreAndWrite, SetWithTTL
<1>11. ASSUME NEW r \in Requests, Release(r) PROVE MissAnswersOwnResult'
  BY <1>11 DEF Release
<1>12. ASSUME NEW r \in Requests, Revalidate(r) PROVE MissAnswersOwnResult'
  BY <1>12 DEF Revalidate, Resolved
<1>13. ASSUME NEW r \in Requests, StoreRevalidated(r) PROVE MissAnswersOwnResult'
  BY <1>13 DEF StoreRevalidated, SetWithTTL
<1>14. ASSUME NEW r \in Requests, SkipRevalidation(r) PROVE MissAnswersOwnResult'
  BY <1>14 DEF SkipRevalidation
<1>15. ASSUME NEW r \in Requests, End(r) PROVE MissAnswersOwnResult'
  BY <1>15 DEF End
<1>16. CASE Tick
  BY <1>16 DEF Tick
<1>17. ASSUME NEW k \in Keys, Evict(k) PROVE MissAnswersOwnResult'
  BY <1>17 DEF Evict
<1>18. CASE Update
  BY <1>18 DEF Update
<1>19. CASE UNCHANGED allVars
  BY <1>19
<1>20. QED
  BY <1>1, <1>2, <1>3, <1>4, <1>5, <1>6, <1>7, <1>8, <1>9, <1>10, <1>11,
     <1>12, <1>13, <1>14, <1>15, <1>16, <1>17, <1>18, <1>19
     DEF Next, Handle

\* Every step keeps the answers from the cache within the time to live (Hit).
LEMMA HitStep == IInv /\ [Next]_allVars => HitIsWithinTtl'
<1> SUFFICES ASSUME IInv, [Next]_allVars PROVE HitIsWithinTtl'
  OBVIOUS
<1> USE CacheAssumption
    DEF IInv, TypeOK, ItemsExpire, HitIsWithinTtl, NoAnswer, Item, Ttl, Goto,
        locals, store, allVars
<1>1. ASSUME NEW r \in Requests, NEW k \in Keys, Begin(r, k) PROVE HitIsWithinTtl'
  BY <1>1 DEF Begin
<1>2. ASSUME NEW r \in Requests, Reject(r) PROVE HitIsWithinTtl'
  BY <1>2 DEF Reject
<1>3. ASSUME NEW r \in Requests, Compact(r) PROVE HitIsWithinTtl'
  BY <1>3 DEF Compact
<1>4. ASSUME NEW r \in Requests, Hit(r) PROVE HitIsWithinTtl'
  <2>1. /\ cache[key[r]] # None
        /\ cache[key[r]].ttl = 0 \/ cache[key[r]].age <= cache[key[r]].ttl
    BY <1>4 DEF Hit, Alive
  <2>2. key[r] \in Keys
    BY <1>4 DEF Hit, OutIsOwn
  <2>3. Ttl > 0 => cache[key[r]].age <= Ttl
    BY <2>1, <2>2
  <2>4. /\ answer'[r].age = cache[key[r]].age
        /\ \A s \in Requests : s # r => answer'[s] = answer[s]
    BY <1>4 DEF Hit
  <2>5. QED
    BY <2>3, <2>4
<1>5. ASSUME NEW r \in Requests, Miss(r) PROVE HitIsWithinTtl'
  BY <1>5 DEF Miss
<1>6. ASSUME NEW r \in Requests, HookAnswers(r) PROVE HitIsWithinTtl'
  BY <1>6 DEF HookAnswers
<1>7. ASSUME NEW r \in Requests, Fail(r) PROVE HitIsWithinTtl'
  BY <1>7 DEF Fail
<1>8. ASSUME NEW r \in Requests, Resolve(r) PROVE HitIsWithinTtl'
  BY <1>8 DEF Resolve, Resolved
<1>9. ASSUME NEW r \in Requests, Transform(r) PROVE HitIsWithinTtl'
  BY <1>9 DEF Transform
<1>10. ASSUME NEW r \in Requests, StoreAndWrite(r) PROVE HitIsWithinTtl'
  BY <1>10 DEF StoreAndWrite, SetWithTTL
<1>11. ASSUME NEW r \in Requests, Release(r) PROVE HitIsWithinTtl'
  BY <1>11 DEF Release
<1>12. ASSUME NEW r \in Requests, Revalidate(r) PROVE HitIsWithinTtl'
  BY <1>12 DEF Revalidate, Resolved
<1>13. ASSUME NEW r \in Requests, StoreRevalidated(r) PROVE HitIsWithinTtl'
  BY <1>13 DEF StoreRevalidated, SetWithTTL
<1>14. ASSUME NEW r \in Requests, SkipRevalidation(r) PROVE HitIsWithinTtl'
  BY <1>14 DEF SkipRevalidation
<1>15. ASSUME NEW r \in Requests, End(r) PROVE HitIsWithinTtl'
  BY <1>15 DEF End
<1>16. CASE Tick
  BY <1>16 DEF Tick
<1>17. ASSUME NEW k \in Keys, Evict(k) PROVE HitIsWithinTtl'
  BY <1>17 DEF Evict
<1>18. CASE Update
  BY <1>18 DEF Update
<1>19. CASE UNCHANGED allVars
  BY <1>19
<1>20. QED
  BY <1>1, <1>2, <1>3, <1>4, <1>5, <1>6, <1>7, <1>8, <1>9, <1>10, <1>11,
     <1>12, <1>13, <1>14, <1>15, <1>16, <1>17, <1>18, <1>19
     DEF Next, Handle

\* The invariant the theorems below rest on.
LEMMA InductiveInvariant == Spec => []IInv
<1>1. Init => IInv
  BY CacheAssumption
     DEF Init, IInv, TypeOK, BuffersAreOwned, HoldsVariables, StaleHasVariables,
         OutIsOwn, ItemsExpire, MissAnswersOwnResult, HitIsWithinTtl, Stages,
         NoAnswer, Answer
<1>2. IInv /\ [Next]_allVars => IInv'
  BY TypeStep, BuffersStep, StaleStep, OutStep, ItemsStep, MissStep, HitStep
     DEF IInv
<1>3. QED
  BY <1>1, <1>2, PTL DEF Spec

\* Every variable of the handlers, the pool and the cache keeps its type.
THEOREM TypeCorrect == Spec => []TypeOK
<1>1. IInv => TypeOK
  BY DEF IInv
<1>2. QED
  BY <1>1, InductiveInvariant, PTL

\* A query answered past the cache gets its own result: the deferred puts keep
\* each handler's variables its own until the result is on its way.
THEOREM MissSafe == Spec => []MissAnswersOwnResult
<1>1. IInv => MissAnswersOwnResult
  BY DEF IInv
<1>2. QED
  BY <1>1, InductiveInvariant, PTL

\* No client is sent an item older than maxAge + staleWhileRevalidate.
THEOREM HitSafe == Spec => []HitIsWithinTtl
<1>1. IInv => HitIsWithinTtl
  BY DEF IInv
<1>2. QED
  BY <1>1, InductiveInvariant, PTL
-----------------------------------------------------------------------------
(* Where CachedUnderOwnKey still holds *)

\* A result that went through the transformations and hooks is stored by the
\* request that asked for it.
MissStoresOwnKey ==
    \A k \in Keys :
        cache[k] # None /\ cache[k].data.form = "final" => cache[k].data.key = k

\* With a time to live and no time for revalidation, no item that is found is
\* stale, so that nothing is revalidated.
NothingIsStale ==
    MaxAge > 0 /\ StaleWhileRevalidate = 0 =>
        /\ \A r \in Requests : ~stale[r] /\ pc[r] # "revalidated"
        /\ \A k \in Keys : cache[k] # None => cache[k].data.form = "final"

\* What is resolved anew is stored as the resolver left it.
RevalidatedIsRaw == \A r \in Requests : pc[r] = "revalidated" => out[r].form = "raw"

ConfinedInv == MissStoresOwnKey /\ NothingIsStale /\ RevalidatedIsRaw

\* Every step keeps both: a miss stores what it resolved with its own variables, and
\* an item past maxAge is not found.
LEMMA ConfinedStep == IInv /\ ConfinedInv /\ [Next]_allVars => ConfinedInv'
<1> SUFFICES ASSUME IInv, ConfinedInv, [Next]_allVars PROVE ConfinedInv'
  OBVIOUS
<1> USE CacheAssumption
    DEF IInv, TypeOK, OutIsOwn, ItemsExpire, ConfinedInv, MissStoresOwnKey, NothingIsStale,
        RevalidatedIsRaw, Result, Item, Ttl, Goto, locals, store, allVars
<1>1. ASSUME NEW r \in Requests, NEW k \in Keys, Begin(r, k) PROVE ConfinedInv'
  BY <1>1 DEF Begin
<1>2. ASSUME NEW r \in Requests, Reject(r) PROVE ConfinedInv'
  BY <1>2 DEF Reject
<1>3. ASSUME NEW r \in Requests, Compact(r) PROVE ConfinedInv'
  BY <1>3 DEF Compact
<1>4. ASSUME NEW r \in Requests, Hit(r) PROVE ConfinedInv'
  BY <1>4 DEF Hit, Alive
<1>5. ASSUME NEW r \in Requests, Miss(r) PROVE ConfinedInv'
  BY <1>5 DEF Miss
<1>6. ASSUME NEW r \in Requests, HookAnswers(r) PROVE ConfinedInv'
  BY <1>6 DEF HookAnswers
<1>7. ASSUME NEW r \in Requests, Fail(r) PROVE ConfinedInv'
  BY <1>7 DEF Fail
<1>8. ASSUME NEW r \in Requests, Resolve(r) PROVE ConfinedInv'
  BY <1>8 DEF Resolve
<1>9. ASSUME NEW r \in Requests, Transform(r) PROVE ConfinedInv'
  BY <1>9 DEF Transform
<1>10. ASSUME NEW r \in Requests, StoreAndWrite(r) PROVE ConfinedInv'
  BY <1>10 DEF StoreAndWrite, SetWithTTL
<1>11. ASSUME NEW r \in Requests, Release(r) PROVE ConfinedInv'
  BY <1>11 DEF Release
<1>12. ASSUME NEW r \in Requests, Revalidate(r) PROVE ConfinedInv'
  BY <1>12 DEF Revalidate, Resolved
<1>13. ASSUME NEW r \in Requests, StoreRevalidated(r) PROVE ConfinedInv'
  BY <1>13 DEF StoreRevalidated, SetWithTTL
<1>14. ASSUME NEW r \in Requests, SkipRevalidation(r) PROVE ConfinedInv'
  BY <1>14 DEF SkipRevalidation
<1>15. ASSUME NEW r \in Requests, End(r) PROVE ConfinedInv'
  BY <1>15 DEF End
<1>16. CASE Tick
  BY <1>16 DEF Tick
<1>17. ASSUME NEW k \in Keys, Evict(k) PROVE ConfinedInv'
  BY <1>17 DEF Evict
<1>18. CASE Update
  BY <1>18 DEF Update
<1>19. CASE UNCHANGED allVars
  BY <1>19
<1>20. QED
  BY <1>1, <1>2, <1>3, <1>4, <1>5, <1>6, <1>7, <1>8, <1>9, <1>10, <1>11,
     <1>12, <1>13, <1>14, <1>15, <1>16, <1>17, <1>18, <1>19
     DEF Next, Handle

\* The invariant of these two theorems, on top of the one above.
LEMMA Confined == Spec => []ConfinedInv
<1>1. Init => ConfinedInv
  BY DEF Init, ConfinedInv, MissStoresOwnKey, NothingIsStale, RevalidatedIsRaw
<1>2. IInv /\ ConfinedInv /\ [Next]_allVars => ConfinedInv'
  BY ConfinedStep
<1>3. QED
  BY <1>1, <1>2, InductiveInvariant, PTL DEF Spec

\* Only a revalidation stores a result under a key of other variables: what a miss
\* stores (StoreAndWrite) is the result of its own URI, whoever has the buffer next.
THEOREM MissStoresSafe == Spec => []MissStoresOwnKey
BY Confined, PTL DEF ConfinedInv

\* An operation with a maxAge and no staleWhileRevalidate keeps what the
\* documentation of the cache says: an item is the result of its URI's variables.
THEOREM CacheSafeUnlessRevalidated ==
    Spec => [](MaxAge > 0 /\ StaleWhileRevalidate = 0 => CachedUnderOwnKey)
<1>1. ConfinedInv => (MaxAge > 0 /\ StaleWhileRevalidate = 0 => CachedUnderOwnKey)
  BY DEF ConfinedInv, MissStoresOwnKey, NothingIsStale, CachedUnderOwnKey
<1>2. QED
  BY <1>1, Confined, PTL
=============================================================================
