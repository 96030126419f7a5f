---------------------------- MODULE PlanCacheProofs ----------------------------
(***************************************************************************)
(* Proofs about PlanCache, for any set of requests and any bodies.         *)
(***************************************************************************)
EXTENDS PlanCache, TLAPS

\* A request that is under way has a body that was parsed, and what is planned
\* was found valid.
BodyInv ==
    \A r \in Requests :
        /\ at[r] # "idle" => body[r] \in Bodies
        /\ at[r] \notin {"idle", "release"} => body[r].doc.parses
        /\ at[r] \in {"engines", "make", "find", "create", "store"} => body[r].doc.valid
        /\ at[r] \in {"engines", "make", "find", "create"} =>
              Selectable(body[r]) /\ Source(r) # NoSource

\* Who reads or writes a map has seen that there is one.
MadeInv == \A r \in Requests : at[r] \in {"find", "create"} => Source(r).factory \in made

\* A call of the singleflight group has a leader who is planning for its key.
FlightInv ==
    \A k \in Keys : flight[k] # NoRequest =>
        at[flight[k]] \in Planning /\ Key(body[flight[k]]) = k

\* A plan that is kept was made from a body of its key, ...
PlansInv ==
    \A k \in Keys : plans[k] # NoPlan =>
        \E b \in Bodies, e \in 0 .. created :
            Key(b) = k /\ b.doc.parses /\ b.doc.valid /\ plans[k] = PlanOf(b, e)

\* ... and the plan that a request goes on with from one of its own text.
PreparedInv ==
    \A r \in Requests :
        /\ at[r] = "resolve" => prepared[r] # NoPlan
        /\ prepared[r] # NoPlan =>
              /\ at[r] \in {"resolve", "release"}
              /\ \E b \in Bodies, e \in 0 .. created :
                    SameText(body[r], b) /\ b.doc.valid /\ prepared[r] = PlanOf(b, e)

\* The engine of an operation, as the map has it.
EngineOf(operation) ==
    IF operation.source = NoSource THEN NoEngine ELSE engines[operation.source]
HasEngine(operation) ==
    operation.source = NoSource \/ operation.source \in DOMAIN engines

\* Who makes a map is alone and the first of the copy of the factory, ...
MakerInv ==
    \A r \in Requests : at[r] = "make" => Source(r).factory \notin made /\ ~Meets(r, {"make"})

\* ... who creates an engine is alone there and the first for its data source, ...
CreatorInv ==
    \A r \in Requests : at[r] = "create" => Source(r) \notin DOMAIN engines /\ ~Meets(r, {"create"})

\* ... the engine of a planning is the one that is in the map, ...
ChosenInv ==
    \A r \in Requests : at[r] = "store" /\ Selectable(body[r]) =>
        HasEngine(Operation(body[r])) /\ engine[r] = EngineOf(Operation(body[r]))

\* ... and so are the engines of the plans, ...
KeptInv ==
    \A k \in Keys : plans[k].kind = "plan" =>
        HasEngine(plans[k].operation) /\ plans[k].engine = EngineOf(plans[k].operation)

\* ... unless two plannings have met at the map.
EnginesInv == raced \/ (MakerInv /\ CreatorInv /\ ChosenInv /\ KeptInv)

\* A request has an engine only until its plan is stored.
IdleEngineInv == \A r \in Requests : engine[r] # NoEngine => at[r] = "store"

\* These three are functions, like the variables that TypeOK gives a range.
DomainInv == DOMAIN prepared = Requests /\ DOMAIN answer = Requests /\ DOMAIN plans = Keys

IInv ==
    /\ TypeOK
    /\ DomainInv
    /\ BodyInv
    /\ MadeInv
    /\ FlightInv
    /\ PlansInv
    /\ PreparedInv
    /\ EnginesInv
    /\ IdleEngineInv
    /\ AnsweredAsAsked
-----------------------------------------------------------------------------
(* What the key of a body decides *)

\* Bodies of one key have one text.
LEMMA KeyIsText ==
    ASSUME NEW b, NEW c, b.doc.parses, c.doc.parses, Key(b) = Key(c)
    PROVE  SameText(b, c)
BY DEF Key, SameText

\* Plans are told apart by their kinds.
LEMMA PlanKinds ==
    ASSUME NEW b, NEW e
    PROVE  /\ PlanOf(b, e) # NoPlan
           /\ PlanOf(b, e) = EmptyPlan <=> ~Selectable(b)
           /\ PlanOf(b, e).kind = "plan" <=> Selectable(b)
           /\ Selectable(b) => PlanOf(b, e).operation = Operation(b) /\ PlanOf(b, e).engine = e
BY DEF PlanOf, NoPlan, EmptyPlan
-----------------------------------------------------------------------------
(* Every step keeps the invariant *)

\* A request that is under way has a body with a key.
LEMMA KeyOfRequest ==
    ASSUME BodyInv, NEW r \in Requests, at[r] # "idle"
    PROVE  Key(body[r]) \in Keys
BY DEF BodyInv, Keys

\* Resolve answers, whichever way.
LEMMA ResolveAnswers ==
    ASSUME NEW r \in Requests, Resolve(r)
    PROVE  /\ at[r] = "resolve" /\ at' = [at EXCEPT ![r] = "release"]
           /\ \E a : answer' = [answer EXCEPT ![r] = a] /\ a # NoAnswer
           /\ UNCHANGED <<body, engine, prepared, plans, flight, factory, crashed>>
<1>1. \E a : Answer(r, a) /\ a # NoAnswer
  BY DEF Resolve, Answer, NoAnswer
<1>2. QED
  BY <1>1 DEF Resolve, Answer, Goto

\* TypeOK in three parts: the ranges, what ties the variables of a request, the plans.
RangeOK ==
    /\ at \in [Requests ->
            {"idle", "lookup", "prepare", "wait", "resolve", "release"} \cup Planning]
    /\ body \in [Requests -> Bodies \cup {NoBody}]
    /\ engine \in [Requests -> 0 .. created]
    /\ flight \in [Keys -> Requests \cup {NoRequest}]
    /\ created \in Nat
    /\ \A source \in DOMAIN engines : engines[source] \in 0 .. created /\ source.factory \in made
    /\ raced \in BOOLEAN /\ crashed \in BOOLEAN
AnswerOK == \A r \in Requests : at[r] = "release" <=> answer[r] # NoAnswer
LeadOK == \A r \in Requests : at[r] \in Planning => flight[Key(body[r])] = r
FollowOK ==
    \A r \in Requests : at[r] = "wait" => \E leader \in Requests :
        flight[Key(body[r])] = leader /\ at[leader] \in Planning
PlansOK ==
    /\ \A r \in Requests : prepared[r] = NoPlan \/ IsPlan(prepared[r])
    /\ \A k \in Keys : plans[k] = NoPlan \/ IsPlan(plans[k])

\* The parts make the whole, before a step and after it.
LEMMA TypeParts == TypeOK <=> RangeOK /\ AnswerOK /\ LeadOK /\ FollowOK /\ PlansOK
BY DEF TypeOK, RangeOK, AnswerOK, LeadOK, FollowOK, PlansOK

\* The same after a step.
LEMMA TypePartsPrimed == TypeOK' <=> RangeOK' /\ AnswerOK' /\ LeadOK' /\ FollowOK' /\ PlansOK'
BY DEF TypeOK, RangeOK, AnswerOK, LeadOK, FollowOK, PlansOK

\* Every step keeps the ranges.
LEMMA RangeStep == IInv /\ [Next]_vars => RangeOK'
<1> SUFFICES ASSUME IInv, [Next]_vars PROVE RangeOK'
  OBVIOUS
<1> USE RequestsAssumption, KeyOfRequest, TypeParts
    DEF IInv, DomainInv, RangeOK, vars, request, factory, Goto, Answer, BadRequest, NoBody,
        NoRequest, NoEngine,
        NoPlan, EmptyPlan, NoAnswer, Planning, Followers
<1>1. ASSUME NEW r \in Requests, NEW b \in Bodies, Arrive(r, b) PROVE RangeOK'
  BY <1>1 DEF Arrive
<1>2. ASSUME NEW r \in Requests, Lookup(r) PROVE RangeOK'
  BY <1>2 DEF Lookup
<1>3. ASSUME NEW r \in Requests, Resolve(r) PROVE RangeOK'
  BY <1>3, ResolveAnswers
<1>4. ASSUME NEW r \in Requests, Release(r) PROVE RangeOK'
  BY <1>4 DEF Release
<1>5. ASSUME NEW r \in Requests, Prepare(r) PROVE RangeOK'
  BY <1>5 DEF Prepare
<1>6. ASSUME NEW r \in Requests, Refuse(r) PROVE RangeOK'
  BY <1>6 DEF Refuse
<1>7. ASSUME NEW r \in Requests, Validate(r) PROVE RangeOK'
  BY <1>7 DEF Validate
<1>13. ASSUME NEW r \in Requests, CheckMap(r) PROVE RangeOK'
  BY <1>13 DEF CheckMap
<1>14. ASSUME NEW r \in Requests, MakeMap(r) PROVE RangeOK'
  BY <1>14 DEF MakeMap
<1>8. ASSUME NEW r \in Requests, FindEngine(r) PROVE RangeOK'
  BY <1>8 DEF FindEngine
<1>9. ASSUME NEW r \in Requests, CreateEngine(r) PROVE RangeOK'
  <2>1. /\ \A source \in DOMAIN engines' : source = Source(r) \/ source \in DOMAIN engines
        /\ \A source \in DOMAIN engines' :
              \/ engines'[source] = created'
              \/ source \in DOMAIN engines /\ engines'[source] = engines[source]
    BY <1>9 DEF CreateEngine
  <2>2. Source(r).factory \in made /\ made' = made /\ created' = created + 1
    BY <1>9 DEF CreateEngine, MadeInv
  <2>3. \A source \in DOMAIN engines' :
           engines'[source] \in 0 .. created' /\ source.factory \in made'
    BY <2>1, <2>2
  <2>4. QED
    BY <1>9, <2>2, <2>3 DEF CreateEngine
<1>10. ASSUME NEW r \in Requests, Store(r) PROVE RangeOK'
  BY <1>10 DEF Store
<1>11. CASE Crash
  BY <1>11 DEF Crash
<1>12. CASE UNCHANGED vars
  BY <1>12
<1> HIDE DEF IInv, RangeOK, AnswerOK, LeadOK, FollowOK, PlansOK, IsPlan, TypeOK
<1>15. QED
  BY <1>1, <1>2, <1>3, <1>4, <1>5, <1>6, <1>7, <1>8, <1>9, <1>10, <1>11,
     <1>12, <1>13, <1>14 DEF Next, Handle

\* A request has its answer exactly when it is about to be released.
LEMMA AnswerStep == IInv /\ [Next]_vars => AnswerOK'
<1> SUFFICES ASSUME IInv, [Next]_vars PROVE AnswerOK'
  OBVIOUS
<1> USE RequestsAssumption, KeyOfRequest, TypeParts
    DEF IInv, DomainInv, RangeOK, AnswerOK, vars, request, factory, Goto, Answer, BadRequest,
        NoBody, NoRequest, NoEngine,
        NoPlan, EmptyPlan, NoAnswer, Planning, Followers
<1>1. ASSUME NEW r \in Requests, NEW b \in Bodies, Arrive(r, b) PROVE AnswerOK'
  BY <1>1 DEF Arrive
<1>2. ASSUME NEW r \in Requests, Lookup(r) PROVE AnswerOK'
  BY <1>2 DEF Lookup
<1>3. ASSUME NEW r \in Requests, Resolve(r) PROVE AnswerOK'
  BY <1>3, ResolveAnswers
<1>4. ASSUME NEW r \in Requests, Release(r) PROVE AnswerOK'
  BY <1>4 DEF Release
<1>5. ASSUME NEW r \in Requests, Prepare(r) PROVE AnswerOK'
  BY <1>5 DEF Prepare
<1>6. ASSUME NEW r \in Requests, Refuse(r) PROVE AnswerOK'
  BY <1>6 DEF Refuse
<1>7. ASSUME NEW r \in Requests, Validate(r) PROVE AnswerOK'
  BY <1>7 DEF Validate
<1>13. ASSUME NEW r \in Requests, CheckMap(r) PROVE AnswerOK'
  BY <1>13 DEF CheckMap
<1>14. ASSUME NEW r \in Requests, MakeMap(r) PROVE AnswerOK'
  BY <1>14 DEF MakeMap
<1>8. ASSUME NEW r \in Requests, FindEngine(r) PROVE AnswerOK'
  BY <1>8 DEF FindEngine
<1>9. ASSUME NEW r \in Requests, CreateEngine(r) PROVE AnswerOK'
  BY <1>9 DEF CreateEngine
<1>10. ASSUME NEW r \in Requests, Store(r) PROVE AnswerOK'
  BY <1>10 DEF Store
<1>11. CASE Crash
  BY <1>11 DEF Crash
<1>12. CASE UNCHANGED vars
  BY <1>12
<1> HIDE DEF IInv, RangeOK, AnswerOK, LeadOK, FollowOK, PlansOK, IsPlan, TypeOK
<1>15. QED
  BY <1>1, <1>2, <1>3, <1>4, <1>5, <1>6, <1>7, <1>8, <1>9, <1>10, <1>11,
     <1>12, <1>13, <1>14 DEF Next, Handle

\* Whoever plans leads the call of its key: Prepare finds nobody there.
LEMMA LeadStep == IInv /\ [Next]_vars => LeadOK'
<1> SUFFICES ASSUME IInv, [Next]_vars PROVE LeadOK'
  OBVIOUS
<1> USE RequestsAssumption, KeyOfRequest, TypeParts
    DEF IInv, DomainInv, FlightInv, RangeOK, LeadOK, vars, request, factory, Goto, Answer,
        BadRequest, NoBody, NoRequest, NoEngine,
        NoPlan, EmptyPlan, NoAnswer, Planning, Followers
<1>1. ASSUME NEW r \in Requests, NEW b \in Bodies, Arrive(r, b) PROVE LeadOK'
  BY <1>1 DEF Arrive
<1>2. ASSUME NEW r \in Requests, Lookup(r) PROVE LeadOK'
  BY <1>2 DEF Lookup
<1>3. ASSUME NEW r \in Requests, Resolve(r) PROVE LeadOK'
  BY <1>3, ResolveAnswers
<1>4. ASSUME NEW r \in Requests, Release(r) PROVE LeadOK'
  BY <1>4 DEF Release
<1>5. ASSUME NEW r \in Requests, Prepare(r) PROVE LeadOK'
  BY <1>5 DEF Prepare
<1>6. ASSUME NEW r \in Requests, Refuse(r) PROVE LeadOK'
  BY <1>6 DEF Refuse
<1>7. ASSUME NEW r \in Requests, Validate(r) PROVE LeadOK'
  BY <1>7 DEF Validate
<1>13. ASSUME NEW r \in Requests, CheckMap(r) PROVE LeadOK'
  BY <1>13 DEF CheckMap
<1>14. ASSUME NEW r \in Requests, MakeMap(r) PROVE LeadOK'
  BY <1>14 DEF MakeMap
<1>8. ASSUME NEW r \in Requests, FindEngine(r) PROVE LeadOK'
  BY <1>8 DEF FindEngine
<1>9. ASSUME NEW r \in Requests, CreateEngine(r) PROVE LeadOK'
  BY <1>9 DEF CreateEngine
<1>10. ASSUME NEW r \in Requests, Store(r) PROVE LeadOK'
  BY <1>10 DEF Store
<1>11. CASE Crash
  BY <1>11 DEF Crash
<1>12. CASE UNCHANGED vars
  BY <1>12
<1> HIDE DEF IInv, RangeOK, AnswerOK, LeadOK, FollowOK, PlansOK, IsPlan, TypeOK
<1>15. QED
  BY <1>1, <1>2, <1>3, <1>4, <1>5, <1>6, <1>7, <1>8, <1>9, <1>10, <1>11,
     <1>12, <1>13, <1>14 DEF Next, Handle

\* Whoever waits, waits for a leader who is planning.
LEMMA FollowStep == IInv /\ [Next]_vars => FollowOK'
<1> SUFFICES ASSUME IInv, [Next]_vars PROVE FollowOK'
  OBVIOUS
<1> USE RequestsAssumption, KeyOfRequest, TypeParts
    DEF IInv, DomainInv, FlightInv, RangeOK, LeadOK, FollowOK, vars, request, factory, Goto,
        Answer, BadRequest, NoBody, NoRequest, NoEngine,
        NoPlan, EmptyPlan, NoAnswer, Planning, Followers
<1>1. ASSUME NEW r \in Requests, NEW b \in Bodies, Arrive(r, b) PROVE FollowOK'
  BY <1>1 DEF Arrive
<1>2. ASSUME NEW r \in Requests, Lookup(r) PROVE FollowOK'
  BY <1>2 DEF Lookup
<1>3. ASSUME NEW r \in Requests, Resolve(r) PROVE FollowOK'
  BY <1>3, ResolveAnswers
<1>4. ASSUME NEW r \in Requests, Release(r) PROVE FollowOK'
  BY <1>4 DEF Release
<1>5. ASSUME NEW r \in Requests, Prepare(r) PROVE FollowOK'
  BY <1>5 DEF Prepare
<1>6. ASSUME NEW r \in Requests, Refuse(r) PROVE FollowOK'
  BY <1>6 DEF Refuse
<1>7. ASSUME NEW r \in Requests, Validate(r) PROVE FollowOK'
  BY <1>7 DEF Validate
<1>13. ASSUME NEW r \in Requests, CheckMap(r) PROVE FollowOK'
  BY <1>13 DEF CheckMap
<1>14. ASSUME NEW r \in Requests, MakeMap(r) PROVE FollowOK'
  BY <1>14 DEF MakeMap
<1>8. ASSUME NEW r \in Requests, FindEngine(r) PROVE FollowOK'
  BY <1>8 DEF FindEngine
<1>9. ASSUME NEW r \in Requests, CreateEngine(r) PROVE FollowOK'
  BY <1>9 DEF CreateEngine
<1>10. ASSUME NEW r \in Requests, Store(r) PROVE FollowOK'
  BY <1>10 DEF Store
<1>11. CASE Crash
  BY <1>11 DEF Crash
<1>12. CASE UNCHANGED vars
  BY <1>12
<1> HIDE DEF IInv, RangeOK, AnswerOK, LeadOK, FollowOK, PlansOK, IsPlan, TypeOK
<1>15. QED
  BY <1>1, <1>2, <1>3, <1>4, <1>5, <1>6, <1>7, <1>8, <1>9, <1>10, <1>11,
     <1>12, <1>13, <1>14 DEF Next, Handle

\* Plans have an engine that was created.
LEMMA PlansTypeStep == IInv /\ [Next]_vars => PlansOK'
<1> SUFFICES ASSUME IInv, [Next]_vars PROVE PlansOK'
  OBVIOUS
<1> USE RequestsAssumption, KeyOfRequest, TypeParts
    DEF IInv, DomainInv, RangeOK, PlansOK, IsPlan, vars, request, factory, Goto, Answer,
        BadRequest, NoBody, NoRequest, NoEngine,
        NoPlan, EmptyPlan, NoAnswer, Planning, Followers
<1>1. ASSUME NEW r \in Requests, NEW b \in Bodies, Arrive(r, b) PROVE PlansOK'
  BY <1>1 DEF Arrive
<1>2. ASSUME NEW r \in Requests, Lookup(r) PROVE PlansOK'
  BY <1>2 DEF Lookup
<1>3. ASSUME NEW r \in Requests, Resolve(r) PROVE PlansOK'
  BY <1>3, ResolveAnswers
<1>4. ASSUME NEW r \in Requests, Release(r) PROVE PlansOK'
  BY <1>4 DEF Release
<1>5. ASSUME NEW r \in Requests, Prepare(r) PROVE PlansOK'
  BY <1>5 DEF Prepare
<1>6. ASSUME NEW r \in Requests, Refuse(r) PROVE PlansOK'
  BY <1>6 DEF Refuse
<1>7. ASSUME NEW r \in Requests, Validate(r) PROVE PlansOK'
  BY <1>7 DEF Validate
<1>13. ASSUME NEW r \in Requests, CheckMap(r) PROVE PlansOK'
  BY <1>13 DEF CheckMap
<1>14. ASSUME NEW r \in Requests, MakeMap(r) PROVE PlansOK'
  BY <1>14 DEF MakeMap
<1>8. ASSUME NEW r \in Requests, FindEngine(r) PROVE PlansOK'
  BY <1>8 DEF FindEngine
<1>9. ASSUME NEW r \in Requests, CreateEngine(r) PROVE PlansOK'
  BY <1>9 DEF CreateEngine
<1>10. ASSUME NEW r \in Requests, Store(r) PROVE PlansOK'
  <2>1. IsPlan(PlanOf(body[r], engine[r]))
    BY DEF PlanOf
  <2>2. QED
    BY <1>10, <2>1 DEF Store
<1>11. CASE Crash
  BY <1>11 DEF Crash
<1>12. CASE UNCHANGED vars
  BY <1>12
<1> HIDE DEF IInv, RangeOK, AnswerOK, LeadOK, FollowOK, PlansOK, IsPlan, TypeOK
<1>15. QED
  BY <1>1, <1>2, <1>3, <1>4, <1>5, <1>6, <1>7, <1>8, <1>9, <1>10, <1>11,
     <1>12, <1>13, <1>14 DEF Next, Handle

\* No step changes what these are functions of.
LEMMA DomainStep == IInv /\ [Next]_vars => DomainInv'
<1> SUFFICES ASSUME IInv, [Next]_vars PROVE DomainInv'
  OBVIOUS
<1> USE DEF IInv, TypeOK, DomainInv, vars, request, factory, Goto, Answer, BadRequest, NoBody,
        NoRequest, NoEngine,
        NoPlan, EmptyPlan, NoAnswer, Planning, Followers
<1>1. ASSUME NEW r \in Requests, NEW b \in Bodies, Arrive(r, b) PROVE DomainInv'
  BY <1>1 DEF Arrive
<1>2. ASSUME NEW r \in Requests, Lookup(r) PROVE DomainInv'
  BY <1>2 DEF Lookup
<1>3. ASSUME NEW r \in Requests, Resolve(r) PROVE DomainInv'
  BY <1>3 DEF Resolve
<1>4. ASSUME NEW r \in Requests, Release(r) PROVE DomainInv'
  BY <1>4 DEF Release
<1>5. ASSUME NEW r \in Requests, Prepare(r) PROVE DomainInv'
  BY <1>5 DEF Prepare
<1>6. ASSUME NEW r \in Requests, Refuse(r) PROVE DomainInv'
  BY <1>6 DEF Refuse
<1>7. ASSUME NEW r \in Requests, Validate(r) PROVE DomainInv'
  BY <1>7 DEF Validate
<1>13. ASSUME NEW r \in Requests, CheckMap(r) PROVE DomainInv'
  BY <1>13 DEF CheckMap
<1>14. ASSUME NEW r \in Requests, MakeMap(r) PROVE DomainInv'
  BY <1>14 DEF MakeMap
<1>8. ASSUME NEW r \in Requests, FindEngine(r) PROVE DomainInv'
  BY <1>8 DEF FindEngine
<1>9. ASSUME NEW r \in Requests, CreateEngine(r) PROVE DomainInv'
  BY <1>9 DEF CreateEngine
<1>10. ASSUME NEW r \in Requests, Store(r) PROVE DomainInv'
  BY <1>10 DEF Store
<1>11. CASE Crash
  BY <1>11 DEF Crash
<1>12. CASE UNCHANGED vars
  BY <1>12
<1> HIDE DEF IInv, TypeOK, BodyInv, FlightInv, PlansInv, PreparedInv, EnginesInv, AnsweredAsAsked
<1>15. QED
  BY <1>1, <1>2, <1>3, <1>4, <1>5, <1>6, <1>7, <1>8, <1>9, <1>10, <1>11,
     <1>12, <1>13, <1>14 DEF Next, Handle

\* Every step keeps the bodies; only a valid one gets past Validate.
LEMMA BodyStep == IInv /\ [Next]_vars => BodyInv'
<1> SUFFICES ASSUME IInv, [Next]_vars PROVE BodyInv'
  OBVIOUS
<1> USE DEF IInv, TypeOK, BodyInv, Source, vars, request, factory, Goto, Answer, BadRequest, NoBody,
        NoRequest, NoEngine,
        NoPlan, EmptyPlan, NoAnswer, Planning, Followers
<1>1. ASSUME NEW r \in Requests, NEW b \in Bodies, Arrive(r, b) PROVE BodyInv'
  BY <1>1 DEF Arrive
<1>2. ASSUME NEW r \in Requests, Lookup(r) PROVE BodyInv'
  BY <1>2 DEF Lookup
<1>3. ASSUME NEW r \in Requests, Resolve(r) PROVE BodyInv'
  BY <1>3, ResolveAnswers
<1>4. ASSUME NEW r \in Requests, Release(r) PROVE BodyInv'
  BY <1>4 DEF Release
<1>5. ASSUME NEW r \in Requests, Prepare(r) PROVE BodyInv'
  BY <1>5 DEF Prepare
<1>6. ASSUME NEW r \in Requests, Refuse(r) PROVE BodyInv'
  BY <1>6 DEF Refuse
<1>7. ASSUME NEW r \in Requests, Validate(r) PROVE BodyInv'
  BY <1>7 DEF Validate
<1>13. ASSUME NEW r \in Requests, CheckMap(r) PROVE BodyInv'
  BY <1>13 DEF CheckMap
<1>14. ASSUME NEW r \in Requests, MakeMap(r) PROVE BodyInv'
  BY <1>14 DEF MakeMap
<1>8. ASSUME NEW r \in Requests, FindEngine(r) PROVE BodyInv'
  BY <1>8 DEF FindEngine
<1>9. ASSUME NEW r \in Requests, CreateEngine(r) PROVE BodyInv'
  BY <1>9 DEF CreateEngine
<1>10. ASSUME NEW r \in Requests, Store(r) PROVE BodyInv'
  BY <1>10 DEF Store
<1>11. CASE Crash
  BY <1>11 DEF Crash
<1>12. CASE UNCHANGED vars
  BY <1>12
<1> HIDE DEF IInv, TypeOK, BodyInv, FlightInv, PlansInv, PreparedInv, EnginesInv, AnsweredAsAsked
<1>15. QED
  BY <1>1, <1>2, <1>3, <1>4, <1>5, <1>6, <1>7, <1>8, <1>9, <1>10, <1>11,
     <1>12, <1>13, <1>14 DEF Next, Handle

\* Every step keeps the leaders: Prepare makes one, Refuse and Store let it go.
LEMMA FlightStep == IInv /\ [Next]_vars => FlightInv'
<1> SUFFICES ASSUME IInv, [Next]_vars PROVE FlightInv'
  OBVIOUS
<1> USE RequestsAssumption, KeyOfRequest
    DEF IInv, TypeOK, BodyInv, FlightInv, vars, request, factory, Goto, Answer, BadRequest,
        NoBody, NoRequest, NoEngine,
        NoPlan, EmptyPlan, NoAnswer, Planning, Followers
<1>1. ASSUME NEW r \in Requests, NEW b \in Bodies, Arrive(r, b) PROVE FlightInv'
  BY <1>1 DEF Arrive
<1>2. ASSUME NEW r \in Requests, Lookup(r) PROVE FlightInv'
  BY <1>2 DEF Lookup
<1>3. ASSUME NEW r \in Requests, Resolve(r) PROVE FlightInv'
  BY <1>3, ResolveAnswers
<1>4. ASSUME NEW r \in Requests, Release(r) PROVE FlightInv'
  BY <1>4 DEF Release
<1>5. ASSUME NEW r \in Requests, Prepare(r) PROVE FlightInv'
  BY <1>5 DEF Prepare
<1>6. ASSUME NEW r \in Requests, Refuse(r) PROVE FlightInv'
  BY <1>6 DEF Refuse
<1>7. ASSUME NEW r \in Requests, Validate(r) PROVE FlightInv'
  BY <1>7 DEF Validate
<1>13. ASSUME NEW r \in Requests, CheckMap(r) PROVE FlightInv'
  BY <1>13 DEF CheckMap
<1>14. ASSUME NEW r \in Requests, MakeMap(r) PROVE FlightInv'
  BY <1>14 DEF MakeMap
<1>8. ASSUME NEW r \in Requests, FindEngine(r) PROVE FlightInv'
  BY <1>8 DEF FindEngine
<1>9. ASSUME NEW r \in Requests, CreateEngine(r) PROVE FlightInv'
  BY <1>9 DEF CreateEngine
<1>10. ASSUME NEW r \in Requests, Store(r) PROVE FlightInv'
  BY <1>10 DEF Store
<1>11. CASE Crash
  BY <1>11 DEF Crash
<1>12. CASE UNCHANGED vars
  BY <1>12
<1> HIDE DEF IInv, TypeOK, BodyInv, FlightInv, PlansInv, PreparedInv, EnginesInv, AnsweredAsAsked
<1>15. QED
  BY <1>1, <1>2, <1>3, <1>4, <1>5, <1>6, <1>7, <1>8, <1>9, <1>10, <1>11,
     <1>12, <1>13, <1>14 DEF Next, Handle

\* A plan is stored under the key of the body that it was made from.
LEMMA PlansStep == IInv /\ [Next]_vars => PlansInv'
<1> SUFFICES ASSUME IInv, [Next]_vars PROVE PlansInv'
  OBVIOUS
<1> USE KeyOfRequest
        DEF IInv, RangeOK, DomainInv, PlansInv, vars, request, factory, Goto, Answer, BadRequest,
            NoBody, NoRequest, NoEngine,
        NoPlan, EmptyPlan, NoAnswer, Planning, Followers
<1>1. ASSUME NEW r \in Requests, NEW b \in Bodies, Arrive(r, b) PROVE PlansInv'
  BY <1>1 DEF Arrive
<1>2. ASSUME NEW r \in Requests, Lookup(r) PROVE PlansInv'
  BY <1>2 DEF Lookup
<1>3. ASSUME NEW r \in Requests, Resolve(r) PROVE PlansInv'
  BY <1>3, ResolveAnswers
<1>4. ASSUME NEW r \in Requests, Release(r) PROVE PlansInv'
  BY <1>4 DEF Release
<1>5. ASSUME NEW r \in Requests, Prepare(r) PROVE PlansInv'
  BY <1>5 DEF Prepare
<1>6. ASSUME NEW r \in Requests, Refuse(r) PROVE PlansInv'
  BY <1>6 DEF Refuse
<1>7. ASSUME NEW r \in Requests, Validate(r) PROVE PlansInv'
  BY <1>7 DEF Validate
<1>13. ASSUME NEW r \in Requests, CheckMap(r) PROVE PlansInv'
  BY <1>13 DEF CheckMap
<1>14. ASSUME NEW r \in Requests, MakeMap(r) PROVE PlansInv'
  BY <1>14 DEF MakeMap
<1>8. ASSUME NEW r \in Requests, FindEngine(r) PROVE PlansInv'
  BY <1>8 DEF FindEngine
<1>9. ASSUME NEW r \in Requests, CreateEngine(r) PROVE PlansInv'
  <2>1. created' = created + 1 /\ created \in Nat /\ UNCHANGED plans
    BY <1>9, TypeParts DEF CreateEngine
  <2>2. 0 .. created \subseteq 0 .. created'
    BY <2>1
  <2>3. QED
    BY <2>1, <2>2
<1>10. ASSUME NEW r \in Requests, Store(r) PROVE PlansInv'
  <2> DEFINE b == body[r]
  <2>1. b \in Bodies /\ b.doc.parses /\ b.doc.valid /\ engine[r] \in 0 .. created
    BY <1>10, TypeParts DEF Store, BodyInv
  <2>2. plans' = [plans EXCEPT ![Key(b)] = PlanOf(b, engine[r])] /\ created' = created
    BY <1>10 DEF Store
  <2>3. QED
    BY <2>1, <2>2
<1>11. CASE Crash
  BY <1>11 DEF Crash
<1>12. CASE UNCHANGED vars
  BY <1>12
<1> HIDE DEF IInv, PlansInv
<1>15. QED
  BY <1>1, <1>2, <1>3, <1>4, <1>5, <1>6, <1>7, <1>8, <1>9, <1>10, <1>11,
     <1>12, <1>13, <1>14 DEF Next, Handle

\* A request takes a plan of its own key, from the map or from the leader it waited for.
LEMMA PreparedStep == IInv /\ [Next]_vars => PreparedInv'
<1> SUFFICES ASSUME IInv, [Next]_vars PROVE PreparedInv'
  OBVIOUS
<1> USE KeyOfRequest, TypeParts
        DEF IInv, RangeOK, DomainInv, PreparedInv, vars, request, factory, Goto, Answer,
            BadRequest, NoBody, NoRequest, NoEngine,
        NoPlan, EmptyPlan, NoAnswer, Planning, Followers
<1>1. ASSUME NEW r \in Requests, NEW b \in Bodies, Arrive(r, b) PROVE PreparedInv'
  BY <1>1 DEF Arrive
<1>2. ASSUME NEW r \in Requests, Lookup(r) PROVE PreparedInv'
  <2> DEFINE b == body[r]
  <2>1. b \in Bodies /\ b.doc.parses
    BY <1>2 DEF Lookup, BodyInv
  <2>2. ASSUME plans[Key(b)] # NoPlan
        PROVE  \E c \in Bodies, e \in 0 .. created :
                  SameText(b, c) /\ c.doc.valid /\ plans[Key(b)] = PlanOf(c, e)
    <3>1. PICK c \in Bodies, e \in 0 .. created :
              Key(c) = Key(b) /\ c.doc.parses /\ c.doc.valid /\ plans[Key(b)] = PlanOf(c, e)
      BY <2>1, <2>2 DEF PlansInv, Keys
    <3>2. SameText(b, c)
      BY <2>1, <3>1, KeyIsText
    <3>3. QED
      BY <3>1, <3>2
  <2>3. QED
    BY <1>2, <2>1, <2>2 DEF Lookup
<1>3. ASSUME NEW r \in Requests, Resolve(r) PROVE PreparedInv'
  BY <1>3, ResolveAnswers
<1>4. ASSUME NEW r \in Requests, Release(r) PROVE PreparedInv'
  BY <1>4 DEF Release
<1>5. ASSUME NEW r \in Requests, Prepare(r) PROVE PreparedInv'
  BY <1>5 DEF Prepare
<1>6. ASSUME NEW r \in Requests, Refuse(r) PROVE PreparedInv'
  BY <1>6 DEF Refuse
<1>7. ASSUME NEW r \in Requests, Validate(r) PROVE PreparedInv'
  BY <1>7 DEF Validate
<1>13. ASSUME NEW r \in Requests, CheckMap(r) PROVE PreparedInv'
  BY <1>13 DEF CheckMap
<1>14. ASSUME NEW r \in Requests, MakeMap(r) PROVE PreparedInv'
  BY <1>14 DEF MakeMap
<1>8. ASSUME NEW r \in Requests, FindEngine(r) PROVE PreparedInv'
  BY <1>8 DEF FindEngine
<1>9. ASSUME NEW r \in Requests, CreateEngine(r) PROVE PreparedInv'
  <2>1. created' = created + 1 /\ created \in Nat /\ UNCHANGED <<body, prepared>>
    BY <1>9, TypeParts DEF CreateEngine
  <2>2. 0 .. created \subseteq 0 .. created'
    BY <2>1
  <2>3. QED
    BY <1>9, <2>1, <2>2, TypeParts DEF CreateEngine
<1>10. ASSUME NEW r \in Requests, Store(r) PROVE PreparedInv'
  <2> DEFINE p == PlanOf(body[r], engine[r])
  <2>1. engine[r] \in 0 .. created /\ p # NoPlan
    BY TypeParts, PlanKinds
  <2>2. ASSUME NEW q \in Followers(r) \cup {r}
        PROVE  \E b \in Bodies, e \in 0 .. created :
                  SameText(body[q], b) /\ b.doc.valid /\ p = PlanOf(b, e)
    <3>1. /\ body[q] \in Bodies /\ body[q].doc.parses
          /\ body[r] \in Bodies /\ body[r].doc.parses /\ body[r].doc.valid
      BY <1>10 DEF Store, BodyInv
    <3>2. Key(body[q]) = Key(body[r])
      BY RequestsAssumption DEF FlightInv, BodyInv
    <3>3. SameText(body[q], body[r])
      BY <3>1, <3>2, KeyIsText
    <3>4. QED
      BY <2>1, <3>1, <3>3
  <2>3. ASSUME NEW q \in Requests
        PROVE  /\ prepared'[q] = IF q \in Followers(r) \cup {r} THEN p ELSE prepared[q]
               /\ at'[q] = IF q \in Followers(r) \cup {r} THEN "resolve" ELSE at[q]
    BY <1>10 DEF Store
  <2>4. UNCHANGED <<body, created>>
    BY <1>10 DEF Store
  <2> HIDE DEF p, Followers
  <2>5. QED
    BY <2>1, <2>2, <2>3, <2>4
<1>11. CASE Crash
  BY <1>11 DEF Crash
<1>12. CASE UNCHANGED vars
  BY <1>12
<1> HIDE DEF IInv, PreparedInv, RangeOK
<1>15. QED
  BY <1>1, <1>2, <1>3, <1>4, <1>5, <1>6, <1>7, <1>8, <1>9, <1>10, <1>11,
     <1>12, <1>13, <1>14 DEF Next, Handle

\* An engine is given to a planner and taken from it with the plan.
LEMMA IdleEngineStep == IInv /\ [Next]_vars => IdleEngineInv'
<1> SUFFICES ASSUME IInv, [Next]_vars PROVE IdleEngineInv'
  OBVIOUS
<1> USE TypeParts
        DEF IInv, RangeOK, BodyInv, IdleEngineInv, vars, request, factory, Goto, Answer,
            BadRequest, NoBody, NoRequest, NoEngine,
        NoPlan, EmptyPlan, NoAnswer, Planning, Followers
<1>1. ASSUME NEW r \in Requests, NEW b \in Bodies, Arrive(r, b) PROVE IdleEngineInv'
  BY <1>1 DEF Arrive
<1>2. ASSUME NEW r \in Requests, Lookup(r) PROVE IdleEngineInv'
  BY <1>2 DEF Lookup
<1>3. ASSUME NEW r \in Requests, Resolve(r) PROVE IdleEngineInv'
  BY <1>3, ResolveAnswers
<1>4. ASSUME NEW r \in Requests, Release(r) PROVE IdleEngineInv'
  BY <1>4 DEF Release
<1>5. ASSUME NEW r \in Requests, Prepare(r) PROVE IdleEngineInv'
  BY <1>5 DEF Prepare
<1>6. ASSUME NEW r \in Requests, Refuse(r) PROVE IdleEngineInv'
  BY <1>6 DEF Refuse
<1>7. ASSUME NEW r \in Requests, Validate(r) PROVE IdleEngineInv'
  BY <1>7 DEF Validate
<1>13. ASSUME NEW r \in Requests, CheckMap(r) PROVE IdleEngineInv'
  BY <1>13 DEF CheckMap
<1>14. ASSUME NEW r \in Requests, MakeMap(r) PROVE IdleEngineInv'
  BY <1>14 DEF MakeMap
<1>8. ASSUME NEW r \in Requests, FindEngine(r) PROVE IdleEngineInv'
  BY <1>8 DEF FindEngine
<1>9. ASSUME NEW r \in Requests, CreateEngine(r) PROVE IdleEngineInv'
  BY <1>9 DEF CreateEngine
<1>10. ASSUME NEW r \in Requests, Store(r) PROVE IdleEngineInv'
  BY <1>10 DEF Store
<1>11. CASE Crash
  BY <1>11 DEF Crash
<1>12. CASE UNCHANGED vars
  BY <1>12
<1> HIDE DEF IInv, RangeOK, IdleEngineInv
<1>15. QED
  BY <1>1, <1>2, <1>3, <1>4, <1>5, <1>6, <1>7, <1>8, <1>9, <1>10, <1>11,
     <1>12, <1>13, <1>14 DEF Next, Handle

\* Whoever goes on to read the map has found it, or made it.
LEMMA MadeStep == IInv /\ [Next]_vars => MadeInv'
<1> SUFFICES ASSUME IInv, [Next]_vars PROVE MadeInv'
  OBVIOUS
<1> USE TypeParts
        DEF IInv, RangeOK, MadeInv, Source, vars, request, factory, Goto, Answer, Followers
<1>1. ASSUME NEW r \in Requests, NEW b \in Bodies, Arrive(r, b) PROVE MadeInv'
  BY <1>1 DEF Arrive
<1>2. ASSUME NEW r \in Requests, Lookup(r) PROVE MadeInv'
  BY <1>2 DEF Lookup
<1>3. ASSUME NEW r \in Requests, Resolve(r) PROVE MadeInv'
  BY <1>3, ResolveAnswers
<1>4. ASSUME NEW r \in Requests, Release(r) PROVE MadeInv'
  BY <1>4 DEF Release
<1>5. ASSUME NEW r \in Requests, Prepare(r) PROVE MadeInv'
  BY <1>5 DEF Prepare
<1>6. ASSUME NEW r \in Requests, Refuse(r) PROVE MadeInv'
  BY <1>6 DEF Refuse
<1>7. ASSUME NEW r \in Requests, Validate(r) PROVE MadeInv'
  BY <1>7 DEF Validate
<1>13. ASSUME NEW r \in Requests, CheckMap(r) PROVE MadeInv'
  BY <1>13 DEF CheckMap
<1>14. ASSUME NEW r \in Requests, MakeMap(r) PROVE MadeInv'
  BY <1>14 DEF MakeMap
<1>8. ASSUME NEW r \in Requests, FindEngine(r) PROVE MadeInv'
  BY <1>8 DEF FindEngine
<1>9. ASSUME NEW r \in Requests, CreateEngine(r) PROVE MadeInv'
  BY <1>9 DEF CreateEngine
<1>10. ASSUME NEW r \in Requests, Store(r) PROVE MadeInv'
  BY <1>10 DEF Store
<1>11. CASE Crash
  BY <1>11 DEF Crash
<1>12. CASE UNCHANGED vars
  BY <1>12
<1> HIDE DEF IInv, RangeOK, MadeInv
<1>15. QED
  BY <1>1, <1>2, <1>3, <1>4, <1>5, <1>6, <1>7, <1>8, <1>9, <1>10, <1>11,
     <1>12, <1>13, <1>14 DEF Next, Handle

\* Every step keeps plans and map together, as long as no planner reads the map that
\* another one is about to write.
LEMMA EnginesStep == IInv /\ [Next]_vars => EnginesInv'
<1> SUFFICES ASSUME IInv, [Next]_vars PROVE EnginesInv'
  OBVIOUS
<1> USE TypeParts
        DEF IInv, RangeOK, DomainInv, EnginesInv, EngineOf, HasEngine, Source, Meets, vars, request,
            factory, Goto, Answer, BadRequest, NoBody, NoRequest, NoEngine,
        NoPlan, EmptyPlan, NoAnswer, Planning, Followers
<1>1. ASSUME NEW r \in Requests, NEW b \in Bodies, Arrive(r, b) PROVE EnginesInv'
  BY <1>1 DEF Arrive, MakerInv, CreatorInv, ChosenInv, KeptInv
<1>2. ASSUME NEW r \in Requests, Lookup(r) PROVE EnginesInv'
  BY <1>2 DEF Lookup, MakerInv, CreatorInv, ChosenInv, KeptInv
<1>3. ASSUME NEW r \in Requests, Resolve(r) PROVE EnginesInv'
  BY <1>3, ResolveAnswers DEF MakerInv, MakerInv, CreatorInv, ChosenInv, KeptInv
<1>4. ASSUME NEW r \in Requests, Release(r) PROVE EnginesInv'
  BY <1>4 DEF Release, MakerInv, CreatorInv, ChosenInv, KeptInv
<1>5. ASSUME NEW r \in Requests, Prepare(r) PROVE EnginesInv'
  BY <1>5 DEF Prepare, MakerInv, CreatorInv, ChosenInv, KeptInv
<1>6. ASSUME NEW r \in Requests, Refuse(r) PROVE EnginesInv'
  BY <1>6 DEF Refuse, MakerInv, CreatorInv, ChosenInv, KeptInv
<1>7. ASSUME NEW r \in Requests, Validate(r) PROVE EnginesInv'
  <2> SUFFICES ASSUME ~raced PROVE EnginesInv'
    BY <1>7 DEF Validate
  <2>1. MakerInv' /\ CreatorInv'
    BY <1>7 DEF Validate, MakerInv, CreatorInv
  <2>2. ChosenInv'
    <3>1. ASSUME Selectable(body[r]), at'[r] = "store"
          PROVE  Operation(body[r]).source = NoSource
      BY <1>7, <3>1 DEF Validate
    <3>2. engine[r] = NoEngine
      BY <1>7 DEF Validate, IdleEngineInv
    <3>3. QED
      BY <1>7, <3>1, <3>2 DEF Validate, ChosenInv
  <2>3. KeptInv'
    BY <1>7 DEF Validate, KeptInv
  <2>4. QED
    BY <2>1, <2>2, <2>3
<1>13. ASSUME NEW r \in Requests, CheckMap(r) PROVE EnginesInv'
  <2> SUFFICES ASSUME ~raced' PROVE EnginesInv'
    OBVIOUS
  <2>1. ~raced /\ ~Meets(r, {"make"})
    BY <1>13 DEF CheckMap
  <2>2. MakerInv'
    BY <1>13, <2>1 DEF CheckMap, MakerInv
  <2>3. CreatorInv' /\ ChosenInv' /\ KeptInv'
    BY <1>13, <2>1 DEF CheckMap, CreatorInv, ChosenInv, KeptInv
  <2>4. QED
    BY <2>2, <2>3
<1>14. ASSUME NEW r \in Requests, MakeMap(r) PROVE EnginesInv'
  <2> SUFFICES ASSUME ~raced PROVE EnginesInv'
    BY <1>14 DEF MakeMap
  <2>1. Source(r).factory \notin made /\ ~Meets(r, {"make"})
    BY <1>14 DEF MakeMap, MakerInv
  <2>2. \A source \in DOMAIN engines : source.factory # Source(r).factory
    BY <2>1
  <2>3. DOMAIN engines' = DOMAIN engines /\ \A s \in DOMAIN engines : engines'[s] = engines[s]
    <3>1. {s \in DOMAIN engines : s.factory # Source(r).factory} = DOMAIN engines
      BY <2>2
    <3>2. engines' = [s \in {s \in DOMAIN engines : s.factory # Source(r).factory} |-> engines[s]]
      BY <1>14 DEF MakeMap
    <3> HIDE DEF Source
    <3>3. QED
      BY <3>1, <3>2
  <2>4. /\ at[r] = "make" /\ at' = [at EXCEPT ![r] = "find"]
        /\ made' = made \cup {Source(r).factory} /\ UNCHANGED <<body, engine, plans>>
    BY <1>14 DEF MakeMap
  <2>5. MakerInv'
    BY <2>1, <2>4 DEF MakerInv
  <2>6. CreatorInv'
    BY <2>3, <2>4 DEF CreatorInv
  <2>7. ChosenInv' /\ KeptInv'
    BY <2>3, <2>4 DEF ChosenInv, KeptInv
  <2>8. QED
    BY <2>5, <2>6, <2>7
<1>8. ASSUME NEW r \in Requests, FindEngine(r) PROVE EnginesInv'
  <2> SUFFICES ASSUME ~raced' PROVE EnginesInv'
    OBVIOUS
  <2>1. ~raced /\ ~Meets(r, {"create"})
    BY <1>8 DEF FindEngine
  <2>2. MakerInv' /\ CreatorInv'
    BY <1>8, <2>1 DEF FindEngine, MakerInv, CreatorInv
  <2>3. ChosenInv'
    <3>1. at[r] = "find" /\ engine' = [engine EXCEPT ![r] = engine'[r]]
      BY <1>8 DEF FindEngine
    <3>2. ASSUME at'[r] = "store"
          PROVE  /\ Source(r) # NoSource /\ Source(r) \in DOMAIN engines
                 /\ engine'[r] = engines[Source(r)]
      BY <1>8, <3>2 DEF FindEngine, BodyInv
    <3>3. \A s \in Requests \ {r} : at'[s] = at[s] /\ engine'[s] = engine[s]
      BY <1>8 DEF FindEngine
    <3>4. UNCHANGED <<body, engines>>
      BY <1>8 DEF FindEngine
    <3>5. QED
      BY <2>1, <3>2, <3>3, <3>4 DEF ChosenInv
  <2>4. KeptInv'
    BY <1>8, <2>1 DEF FindEngine, KeptInv
  <2>5. QED
    BY <2>2, <2>3, <2>4
<1>9. ASSUME NEW r \in Requests, CreateEngine(r) PROVE EnginesInv'
  <2> DEFINE d == Source(r)
  <2> SUFFICES ASSUME ~raced PROVE EnginesInv'
    BY <1>9 DEF CreateEngine
  <2>1. d \notin DOMAIN engines /\ d # NoSource /\ ~Meets(r, {"create"})
    BY <1>9 DEF CreateEngine, CreatorInv, BodyInv
  <2>2. /\ DOMAIN engines' = DOMAIN engines \cup {d} /\ engines'[d] = created'
        /\ \A e \in DOMAIN engines : engines'[e] = engines[e]
    BY <1>9, <2>1 DEF CreateEngine
  <2>3. \A o : HasEngine(o) => HasEngine(o)' /\ EngineOf(o)' = EngineOf(o)
    BY <2>1, <2>2
  <2>4. /\ at'[r] = "store" /\ engine'[r] = created' /\ UNCHANGED <<body, plans, made>>
        /\ \A s \in Requests \ {r} : at'[s] = at[s] /\ engine'[s] = engine[s]
    BY <1>9 DEF CreateEngine
  <2>5. MakerInv' /\ CreatorInv'
    BY <2>1, <2>2, <2>4 DEF MakerInv, CreatorInv
  <2>6. ChosenInv'
    BY <2>1, <2>2, <2>4 DEF ChosenInv
  <2>7. KeptInv'
    BY <2>2, <2>4 DEF KeptInv
  <2>8. QED
    BY <2>5, <2>6, <2>7
<1>10. ASSUME NEW r \in Requests, Store(r) PROVE EnginesInv'
  <2> SUFFICES ASSUME ~raced PROVE EnginesInv'
    BY <1>10 DEF Store
  <2> DEFINE p == PlanOf(body[r], engine[r])
  <2>1. /\ \A k \in Keys : plans'[k] = p \/ plans'[k] = plans[k]
        /\ \A s \in Requests : at'[s] \in {at[s], "resolve"}
        /\ \A s \in Requests : at'[s] = at[s] => engine'[s] = engine[s] \/ at[s] = "resolve"
        /\ UNCHANGED <<body, engines, made>>
    BY <1>10 DEF Store
  <2>2. p.kind = "plan" => HasEngine(p.operation) /\ p.engine = EngineOf(p.operation)
    BY <1>10, PlanKinds DEF Store, ChosenInv
  <2> HIDE DEF p
  <2>3. MakerInv' /\ CreatorInv'
    BY <2>1 DEF MakerInv, CreatorInv
  <2>4. ChosenInv'
    BY <2>1 DEF ChosenInv
  <2>5. KeptInv'
    BY <2>1, <2>2 DEF KeptInv
  <2>6. QED
    BY <2>3, <2>4, <2>5
<1>11. CASE Crash
  BY <1>11 DEF Crash, MakerInv, CreatorInv, ChosenInv, KeptInv
<1>12. CASE UNCHANGED vars
  BY <1>12 DEF MakerInv, MakerInv, CreatorInv, ChosenInv, KeptInv
<1> HIDE DEF IInv, RangeOK, EnginesInv, EngineOf, HasEngine
<1>15. QED
  BY <1>1, <1>2, <1>3, <1>4, <1>5, <1>6, <1>7, <1>8, <1>9, <1>10, <1>11,
     <1>12, <1>13, <1>14 DEF Next, Handle

\* An answer is given for the body that was asked, from a plan of that body.
LEMMA AnsweredStep == IInv /\ [Next]_vars => AnsweredAsAsked'
<1> SUFFICES ASSUME IInv, [Next]_vars PROVE AnsweredAsAsked'
  OBVIOUS
<1> USE TypeParts
        DEF IInv, RangeOK, AnswerOK, DomainInv, AnsweredAsAsked, vars, request, factory, Goto,
            Answer, BadRequest, NoBody, NoRequest, NoEngine,
        NoPlan, EmptyPlan, NoAnswer, Planning, Followers
<1>1. ASSUME NEW r \in Requests, NEW b \in Bodies, Arrive(r, b) PROVE AnsweredAsAsked'
  <2>1. /\ \A s \in Requests \ {r} : body'[s] = body[s] /\ answer'[s] = answer[s]
        /\ body'[r] = b /\ answer[r] = NoAnswer
        /\ answer'[r] = NoAnswer \/ (~b.doc.parses /\ answer'[r] = BadRequest)
    BY <1>1 DEF Arrive
  <2>2. QED
    BY <2>1 DEF Promised
<1>2. ASSUME NEW r \in Requests, Lookup(r) PROVE AnsweredAsAsked'
  BY <1>2 DEF Lookup
<1>3. ASSUME NEW r \in Requests, Resolve(r) PROVE AnsweredAsAsked'
  <2>1. PICK b \in Bodies, e \in 0 .. created :
            SameText(body[r], b) /\ b.doc.valid /\ prepared[r] = PlanOf(b, e)
    BY <1>3, ResolveAnswers DEF PreparedInv
  <2>2. answer'[r] \in AnswersOf(b, body[r].variables)
    <3>1. CASE Selectable(b)
      <4>1. prepared[r] # EmptyPlan /\ prepared[r].operation = Operation(b)
        BY <2>1, <3>1, PlanKinds
      <4>2. \/ answer'[r] = [kind |-> "resolved", operation |-> Operation(b),
                             variables |-> Over(Operation(b).literals, body[r].variables)]
            \/ answer'[r] = [kind |-> "resolver failed"]
        BY <1>3, <4>1 DEF Resolve
      <4>3. QED
        BY <2>1, <3>1, <4>2 DEF AnswersOf
    <3>2. CASE ~Selectable(b)
      <4>1. prepared[r] = EmptyPlan
        BY <2>1, <3>2, PlanKinds
      <4>2. QED
        BY <1>3, <2>1, <3>2, <4>1 DEF Resolve, AnswersOf
    <3>3. QED
      BY <3>1, <3>2
  <2>3. answer'[r] \in Promised(body[r])
    BY <2>1, <2>2 DEF Promised, SameText
  <2>4. body' = body /\ \A s \in Requests \ {r} : answer'[s] = answer[s]
    BY <1>3, ResolveAnswers
  <2>5. QED
    BY <2>3, <2>4
<1>4. ASSUME NEW r \in Requests, Release(r) PROVE AnsweredAsAsked'
  BY <1>4 DEF Release
<1>5. ASSUME NEW r \in Requests, Prepare(r) PROVE AnsweredAsAsked'
  BY <1>5 DEF Prepare
<1>6. ASSUME NEW r \in Requests, Refuse(r) PROVE AnsweredAsAsked'
  <2>1. ASSUME NEW q \in Followers(r) \cup {r}
        PROVE  BadRequest \in Promised(body[q])
    <3>1. /\ body[q] \in Bodies /\ body[q].doc.parses
          /\ body[r] \in Bodies /\ body[r].doc.parses /\ ~body[r].doc.valid
      BY <1>6 DEF Refuse, BodyInv
    <3>2. Key(body[q]) = Key(body[r])
      BY RequestsAssumption DEF FlightInv, BodyInv, Keys
    <3>3. SameText(body[q], body[r])
      BY <3>1, <3>2, KeyIsText
    <3>4. BadRequest \in AnswersOf(body[r], body[q].variables)
      BY <3>1 DEF AnswersOf
    <3>5. QED
      BY <3>1, <3>3, <3>4 DEF Promised
  <2>2. ASSUME NEW q \in Requests
        PROVE  answer'[q] = IF q \in Followers(r) \cup {r} THEN BadRequest ELSE answer[q]
    BY <1>6 DEF Refuse
  <2>3. body' = body
    BY <1>6 DEF Refuse
  <2> HIDE DEF Followers, BadRequest
  <2>4. QED
    BY <2>1, <2>2, <2>3
<1>7. ASSUME NEW r \in Requests, Validate(r) PROVE AnsweredAsAsked'
  BY <1>7 DEF Validate
<1>13. ASSUME NEW r \in Requests, CheckMap(r) PROVE AnsweredAsAsked'
  BY <1>13 DEF CheckMap
<1>14. ASSUME NEW r \in Requests, MakeMap(r) PROVE AnsweredAsAsked'
  BY <1>14 DEF MakeMap
<1>8. ASSUME NEW r \in Requests, FindEngine(r) PROVE AnsweredAsAsked'
  BY <1>8 DEF FindEngine
<1>9. ASSUME NEW r \in Requests, CreateEngine(r) PROVE AnsweredAsAsked'
  BY <1>9 DEF CreateEngine
<1>10. ASSUME NEW r \in Requests, Store(r) PROVE AnsweredAsAsked'
  BY <1>10 DEF Store
<1>11. CASE Crash
  BY <1>11 DEF Crash
<1>12. CASE UNCHANGED vars
  BY <1>12
<1> HIDE DEF IInv, RangeOK, AnswerOK, AnsweredAsAsked
<1>15. QED
  BY <1>1, <1>2, <1>3, <1>4, <1>5, <1>6, <1>7, <1>8, <1>9, <1>10, <1>11,
     <1>12, <1>13, <1>14 DEF Next, Handle

-----------------------------------------------------------------------------
(* The theorems *)

\* The invariant holds in every state.
LEMMA Inductive == Spec => []IInv
<1>1. Init => IInv
  <2> SUFFICES ASSUME Init PROVE IInv
    OBVIOUS
  <2> USE DEF Init, NoPlan, NoAnswer, NoRequest, NoEngine, NoBody, Planning
  <2>1. TypeOK
    <3>1. DOMAIN engines = {}
      OBVIOUS
    <3>2. RangeOK
      <4>1. /\ at \in [Requests ->
                   {"idle", "lookup", "prepare", "wait", "resolve", "release"} \cup Planning]
            /\ engine \in [Requests -> 0 .. created]
            /\ flight \in [Keys -> Requests \cup {NoRequest}]
        OBVIOUS
      <4>2. body \in [Requests -> Bodies \cup {NoBody}]
        OBVIOUS
      <4>3. /\ created \in Nat
            /\ \A source \in DOMAIN engines :
                  engines[source] \in 0 .. created /\ source.factory \in made
            /\ raced \in BOOLEAN /\ crashed \in BOOLEAN
        BY <3>1
      <4>4. QED
        BY <4>1, <4>2, <4>3 DEF RangeOK
    <3>3. AnswerOK /\ LeadOK /\ FollowOK /\ PlansOK
      BY DEF AnswerOK, LeadOK, FollowOK, PlansOK
    <3>4. QED
      BY <3>2, <3>3, TypeParts
  <2>2. DomainInv /\ BodyInv /\ MadeInv /\ FlightInv /\ PlansInv /\ PreparedInv
    BY DEF DomainInv, BodyInv, MadeInv, FlightInv, PlansInv, PreparedInv
  <2>3. EnginesInv /\ IdleEngineInv /\ AnsweredAsAsked
    BY DEF EnginesInv, MakerInv, CreatorInv, ChosenInv, KeptInv, IdleEngineInv, AnsweredAsAsked
  <2>4. QED
    BY <2>1, <2>2, <2>3 DEF IInv
<1>2. IInv /\ [Next]_vars => IInv'
  BY RangeStep, AnswerStep, LeadStep, FollowStep, PlansTypeStep, TypePartsPrimed, DomainStep,
     BodyStep, MadeStep,
     FlightStep, PlansStep, PreparedStep, EnginesStep, IdleEngineStep, AnsweredStep DEF IInv
<1>3. QED
  BY <1>1, <1>2, PTL DEF Spec

\* Type correctness of the GraphQL endpoint: the leaders of the singleflight group
\* and those who wait for them among it.
THEOREM TypeCorrect == Spec => []TypeOK
BY Inductive, PTL DEF IInv

\* Every answer is one that the text of the request calls for, with its own variables,
\* whatever plans are kept and plannings are shared (ServeHTTP and preparePlan of
\* GraphQLHandler).
THEOREM AnswerSafe == Spec => []AnsweredAsAsked
BY Inductive, PTL DEF IInv

\* Where no text can be cut into a name and a document in two ways, every answer is
\* one that the request itself calls for.  The code does not see to it: operationHash
\* has nothing between the two.
THEOREM AnsweredByItselfIfCutInOneWay == Spec => [](CutInOneWay => AnsweredByItself)
<1>1. ASSUME NEW b \in Bodies, NEW c \in Bodies, CutInOneWay, SameText(b, c), NEW variables
      PROVE  AnswersOf(b, variables) = AnswersOf(c, variables)
  <2>1. b.operationName = c.operationName /\ b.doc.printed = c.doc.printed
    BY <1>1 DEF CutInOneWay
  <2>2. b.doc.valid = c.doc.valid /\ b.doc.operations = c.doc.operations
    BY <1>1, <2>1, PrintAssumption DEF SameText
  <2>3. Selectable(b) = Selectable(c) /\ Operation(b) = Operation(c)
    BY <2>1, <2>2 DEF Selectable, Operation
  <2>4. QED
    BY <2>2, <2>3 DEF AnswersOf
<1>2. ASSUME IInv, CutInOneWay PROVE AnsweredByItself
  <2> SUFFICES ASSUME NEW r \in Requests, body[r] \in Bodies, answer[r] # NoAnswer,
                      body[r].doc.parses
               PROVE  answer[r] \in AnswersOf(body[r], body[r].variables)
    BY <1>2 DEF IInv, AnsweredAsAsked, AnsweredByItself, Promised
  <2>1. PICK c \in Bodies :
            SameText(body[r], c) /\ answer[r] \in AnswersOf(c, body[r].variables)
    BY <1>2 DEF IInv, AnsweredAsAsked, Promised
  <2>2. AnswersOf(body[r], body[r].variables) = AnswersOf(c, body[r].variables)
    BY <1>1, <1>2, <2>1
  <2>3. QED
    BY <2>1, <2>2
<1>3. IInv => (CutInOneWay => AnsweredByItself)
  BY <1>2
<1>4. QED
  BY <1>3, Inductive, PTL

\* The plans of one data source have one engine, unless two plannings have used the
\* map of one copy of LazyEngineFactory at a time.
THEOREM EngineShared == Spec => []EngineIsShared
<1>1. IInv => EngineIsShared
  BY DEF IInv, EnginesInv, KeptInv, EngineOf, EngineIsShared
<1>2. QED
  BY <1>1, Inductive, PTL
-----------------------------------------------------------------------------
(* The endpoint implements one that keeps and shares nothing *)

\* Between two requests, one has no body: what it asked is gone with its answer.
IdleBodyInv == \A r \in Requests : at[r] = "idle" => body[r] = NoBody

\* Only Release makes a request idle, and it resets the body.
LEMMA IdleBodyStep == IInv /\ IdleBodyInv /\ [Next]_vars => IdleBodyInv'
<1> SUFFICES ASSUME IInv, IdleBodyInv, [Next]_vars PROVE IdleBodyInv'
  OBVIOUS
<1> USE TypeParts DEF IInv, RangeOK, IdleBodyInv, vars, request, Goto, Answer
<1>1. ASSUME NEW r \in Requests, NEW b \in Bodies, Arrive(r, b) PROVE IdleBodyInv'
  BY <1>1 DEF Arrive
<1>2. ASSUME NEW r \in Requests, Lookup(r) PROVE IdleBodyInv'
  BY <1>2 DEF Lookup
<1>3. ASSUME NEW r \in Requests, Resolve(r) PROVE IdleBodyInv'
  BY <1>3, ResolveAnswers
<1>4. ASSUME NEW r \in Requests, Release(r) PROVE IdleBodyInv'
  BY <1>4 DEF Release
<1>5. ASSUME NEW r \in Requests, Prepare(r) PROVE IdleBodyInv'
  BY <1>5 DEF Prepare
<1>6. ASSUME NEW r \in Requests, Refuse(r) PROVE IdleBodyInv'
  BY <1>6 DEF Refuse
<1>7. ASSUME NEW r \in Requests, Validate(r) PROVE IdleBodyInv'
  BY <1>7 DEF Validate
<1>13. ASSUME NEW r \in Requests, CheckMap(r) PROVE IdleBodyInv'
  BY <1>13 DEF CheckMap
<1>14. ASSUME NEW r \in Requests, MakeMap(r) PROVE IdleBodyInv'
  BY <1>14 DEF MakeMap
<1>8. ASSUME NEW r \in Requests, FindEngine(r) PROVE IdleBodyInv'
  BY <1>8 DEF FindEngine
<1>9. ASSUME NEW r \in Requests, CreateEngine(r) PROVE IdleBodyInv'
  BY <1>9 DEF CreateEngine
<1>10. ASSUME NEW r \in Requests, Store(r) PROVE IdleBodyInv'
  BY <1>10 DEF Store
<1>11. CASE Crash
  BY <1>11 DEF Crash
<1>12. CASE UNCHANGED vars
  BY <1>12
<1> HIDE DEF IInv, RangeOK, IdleBodyInv
<1>15. QED
  BY <1>1, <1>2, <1>3, <1>4, <1>5, <1>6, <1>7, <1>8, <1>9, <1>10, <1>11,
     <1>12, <1>13, <1>14 DEF Next, Handle

\* A request has a body exactly while it is under way.
LEMMA NoBodyIsIdle ==
    ASSUME IInv, IdleBodyInv, NEW r \in Requests
    PROVE  at[r] = "idle" <=> body[r] = NoBody
<1>1. NoBody \notin Bodies
  <2>1. DOMAIN NoBody = {"doc"}
    BY DEF NoBody
  <2>2. QED
    BY <2>1, BodiesAssumption
<1>2. QED
  BY <1>1 DEF IInv, BodyInv, IdleBodyInv

\* The answers of the abstract endpoint are the promised ones.
LEMMA DirectAnswers ==
    ASSUME IInv, NEW r \in Requests, at[r] # "idle"
    PROVE  [b \in Bodies |-> Promised(b)][body[r]] = Promised(body[r])
<1>1. body[r] \in Bodies
  BY DEF IInv, BodyInv
<1>2. QED
  BY <1>1

\* A request that is under way and not about to be released has no answer yet.
LEMMA Unanswered ==
    ASSUME IInv, NEW r \in Requests, at[r] # "release"
    PROVE  answer[r] = NoAnswer
BY TypeParts DEF IInv, AnswerOK

\* Every step is one of the abstract endpoint, or none that a client sees: only
\* Arrive, Resolve, Refuse and Release are.
LEMMA DirectStep ==
    IInv /\ IInv' /\ IdleBodyInv /\ [Next]_vars => [Direct!Next]_(Direct!clientVars)
<1> SUFFICES ASSUME IInv, IInv', IdleBodyInv, [Next]_vars
             PROVE  Direct!Next \/ UNCHANGED Direct!clientVars
  OBVIOUS
<1> DEFINE Answers == [b \in Bodies |-> Promised(b)]
<1>1. ASSUME NEW r \in Requests, NEW b \in Bodies, Arrive(r, b)
      PROVE  Direct!Ask(r, b)
  <2>1. at[r] = "idle" /\ body' = [body EXCEPT ![r] = b]
    BY <1>1 DEF Arrive
  <2>2. body[r] = NoBody
    BY <2>1, NoBodyIsIdle
  <2>3. UNCHANGED answer \/ (~b.doc.parses /\ answer' = [answer EXCEPT ![r] = BadRequest])
    BY <1>1 DEF Arrive, Answer
  <2>4. ~b.doc.parses => BadRequest \in Answers[b]
    BY DEF Promised
  <2> HIDE DEF Answers
  <2>5. answer' = answer \/ \E a \in Answers[b] : answer' = [answer EXCEPT ![r] = a]
    BY <2>3, <2>4
  <2>6. QED
    BY <2>1, <2>2, <2>5 DEF Direct!Ask, Answers
<1>2. ASSUME NEW r \in Requests, Resolve(r)
      PROVE  Direct!Respond({r})
  <2>1. at[r] = "resolve" /\ UNCHANGED body
    BY <1>2, ResolveAnswers
  <2>2. PICK a : answer' = [answer EXCEPT ![r] = a] /\ a # NoAnswer
    BY <1>2, ResolveAnswers
  <2>3. DOMAIN answer = Requests
    BY DEF IInv, DomainInv
  <2>4. body[r] # NoBody /\ answer[r] = NoAnswer
    BY <2>1, NoBodyIsIdle, Unanswered
  <2>5. answer'[r] \in Answers[body[r]]
    <3>1. answer'[r] # NoAnswer
      BY <2>2, <2>3
    <3>2. answer'[r] \in Promised(body[r])
      BY <2>1, <3>1 DEF IInv, AnsweredAsAsked
    <3>3. QED
      BY <2>1, <3>2, DirectAnswers
  <2>6. DOMAIN answer' = Requests /\ \A q \in Requests \ {r} : answer'[q] = answer[q]
    BY <2>2, <2>3
  <2> HIDE DEF Answers
  <2>7. QED
    BY <2>1, <2>4, <2>5, <2>6 DEF Direct!Respond, Answers
<1>3. ASSUME NEW r \in Requests, Refuse(r)
      PROVE  Direct!Respond(Followers(r) \cup {r})
  <2> DEFINE refused == Followers(r) \cup {r}
  <2>1. at[r] = "validate" /\ UNCHANGED body
    BY <1>3 DEF Refuse
  <2>2. answer' = [q \in Requests |-> IF q \in refused THEN BadRequest ELSE answer[q]]
    BY <1>3 DEF Refuse
  <2>3. \A q \in refused : q \in Requests /\ at[q] \in {"wait", "validate"}
    BY <2>1 DEF Followers
  <2> HIDE DEF refused
  <2>4. ASSUME NEW q \in refused
        PROVE  /\ body[q] # NoBody /\ answer[q] = NoAnswer
               /\ answer'[q] \in Answers[body[q]]
    <3>1. q \in Requests /\ at[q] \notin {"idle", "release"}
      BY <2>3
    <3>2. body[q] # NoBody /\ answer[q] = NoAnswer
      BY <3>1, NoBodyIsIdle, Unanswered
    <3>3. answer'[q] # NoAnswer
      BY <2>2, <3>1 DEF BadRequest, NoAnswer
    <3>4. answer'[q] \in Promised(body[q])
      BY <2>1, <3>1, <3>3 DEF IInv, AnsweredAsAsked
    <3>5. QED
      BY <3>1, <3>2, <3>4, DirectAnswers
  <2>5. DOMAIN answer' = Requests /\ \A q \in Requests \ refused : answer'[q] = answer[q]
    BY <2>2
  <2> HIDE DEF Answers
  <2>6. Direct!Respond(refused)
    BY <2>1, <2>4, <2>5 DEF Direct!Respond, Answers
  <2>7. QED
    BY <2>6 DEF refused
<1>4. ASSUME NEW r \in Requests, Release(r)
      PROVE  Direct!Leave(r)
  <2>1. at[r] = "release" => answer[r] # NoAnswer
    BY TypeParts DEF IInv, AnswerOK
  <2>2. QED
    BY <1>4, <2>1 DEF Release, Direct!Leave
<1>5. ASSUME NEW r \in Requests,
             \/ Lookup(r) \/ Prepare(r) \/ Validate(r) \/ CheckMap(r) \/ MakeMap(r)
             \/ FindEngine(r) \/ CreateEngine(r) \/ Store(r)
      PROVE  UNCHANGED Direct!clientVars
  BY <1>5 DEF Lookup, Prepare, Validate, CheckMap, MakeMap, FindEngine, CreateEngine, Store,
              Direct!clientVars
<1>6. CASE Crash \/ UNCHANGED vars
  BY <1>6 DEF Crash, vars, request, Direct!clientVars
<1>7. ASSUME NEW r \in Requests PROVE Followers(r) \cup {r} \subseteq Requests
  BY DEF Followers
<1>8. ASSUME NEW r \in Requests, Handle(r) PROVE Direct!Next \/ UNCHANGED Direct!clientVars
  <2>1. CASE Resolve(r)
    BY <1>2, <2>1 DEF Direct!Next
  <2>2. CASE Refuse(r)
    BY <1>3, <1>7, <2>2 DEF Direct!Next
  <2>3. CASE Release(r)
    BY <1>4, <2>3 DEF Direct!Next
  <2>4. QED
    BY <1>5, <1>8, <2>1, <2>2, <2>3 DEF Handle
<1>9. ASSUME NEW r \in Requests, NEW b \in Bodies, Arrive(r, b) PROVE Direct!Next
  BY <1>1, <1>9 DEF Direct!Next
<1>10. QED
  BY <1>6, <1>8, <1>9 DEF Next

\* The GraphQL endpoint implements the endpoint that keeps and shares nothing: the
\* plan cache, the singleflight group and the shared engines do not show (ServeHTTP
\* and preparePlan of GraphQLHandler).
THEOREM DirectRefinement == Spec => DirectSpec
<1>1. Init => Direct!Init /\ IdleBodyInv
  BY DEF Init, Direct!Init, IdleBodyInv
<1>2. QED
  BY <1>1, Inductive, IdleBodyStep, DirectStep, PTL DEF Spec, DirectSpec, Direct!Spec
=============================================================================
