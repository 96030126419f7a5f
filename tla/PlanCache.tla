------------------------------ MODULE PlanCache ------------------------------
(***************************************************************************)
(* The GraphQL endpoint: GraphQLHandler of pkg/apihandler/apihandler.go.   *)
(* The plan of an operation is made by the first request that asks for it  *)
(* and kept for the others.  Requests that ask for it meanwhile wait for   *)
(* that planning; requests for other operations plan at the same time, and *)
(* their planners share the database engines of their data source factory, *)
(* of which a data source with its own HTTP client has a copy.             *)
(*                                                                         *)
(* A document stands for its text.  What counts is how it is printed as it *)
(* was parsed and as it is normalised, and of each of its operations the   *)
(* literals that normalisation turns into variables and the data source    *)
(* that resolves it.  A text is a sequence of parts.  The hash of a text   *)
(* is not the hash of another, but a text may be cut into an operation     *)
(* name and a document in more than one way.  The Shared that a request    *)
(* gets from the pool was reset by the request before it.                  *)
(***************************************************************************)
EXTENDS Naturals, FiniteSets, Sequences, TLC

CONSTANTS
    Requests,       \* requests that the endpoint handles at a time
    Bodies,         \* what they ask: a document, an operation name, variables
    NoSource        \* the data source of an operation that needs no database

\* An operation is named, and <<>> is no operation name.  A document that "parses" is
\* one that was read, parsed and printed.
ASSUME BodiesAssumption ==
    \A body \in Bodies :
        /\ DOMAIN body = {"doc", "operationName", "variables"}
        /\ DOMAIN body.doc = {"parses", "valid", "printed", "normalised", "operations"}
        /\ <<>> \notin DOMAIN body.doc.operations

\* What is printed tells a document from another, but for white space.
ASSUME PrintAssumption ==
    \A b, c \in Bodies :
        b.doc.parses /\ c.doc.parses /\ b.doc.printed = c.doc.printed
        => b.doc.valid = c.doc.valid /\ b.doc.operations = c.doc.operations

VARIABLES
    at,             \* where each request is
    body,           \* its body
    engine,         \* the engine that its planner was given
    prepared,       \* the plan that it goes on with, and its variables
    answer,         \* its answer
    plans,          \* GraphQLHandler.prepared, by operation hash
    flight,         \* the calls of the singleflight group, with their leaders
    made,           \* the copies of the factory whose map of engines was made
    engines,        \* LazyEngineFactory.engines of all copies, by data source
    created,        \* number of engines that were created
    raced,          \* has a planner read a map that another one was about to write?
    crashed         \* the runtime has found the concurrent use of the map

request == <<at, body, engine, prepared, answer>>
factory == <<made, engines, created, raced>>
vars == <<request, plans, flight, factory, crashed>>

NoBody == [doc |-> "none"]
NoRequest == "none"
ASSUME RequestsAssumption == NoRequest \notin Requests
NoEngine == 0
NoPlan == [kind |-> "none"]
EmptyPlan == [kind |-> "empty"]
NoAnswer == [kind |-> "none"]

Operation(b) ==
    IF b.operationName # <<>> THEN b.doc.operations[b.operationName]
    ELSE LET name == CHOOSE n \in DOMAIN b.doc.operations : TRUE IN b.doc.operations[name]

\* selectOperation of the planner: the named operation, or the only one.
Selectable(b) ==
    IF b.operationName # <<>> THEN b.operationName \in DOMAIN b.doc.operations
    ELSE Cardinality(DOMAIN b.doc.operations) = 1

\* Mutant of Key: the document is printed after the literals were extracted.
KeyNormalised(b) == b.operationName \o b.doc.normalised

\* operationHash: the operation name and the document as it was parsed are written
\* into one hash, and nothing between them.
Key(b) == b.operationName \o b.doc.printed
Keys == {Key(b) : b \in Bodies}

\* The literals of a document go over the variables of the request.
Over(literals, variables) == literals @@ variables

\* A plan resolves the operation it was made from, with its literals.
PlanOf(b, e) ==
    IF Selectable(b)
    THEN [kind |-> "plan", operation |-> Operation(b), engine |-> e]
    ELSE EmptyPlan

IsPlan(p) == p = EmptyPlan \/ p.engine \in 0 .. created

Planning == {"validate", "engines", "make", "find", "create", "store"}

TypeOK ==
    /\ at \in [Requests -> {"idle", "lookup", "prepare", "wait", "resolve", "release"} \cup Planning]
    /\ body \in [Requests -> Bodies \cup {NoBody}]
    /\ engine \in [Requests -> 0 .. created]
    /\ \A r \in Requests :
          /\ prepared[r] = NoPlan \/ IsPlan(prepared[r])
          /\ at[r] = "release" <=> answer[r] # NoAnswer
          /\ at[r] \in Planning => flight[Key(body[r])] = r
          /\ at[r] = "wait" => \E leader \in Requests :
                flight[Key(body[r])] = leader /\ at[leader] \in Planning
    /\ \A k \in Keys : plans[k] = NoPlan \/ IsPlan(plans[k])
    /\ flight \in [Keys -> Requests \cup {NoRequest}]
    /\ created \in Nat
    /\ \A source \in DOMAIN engines : engines[source] \in 0 .. created /\ source.factory \in made
    /\ raced \in BOOLEAN /\ crashed \in BOOLEAN

Init ==
    /\ at = [r \in Requests |-> "idle"]
    /\ body = [r \in Requests |-> NoBody]
    /\ engine = [r \in Requests |-> NoEngine]
    /\ prepared = [r \in Requests |-> NoPlan]
    /\ answer = [r \in Requests |-> NoAnswer]
    /\ plans = [k \in Keys |-> NoPlan]
    /\ flight = [k \in Keys |-> NoRequest]
    /\ made = {} /\ engines = <<>> /\ created = 0
    /\ raced = FALSE /\ crashed = FALSE

Goto(r, where) == at' = [at EXCEPT ![r] = where]

Answer(r, a) ==
    /\ Goto(r, "release")
    /\ answer' = [answer EXCEPT ![r] = a]
BadRequest == [kind |-> "bad"]
-----------------------------------------------------------------------------
(* ServeHTTP *)

\* The body is read, its document parsed and printed, or one of these fails.
Arrive(r, b) ==
    /\ at[r] = "idle"
    /\ body' = [body EXCEPT ![r] = b]
    /\ IF b.doc.parses THEN Goto(r, "lookup") /\ UNCHANGED answer
       ELSE Answer(r, BadRequest)
    /\ UNCHANGED <<engine, prepared, plans, flight, factory, crashed>>

\* The plans are read under the read lock.
Lookup(r) ==
    /\ at[r] = "lookup"
    /\ prepared' = [prepared EXCEPT ![r] = plans[Key(body[r])]]
    /\ Goto(r, IF prepared'[r] = NoPlan THEN "prepare" ELSE "resolve")
    /\ UNCHANGED <<body, engine, answer, plans, flight, factory, crashed>>

\* The empty plan is none of the kinds that ServeHTTP knows: 200 and no body.
Resolve(r) ==
    /\ at[r] = "resolve"
    /\ \/ /\ prepared[r] # EmptyPlan
          /\ Answer(r, [kind |-> "resolved", operation |-> prepared[r].operation,
                        variables |-> Over(prepared[r].operation.literals, body[r].variables)])
       \/ prepared[r] # EmptyPlan /\ Answer(r, [kind |-> "resolver failed"])
       \/ prepared[r] = EmptyPlan /\ Answer(r, [kind |-> "empty"])
    /\ UNCHANGED <<body, engine, prepared, plans, flight, factory, crashed>>

Release(r) ==
    /\ at[r] = "release"
    /\ Goto(r, "idle")
    /\ body' = [body EXCEPT ![r] = NoBody]
    /\ prepared' = [prepared EXCEPT ![r] = NoPlan]
    /\ answer' = [answer EXCEPT ![r] = NoAnswer]
    /\ UNCHANGED <<engine, plans, flight, factory, crashed>>
-----------------------------------------------------------------------------
(* preparePlan *)

Followers(r) == {f \in Requests : at[f] = "wait" /\ flight[Key(body[f])] = r}

\* Mutant of Prepare: every request plans for itself.
PrepareAlone(r) ==
    /\ at[r] = "prepare"
    /\ flight' = [flight EXCEPT ![Key(body[r])] = r]
    /\ Goto(r, "validate")
    /\ UNCHANGED <<body, engine, prepared, answer, plans, factory, crashed>>

\* Do of the singleflight group: lead the call of the operation, or wait for it.
Prepare(r) ==
    LET k == Key(body[r]) IN
    /\ at[r] = "prepare"
    /\ IF flight[k] = NoRequest
       THEN flight' = [flight EXCEPT ![k] = r] /\ Goto(r, "validate")
       ELSE Goto(r, "wait") /\ UNCHANGED flight
    /\ UNCHANGED <<body, engine, prepared, answer, plans, factory, crashed>>

\* Mutant of Refuse: the requests of the call look the plan up again.
RefuseAndLookAgain(r) ==
    /\ at[r] = "validate" /\ ~body[r].doc.valid
    /\ at' = [q \in Requests |-> IF q \in Followers(r) \cup {r} THEN "lookup" ELSE at[q]]
    /\ flight' = [flight EXCEPT ![Key(body[r])] = NoRequest]
    /\ UNCHANGED <<body, engine, prepared, answer, plans, factory, crashed>>

\* The document is not valid: the leader and those who wait answer 400.
Refuse(r) ==
    LET refused == Followers(r) \cup {r} IN
    /\ at[r] = "validate" /\ ~body[r].doc.valid
    /\ at' = [q \in Requests |-> IF q \in refused THEN "release" ELSE at[q]]
    /\ answer' = [q \in Requests |-> IF q \in refused THEN BadRequest ELSE answer[q]]
    /\ flight' = [flight EXCEPT ![Key(body[r])] = NoRequest]
    /\ UNCHANGED <<body, engine, prepared, plans, factory, crashed>>

\* The document is normalised and valid.  The planner may not find the operation;
\* its report is not looked at.
Validate(r) ==
    /\ at[r] = "validate" /\ body[r].doc.valid
    /\ Goto(r, IF Selectable(body[r]) /\ Operation(body[r]).source # NoSource
               THEN "engines" ELSE "store")
    /\ UNCHANGED <<body, engine, prepared, answer, plans, flight, factory, crashed>>

\* Another planner of the same copy of the factory is about to take one of the steps.
Source(r) == Operation(body[r]).source
Meets(r, steps) ==
    \E other \in Requests \ {r} : at[other] \in steps /\ Source(other).factory = Source(r).factory

\* Factory.Planner writes the closer of the factory, which is always the same and is left
\* out.  LazyEngineFactory.Engine uses its map without a lock: it looks for one, ...
CheckMap(r) ==
    /\ at[r] = "engines"
    /\ Goto(r, IF Source(r).factory \in made THEN "find" ELSE "make")
    /\ raced' = (raced \/ Meets(r, {"make"}))
    /\ UNCHANGED <<body, engine, prepared, answer, plans, flight, made, engines, created, crashed>>

\* ... makes an empty one, which loses what another planner has put into its own, ...
MakeMap(r) ==
    /\ at[r] = "make"
    /\ Goto(r, "find")
    /\ made' = made \cup {Source(r).factory}
    /\ engines' = [s \in {s \in DOMAIN engines : s.factory # Source(r).factory} |-> engines[s]]
    /\ UNCHANGED <<body, engine, prepared, answer, plans, flight, created, raced, crashed>>

\* ... reads it ...
FindEngine(r) ==
    /\ at[r] = "find"
    /\ IF Source(r) \in DOMAIN engines
       THEN engine' = [engine EXCEPT ![r] = engines[Source(r)]] /\ Goto(r, "store")
       ELSE Goto(r, "create") /\ UNCHANGED engine
    /\ raced' = (raced \/ Meets(r, {"create"}))
    /\ UNCHANGED <<body, prepared, answer, plans, flight, made, engines, created, crashed>>

\* Mutant of CreateEngine: the new engine is not put into the map.
CreateEngineUnkept(r) ==
    /\ at[r] = "create"
    /\ created' = created + 1 /\ created < Cardinality(Requests)
    /\ engine' = [engine EXCEPT ![r] = created']
    /\ Goto(r, "store")
    /\ UNCHANGED <<body, prepared, answer, plans, flight, made, engines, raced, crashed>>

\* ... and writes it.
CreateEngine(r) ==
    /\ at[r] = "create"
    /\ created' = created + 1
    /\ engine' = [engine EXCEPT ![r] = created']
    /\ engines' = [s \in DOMAIN engines \cup {Source(r)} |->
                     IF s = Source(r) THEN created' ELSE engines[s]]
    /\ Goto(r, "store")
    /\ UNCHANGED <<body, prepared, answer, plans, flight, made, raced, crashed>>

\* The runtime may stop the process when a map is used while it is written.
Crash ==
    /\ \E r \in Requests : at[r] = "create" /\ Meets(r, {"find", "create"})
    /\ crashed' = TRUE
    /\ UNCHANGED <<request, plans, flight, factory>>

\* The plan, with a copy of the extracted variables, is stored under the lock and
\* returned to the requests of the call, which is then forgotten.
Store(r) ==
    LET p == PlanOf(body[r], engine[r])
        served == Followers(r) \cup {r}
    IN
    /\ at[r] = "store"
    /\ plans' = [plans EXCEPT ![Key(body[r])] = p]
    /\ prepared' = [q \in Requests |-> IF q \in served THEN p ELSE prepared[q]]
    /\ at' = [q \in Requests |-> IF q \in served THEN "resolve" ELSE at[q]]
    /\ engine' = [engine EXCEPT ![r] = NoEngine]
    /\ flight' = [flight EXCEPT ![Key(body[r])] = NoRequest]
    /\ UNCHANGED <<body, answer, factory, crashed>>
-----------------------------------------------------------------------------
Handle(r) ==
    \/ Lookup(r) \/ Resolve(r) \/ Release(r)
    \/ Prepare(r) \/ Refuse(r) \/ Validate(r)
    \/ CheckMap(r) \/ MakeMap(r) \/ FindEngine(r) \/ CreateEngine(r) \/ Store(r)

Next ==
    /\ ~crashed
    /\ \/ \E r \in Requests : Handle(r) \/ \E b \in Bodies : Arrive(r, b)
       \/ Crash

Spec == Init /\ [][Next]_vars

\* A request is a goroutine of its own, which the Go runtime schedules.
FairSpec == Spec /\ \A r \in Requests : WF_vars(~crashed /\ Handle(r))
-----------------------------------------------------------------------------
(* What the endpoint guarantees *)

\* What a body calls for, with these variables.
AnswersOf(b, variables) ==
    IF ~b.doc.valid THEN {BadRequest}
    ELSE IF ~Selectable(b) THEN {[kind |-> "empty"]}
    ELSE {[kind |-> "resolver failed"],
          [kind |-> "resolved", operation |-> Operation(b),
           variables |-> Over(Operation(b).literals, variables)]}

\* The text of a request is its operation name and its document.  The name is the
\* client's to choose: one that goes on with the document's first words cuts the
\* text elsewhere.
SameText(b, c) ==
    b.doc.parses /\ c.doc.parses
    /\ b.operationName \o b.doc.printed = c.operationName \o c.doc.printed

\* What a request is answered is what its text calls for, with its own variables:
\* neither the plans that are kept nor the planning that it shares shows in the
\* answer, but in that a text that can be cut in two ways may be answered as if it
\* were cut in the other, for example with the empty plan of a name that is none.
Promised(b) ==
    IF ~b.doc.parses THEN {BadRequest}
    ELSE UNION {AnswersOf(c, b.variables) : c \in {c \in Bodies : SameText(b, c)}}
AnsweredAsAsked == \A r \in Requests : answer[r] # NoAnswer => answer[r] \in Promised(body[r])

\* Where all texts are cut in one way, it is what the request itself calls for.
CutInOneWay ==
    \A b, c \in Bodies :
        SameText(b, c) => b.operationName = c.operationName /\ b.doc.printed = c.doc.printed
AnsweredByItself ==
    \A r \in Requests :
        body[r] \in Bodies /\ answer[r] # NoAnswer =>
            answer[r] \in IF body[r].doc.parses THEN AnswersOf(body[r], body[r].variables)
                          ELSE {BadRequest}

\* The endpoint implements one that keeps and shares nothing: whatever plans are kept
\* and whoever waits for whose planning, each request is answered once, as its own
\* text calls for, and no step of another request changes what it asked or was told.
Direct == INSTANCE DirectEndpoint WITH Answers <- [b \in Bodies |-> Promised(b)]
DirectSpec == Direct!Spec

\* The plans of one data source share its engine, unless two plannings have used
\* the map of the engines of one factory at a time.
EngineIsShared ==
    \/ raced
    \/ \A k, l \in Keys :
          (/\ plans[k].kind = "plan" /\ plans[l].kind = "plan"
           /\ plans[k].operation.source = plans[l].operation.source)
          => plans[k].engine = plans[l].engine

\* A request that waits for the planning of another one is answered as well.
RequestsAreAnswered ==
    \A r \in Requests : at[r] = "lookup" ~> (answer[r] # NoAnswer \/ crashed)
=============================================================================
