--------------------------- MODULE OperationHooks ---------------------------
(***************************************************************************)
(* One request to an operation and the hooks around it: QueryHandler, its  *)
(* live variant, MutationHandler, SubscriptionHandler (pkg/apihandler/     *)
(* apihandler.go) and InternalApiHandler (internalapihandler.go), with the *)
(* onOriginRequest and onOriginResponse hooks of ApiTransport around the   *)
(* call of the origin (apitransport.go).                                   *)
(*                                                                         *)
(* A hook is a call to the hooks server through hooks.Client, which tries  *)
(* a call that got no answer, or a 5xx one, again (pkg/hooks/hooks.go).    *)
(* The input is abstracted to the number of times that a                   *)
(* mutatingPreResolve hook has mutated it, the client request's headers to *)
(* who set them, and a response to what it was made from.                  *)
(***************************************************************************)
EXTENDS Naturals, Sequences

CONSTANTS
    RetryMax,    \* how often hooks.Client repeats a call (3 in the code)
    HookSets,    \* combinations of hooks that operations are configured with
    MaxData,     \* bound: how often the origin's data changes
    MaxPolls     \* bound: polls of a live query that are told apart

ASSUME BoundsAssumption ==
    RetryMax \in Nat /\ MaxData \in Nat /\ MaxPolls \in Nat \ {0}

VARIABLES
    kind,        \* which handler serves the request
    hooks,       \* the hooks configured for the operation
    once,        \* does the request say wg_subscribe_once?
    database,    \* does the mutation go to a database?
    ctxDone,     \* is the request's context done?
    pc,          \* the step the handler is at
    attempt,     \* at a hook: which attempt of the call waits for its answer
    polls,       \* events of a live query so far
    input,       \* ctx.Variables
    headers,     \* the headers of the client request
    data,        \* the version of the data the origin has
    applied,     \* how often the origin has applied the mutation: never, once, or more
    response,    \* the response under way
    status,      \* the status code
    last,        \* the last body written
    bodies,      \* how many were written: none, one, or more
    failed       \* the steps that failed, other than by cancellation

reqVars == <<kind, hooks, once, database>>
sentVars == <<last, bodies>>
vars == <<reqVars, ctxDone, pc, attempt, polls, input, headers, data, applied,
          response, status, sentVars, failed>>

Order == <<"accept", "mockResolve", "preResolve", "mutatingPreResolve",
           "customResolve", "onOriginRequest", "origin", "onOriginResponse",
           "postResolve", "mutatingPostResolve", "write">>
Steps == {Order[i] : i \in 1 .. Len(Order)}
Hooks == Steps \ {"accept", "origin", "write"}
PreHooks == {"preResolve", "mutatingPreResolve"}
OriginHooks == {"onOriginRequest", "onOriginResponse"}

ASSUME HooksAssumption == HookSets \subseteq SUBSET Hooks

Synchronous == {"query", "mutation", "internal"}
Streams == {"live", "subscription"}
Kinds == Synchronous \cup Streams

\* The hooks each handler knows.  A subscription asks its origin once, through the
\* transport in streaming mode, which leaves onOriginResponse out.
Supported ==
    [k \in Kinds |->
        CASE k = "subscription" ->
                PreHooks \cup {"onOriginRequest", "postResolve", "mutatingPostResolve"}
          [] k = "internal" -> OriginHooks
          [] OTHER -> Hooks]

\* A database engine is not called through the transport.
Enabled == (hooks \cap Supported[kind]) \ (IF database THEN OriginHooks ELSE {})

\* The step after s: the next enabled hook, the origin or the write.
Index(s) == CHOOSE i \in 1 .. Len(Order) : Order[i] = s
Runs(i) == Order[i] \in Enabled \cup {"origin", "write"}
After(s) ==
    Order[CHOOSE i \in Index(s) + 1 .. Len(Order) :
            Runs(i) /\ \A j \in Index(s) + 1 .. i - 1 : ~Runs(j)]

Froms == {"none", "origin", "mock", "custom", "error", "text", "empty"}
Body(from) == [from |-> from, data |-> 0, input |-> 0, headers |-> "client", mutated |-> FALSE]
More(n) == IF n = 0 THEN 1 ELSE 2
Saturated(n) == IF n < MaxPolls THEN n + 1 ELSE MaxPolls

Responses == [from : Froms, data : 0 .. MaxData, input : 0 .. MaxPolls,
              headers : {"client"} \cup Hooks, mutated : BOOLEAN]

TypeOK ==
    /\ kind \in Kinds /\ hooks \in HookSets /\ once \in BOOLEAN /\ database \in BOOLEAN
    /\ ctxDone \in BOOLEAN
    /\ pc \in Steps \cup {"wait", "done"}
    /\ attempt \in 0 .. RetryMax + 1
    /\ (attempt # 0) <=> (pc \in Hooks)
    /\ polls \in 0 .. MaxPolls
    /\ input \in 0 .. MaxPolls
    /\ headers \in {"client"} \cup Hooks
    /\ data \in 0 .. MaxData
    /\ applied \in 0 .. 2
    /\ response \in Responses
    /\ last \in Responses
    /\ bodies \in 0 .. 2
    /\ status \in {"none", "ok", "refused", "error", "timeout", "canceled"}
    /\ failed \subseteq Steps

Init ==
    /\ kind \in Kinds
    /\ hooks \in HookSets
    /\ once \in (IF kind \in Streams THEN BOOLEAN ELSE {FALSE})
    /\ database \in (IF kind = "mutation" THEN BOOLEAN ELSE {FALSE})
    /\ ctxDone = FALSE
    /\ pc = "accept"
    /\ attempt = 0
    /\ polls = 0
    /\ input = 0
    /\ headers = "client"
    /\ data = 0
    /\ applied = 0
    /\ response = Body("none")
    /\ status = "none"
    /\ last = Body("none")
    /\ bodies = 0
    /\ failed = {}
-----------------------------------------------------------------------------
(* The pieces the actions are made of *)

\* A hook call begins with its first attempt.
Goto(s) ==
    /\ pc' = s
    /\ attempt' = IF s \in Hooks THEN 1 ELSE 0

\* Only the first WriteHeader of a response counts.
Settle(code) == status' = IF status = "none" THEN code ELSE status

WriteBody(body) ==
    /\ last' = body
    /\ bodies' = More(bodies)

\* handleOperationErr: a plain text, or 504 and nothing after a deadline.
ReplyError ==
    \/ Settle("error") /\ WriteBody(Body("text"))
    \/ Settle("timeout") /\ UNCHANGED sentVars

\* Roles and variables are checked; a stream's 200 is flushed before any hook.
Accept ==
    /\ pc = "accept"
    /\ \/ /\ Settle("refused")
          /\ Goto("done")
          /\ polls' = polls
       \/ /\ status' = IF kind \in Streams THEN "ok" ELSE "none"
          /\ Goto(After("accept"))
          /\ polls' = Saturated(polls)
    /\ UNCHANGED <<reqVars, ctxDone, input, headers, data, applied, response, sentVars, failed>>
-----------------------------------------------------------------------------
(* The hook calls *)

\* The mutation handler does not take the headers of a mockResolve answer.
MockAnswers ==
    /\ pc = "mockResolve"
    /\ headers' = IF kind = "mutation" THEN headers ELSE "mockResolve"
    /\ Settle("ok")
    /\ WriteBody(Body("mock"))
    /\ Goto("done")
    /\ UNCHANGED <<reqVars, ctxDone, polls, input, data, applied, response, failed>>

PreAnswers ==
    /\ pc = "preResolve"
    /\ headers' = "preResolve"
    /\ Goto(After(pc))
    /\ UNCHANGED <<reqVars, ctxDone, polls, input, data, applied, response, status, sentVars, failed>>

\* The query handler drops the input that the hook returns.
MutatingPreAnswers ==
    /\ pc = "mutatingPreResolve"
    /\ headers' = "mutatingPreResolve"
    /\ input' = IF kind = "query" THEN input ELSE Saturated(input)
    /\ Goto(After(pc))
    /\ UNCHANGED <<reqVars, ctxDone, polls, data, applied, response, status, sentVars, failed>>

\* A null answer means that the hook leaves the request to the resolver.
CustomAnswers ==
    /\ pc = "customResolve"
    /\ headers' = "customResolve"
    /\ \/ /\ Goto(After(pc))
          /\ response' = response
       \/ /\ response' = Body("custom")
          /\ Goto("write")
    /\ UNCHANGED <<reqVars, ctxDone, polls, input, data, applied, status, sentVars, failed>>

\* Skip, or another request or response in place of the one at hand.
OriginHookAnswers ==
    /\ pc \in OriginHooks
    /\ Goto(After(pc))
    /\ UNCHANGED <<reqVars, ctxDone, polls, input, headers, data, applied, response, status,
                   sentVars, failed>>

PostAnswers ==
    /\ pc = "postResolve"
    /\ Goto(After(pc))
    /\ UNCHANGED <<reqVars, ctxDone, polls, input, headers, data, applied, response, status,
                   sentVars, failed>>

MutatingPostAnswers ==
    /\ pc = "mutatingPostResolve"
    /\ response' = [response EXCEPT !.mutated = TRUE]
    /\ headers' = IF kind = "mutation" THEN "mutatingPostResolve" ELSE headers
    /\ Goto(After(pc))
    /\ UNCHANGED <<reqVars, ctxDone, polls, input, data, applied, status, sentVars, failed>>

\* Mutant of Retry: the input an unfinished attempt mutated is kept.
RetryOnMutatedInput ==
    /\ pc \in Hooks
    /\ ~ctxDone
    /\ attempt <= RetryMax
    /\ attempt' = attempt + 1
    /\ input' = IF pc = "mutatingPreResolve" THEN Saturated(input) ELSE input
    /\ UNCHANGED <<reqVars, ctxDone, pc, polls, headers, data, applied, response, status,
                   sentVars, failed>>

\* Mutant of Retry: one repetition too many.
RetryOnceMore ==
    /\ pc \in Hooks
    /\ ~ctxDone
    /\ attempt <= RetryMax + 1
    /\ attempt' = attempt + 1
    /\ UNCHANGED <<reqVars, ctxDone, pc, polls, input, headers, data, applied, response, status,
                   sentVars, failed>>

\* Mutant of Retry: the attempts are not counted.
RetryForEver ==
    /\ pc \in Hooks
    /\ attempt' = IF attempt <= RetryMax THEN attempt + 1 ELSE 1
    /\ UNCHANGED <<reqVars, ctxDone, pc, polls, input, headers, data, applied, response, status,
                   sentVars, failed>>

\* No answer within the client's timeout, a lost connection, or a 5xx answer,
\* which is how the hooks server says that the hook has thrown.
Retry ==
    /\ pc \in Hooks
    /\ ~ctxDone
    /\ attempt <= RetryMax
    /\ attempt' = attempt + 1
    /\ UNCHANGED <<reqVars, ctxDone, pc, polls, input, headers, data, applied, response, status,
                   sentVars, failed>>

\* Mutant of FailSynchronous: an operation whose last hook fails is resolved again.
FailSynchronousResolvesAgain ==
    /\ kind \in Synchronous
    /\ response' = response
    /\ IF pc = "mutatingPostResolve"
       THEN Goto("origin") /\ UNCHANGED <<status, sentVars>>
       ELSE Goto("done") /\ ReplyError

\* What a handler does with an error of the step it is at.
FailSynchronous ==
    /\ kind \in Synchronous
    /\ ReplyError
    /\ Goto("done")
    /\ response' = response

\* Mutant of FailLive: as in a subscription, the response is sent as it is.
FailLiveSendsAnyway ==
    /\ kind = "live"
    /\ IF pc = "mockResolve"
       THEN /\ ReplyError
            /\ Goto("done")
            /\ response' = response
       ELSE /\ response' = IF pc = "mutatingPostResolve" THEN response ELSE Body("error")
            /\ Goto("write")
            /\ UNCHANGED <<status, sentVars>>

FailLive ==
    /\ kind = "live"
    /\ IF pc = "mockResolve"
       THEN /\ ReplyError
            /\ Goto("done")
            /\ response' = response
       ELSE /\ response' = Body("error")
            /\ Goto("write")
            /\ UNCHANGED <<status, sentVars>>

FailSubscription ==
    /\ kind = "subscription"
    /\ CASE pc \in PreHooks -> ReplyError /\ Goto("done")
         [] pc = "postResolve" -> ReplyError /\ Goto(After(pc))
         [] pc = "mutatingPostResolve" -> Goto(After(pc)) /\ UNCHANGED <<status, sentVars>>
         [] pc \in {"onOriginRequest", "origin"} -> Goto("done") /\ UNCHANGED <<status, sentVars>>
    /\ response' = response

Fail ==
    /\ failed' = failed \cup {pc}
    /\ FailSynchronous \/ FailLive \/ FailSubscription

\* The attempts are used up, the answer is not a usable one, or the hook cancels.
HookFails ==
    /\ pc \in Hooks
    /\ Fail
    /\ UNCHANGED <<reqVars, ctxDone, polls, input, headers, data, applied>>
-----------------------------------------------------------------------------
(* The origin *)

Resolved == [from |-> "origin", data |-> data, input |-> input, headers |-> headers,
             mutated |-> FALSE]

\* What a call that was sent has done, whatever became of its answer.
MayApply == applied' \in (IF kind = "mutation" THEN {applied, More(applied)} ELSE {applied})

OriginAnswers ==
    /\ pc = "origin" /\ kind # "subscription"
    /\ response' = Resolved
    /\ applied' = IF kind = "mutation" THEN More(applied) ELSE applied
    /\ Goto(After(pc))
    /\ UNCHANGED <<reqVars, ctxDone, polls, input, headers, data, status, sentVars, failed>>

\* Source.Load repeats a call of the database that has failed, within five seconds; the
\* one whose answer broke off may have been applied.
OriginRepeats ==
    /\ pc = "origin" /\ database /\ ~ctxDone
    /\ MayApply
    /\ UNCHANGED <<reqVars, ctxDone, pc, attempt, polls, input, headers, data, response, status,
                   sentVars, failed>>

\* The call fails, for a database until its time is over, or what it returned cannot be
\* transformed.
OriginFails ==
    /\ pc = "origin"
    /\ Fail
    /\ MayApply
    /\ UNCHANGED <<reqVars, ctxDone, polls, input, headers, data>>

\* The upstream of a subscription has an event, which brings new data, or ends.
Event ==
    /\ pc = "origin" /\ kind = "subscription"
    /\ data < MaxData
    /\ data' = data + 1
    /\ response' = [Resolved EXCEPT !.data = data + 1]
    /\ Goto(After(pc))
    /\ UNCHANGED <<reqVars, ctxDone, polls, input, headers, applied, status, sentVars, failed>>

UpstreamEnds ==
    /\ pc = "origin" /\ kind = "subscription"
    /\ Goto("done")
    /\ UNCHANGED <<reqVars, ctxDone, polls, input, headers, data, applied, response, status,
                   sentVars, failed>>

DataChanges ==
    /\ kind # "subscription"
    /\ data < MaxData
    /\ data' = data + 1
    /\ UNCHANGED <<reqVars, ctxDone, pc, attempt, polls, input, headers, applied, response,
                   status, sentVars, failed>>
-----------------------------------------------------------------------------
(* The client goes away *)

Disconnect ==
    /\ ~ctxDone /\ pc # "done"
    /\ ctxDone' = TRUE
    /\ UNCHANGED <<reqVars, pc, attempt, polls, input, headers, data, applied, response,
                   status, sentVars, failed>>

\* The call at hand returns context.Canceled.
Canceled ==
    /\ ctxDone
    /\ pc \in Hooks \cup {"origin"}
    /\ IF kind = "subscription" /\ pc \in {"postResolve", "mutatingPostResolve"}
       THEN /\ response' = IF pc = "postResolve" THEN response ELSE Body("empty")
            /\ Goto(After(pc))
            /\ UNCHANGED <<status, applied>>
       ELSE /\ IF kind \in Synchronous THEN Settle("canceled") ELSE status' = status
            /\ IF pc = "origin" THEN MayApply ELSE applied' = applied
            /\ response' = response
            /\ Goto("done")
    /\ UNCHANGED <<reqVars, ctxDone, polls, input, headers, data, sentVars, failed>>
-----------------------------------------------------------------------------
(* Writing the response, and the loop of a live query *)

WriteSynchronous ==
    /\ pc = "write" /\ kind \in Synchronous
    /\ Settle("ok")
    /\ WriteBody(response)
    /\ Goto("done")
    /\ UNCHANGED <<reqVars, ctxDone, polls, input, headers, data, applied, response, failed>>

\* lastHash: the first response, and every one that is not the last one again.
Changed == last # response

WriteLive ==
    /\ pc = "write" /\ kind = "live"
    /\ IF Changed THEN WriteBody(response) ELSE UNCHANGED sentVars
    /\ \/ Goto(IF failed # {} \/ (Changed /\ once) THEN "done" ELSE "wait")
       \/ ctxDone /\ Changed /\ Goto("done")
    /\ UNCHANGED <<reqVars, ctxDone, polls, input, headers, data, applied, response, status, failed>>

\* httpFlushWriter.Flush: a subscription that is read once closes its own context.
WriteSubscription ==
    /\ pc = "write" /\ kind = "subscription"
    /\ WriteBody(response)
    /\ ctxDone' = (ctxDone \/ once)
    /\ Goto("origin")
    /\ UNCHANGED <<reqVars, polls, input, headers, data, applied, response, status, failed>>

\* Mutant of Poll: the next event looks at the response there already is.
PollKeepsResponse ==
    /\ pc = "wait" /\ ~ctxDone
    /\ polls' = Saturated(polls)
    /\ Goto("write")
    /\ UNCHANGED <<reqVars, ctxDone, input, headers, data, applied, response, status, sentVars,
                   failed>>

\* ctx.Variables and the headers stay what the hooks of the last event made of them.
Poll ==
    /\ pc = "wait" /\ ~ctxDone
    /\ polls' = Saturated(polls)
    /\ Goto(After("mockResolve"))
    /\ UNCHANGED <<reqVars, ctxDone, input, headers, data, applied, response, status, sentVars, failed>>

LiveStops ==
    /\ pc = "wait" /\ ctxDone
    /\ Goto("done")
    /\ UNCHANGED <<reqVars, ctxDone, polls, input, headers, data, applied, response, status,
                   sentVars, failed>>

HookAnswers ==
    \/ MockAnswers \/ PreAnswers \/ MutatingPreAnswers \/ CustomAnswers
    \/ OriginHookAnswers \/ PostAnswers \/ MutatingPostAnswers

Handler ==
    \/ Accept \/ HookAnswers \/ Retry \/ HookFails
    \/ OriginAnswers \/ (kind # "subscription" /\ OriginFails) \/ Canceled
    \/ WriteSynchronous \/ WriteLive \/ WriteSubscription \/ Poll \/ LiveStops

Environment ==
    \/ OriginRepeats \/ Event \/ UpstreamEnds \/ DataChanges \/ Disconnect
    \/ (kind = "subscription" /\ OriginFails)

Next == Handler \/ Environment

Spec == Init /\ [][Next]_vars

\* The handler's goroutine goes on; a call ends by its answer or by its timeout.
FairSpec == Spec /\ WF_vars(Handler)
-----------------------------------------------------------------------------
(* What the handlers guarantee *)

AfterOrigin == {"onOriginResponse", "postResolve", "mutatingPostResolve", "write", "wait"}
LastOf(set) == CHOOSE h \in set : \A g \in set : Index(g) <= Index(h)

\* How often the hook has mutated the input when the origin is called: a live
\* query mutates its input again in every event, and a query not at all.
MutationsAre ==
    IF "mutatingPreResolve" \notin Enabled \/ kind = "query" THEN 0
    ELSE IF kind = "live" THEN polls ELSE 1

\* The hooks whose answers change the headers before that; the last one counts.
Before == Enabled \cap (PreHooks \cup {"customResolve"})
HeadersAre == IF Before = {} THEN "client" ELSE LastOf(Before)

\* The origin is asked with the input that the hooks left, each applied once
\* however often its call was repeated, and with the headers of the last hook
\* before it.
ResolvedAsTheHooksLeftIt ==
    (response.from = "origin" /\ pc \in AfterOrigin) =>
        response.input = MutationsAre /\ response.headers = HeadersAre

\* A mutation, a query or an internal call that is done has a status that
\* tells what happened: "ok" comes with one body, and then nothing failed, an
\* error with no body but its text, a timeout with none; a mutation is "ok" only
\* when it was applied or when a hook answered instead, and it is applied more than
\* once only by a database, whose source repeats what may have been applied.  A
\* stream has said "ok" before anything could fail.
StatusTellsOutcome ==
    pc = "done" =>
        CASE kind \in Synchronous ->
                /\ (status = "ok") <=> (bodies = 1 /\ last.from # "text")
                /\ (status \in {"error", "timeout"}) <=> (failed # {})
                /\ (status = "timeout") => bodies = 0
                /\ (status = "error") => (bodies = 1 /\ last.from = "text")
                /\ (kind = "mutation" /\ status = "ok" /\ last.from = "origin") => applied > 0
                /\ (applied > 1) => database
                /\ (status = "refused") => applied = 0 /\ bodies = 0
          [] OTHER -> status \in {"ok", "refused"}

\* No response of the origin is sent that the mutatingPostResolve hook has not
\* seen, except in a subscription for which that hook has failed.
ResponsesPassTheirHook ==
    (last.from = "origin" /\ "mutatingPostResolve" \in Enabled /\ ~last.mutated)
        => (kind = "subscription" /\ "mutatingPostResolve" \in failed)

\* A request that is not a stream ends, even when the hooks server never
\* answers; a stream ends when its client is gone.
HandlerEnds == (kind \in Synchronous \/ ctxDone) ~> (pc = "done")

\* A live query shows every change of the data, or a later one, unless it ends.
Shows(d) == last.from = "custom" \/ (last.from = "origin" /\ last.data >= d)
LiveCatchesUp == \A d \in 1 .. MaxData : (kind = "live" /\ data = d) ~> (pc = "done" \/ Shows(d))

\* The documentation of mutatingPreResolve: the input is modified before it
\* gets passed to the resolvers, of queries too.
InputIsMutated ==
    (response.from = "origin" /\ "mutatingPreResolve" \in Enabled) => response.input # 0
=============================================================================
