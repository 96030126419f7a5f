--------------------------- MODULE DirectEndpoint ---------------------------
(***************************************************************************)
(* What the GraphQL endpoint promises to its clients: it behaves as if it  *)
(* kept nothing from one request to the next and shared nothing between    *)
(* requests.  Each is answered once, by what its own body calls for, and   *)
(* its answer stays until the request has left.  Several requests may be   *)
(* answered in one step.                                                   *)
(***************************************************************************)
CONSTANTS
    Requests,        \* requests that the endpoint handles at a time
    Bodies,          \* what they ask
    Answers,         \* Answers[b]: the answers that the body b can get
    NoBody,
    NoAnswer

VARIABLES
    body,            \* the body of each request, NoBody when there is none
    answer           \* its answer, NoAnswer before

clientVars == <<body, answer>>

Init ==
    /\ body = [r \in Requests |-> NoBody]
    /\ answer = [r \in Requests |-> NoAnswer]

\* A request may be answered as it comes in.
Ask(r, b) ==
    /\ body[r] = NoBody
    /\ body' = [body EXCEPT ![r] = b]
    /\ answer' = answer \/ \E a \in Answers[b] : answer' = [answer EXCEPT ![r] = a]

Respond(asking) ==
    /\ \A r \in asking : body[r] # NoBody /\ answer[r] = NoAnswer
    /\ \A r \in asking : answer'[r] \in Answers[body[r]]
    /\ \A r \in Requests \ asking : answer'[r] = answer[r]
    /\ DOMAIN answer' = Requests
    /\ UNCHANGED body

Leave(r) ==
    /\ answer[r] # NoAnswer
    /\ body' = [body EXCEPT ![r] = NoBody]
    /\ answer' = [answer EXCEPT ![r] = NoAnswer]

Next ==
    \/ \E r \in Requests, b \in Bodies : Ask(r, b)
    \/ \E asking \in SUBSET Requests : Respond(asking)
    \/ \E r \in Requests : Leave(r)

Spec == Init /\ [][Next]_clientVars
=============================================================================
