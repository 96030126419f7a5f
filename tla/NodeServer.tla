----------------------------- MODULE NodeServer -----------------------------
(***************************************************************************)
(* startServer of the WunderNode (pkg/node/node.go), with as much of       *)
(* net/http as it uses.  A Node has one field n.server for all the servers *)
(* it ever starts; each runs in a goroutine of its own, and Node.Close and *)
(* Node.Shutdown reach the one that the field holds at that moment.        *)
(*                                                                         *)
(* Each call of startServer validates its configuration, sets n.server,    *)
(* binds its addresses one after the other, and has one goroutine for each *)
(* of them call n.server.Serve: the server in the field by then, which may *)
(* be that of a later call.                                                *)
(***************************************************************************)
EXTENDS Naturals, Sequences

CONSTANTS
    MaxStarts,       \* bound: how many times startServer is called
    Listeners,       \* the addresses in the order of newListeners, by network
    Refused          \* the configurations that validate.ApiConfig refuses

ASSUME ServerAssumption ==
    /\ MaxStarts \in Nat
    /\ Listeners \in Seq({"tcp", "tcp4", "tcp6"})
    /\ \E a \in 1 .. Len(Listeners) : Listeners[a] # "tcp6"

VARIABLES
    server,          \* n.server, or NoServer for nil
    starts,          \* how many times startServer was called
    stage,           \* how far each call is
    config,          \* the configuration each call was given
    tried,           \* how many of its addresses each call has tried
    held,            \* which call has bound each address
    accepts,         \* which server accepts requests on each address
    closed           \* the servers that were told to close or to shut down

serverVars == <<server, starts, stage, config, tried, held, accepts, closed>>

NoServer == 0
Starts == 1 .. MaxStarts
OtherProcess == MaxStarts + 1
Addresses == 1 .. Len(Listeners)

Stages == {"new", "build", "listen", "serve", "returned", "failed"}

ServerTypeOK(Configs) ==
    /\ server \in Starts \cup {NoServer}
    /\ starts \in 0 .. MaxStarts
    /\ stage \in [Starts -> Stages]
    /\ config \in [Starts -> Configs]
    /\ tried \in [Starts -> 0 .. Len(Listeners)]
    /\ held \in [Addresses -> Starts \cup {NoServer, OtherProcess}]
    /\ accepts \in [Addresses -> Starts \cup {NoServer}]
    /\ closed \subseteq Starts

\* Other processes may listen on some of the addresses.
ServerInit(c, taken) ==
    /\ server = NoServer
    /\ starts = 0
    /\ stage = [s \in Starts |-> "new"]
    /\ config = [s \in Starts |-> c]
    /\ tried = [s \in Starts |-> 0]
    /\ held = [a \in Addresses |-> IF a \in taken THEN OtherProcess ELSE NoServer]
    /\ accepts = [a \in Addresses |-> NoServer]
    /\ closed = {}

Ended(s) == stage[s] \in {"new", "returned", "failed"}
SomeStartFailed == \E s \in Starts : stage[s] = "failed"

\* newListeners passes over an IPv6 address, and no other, that it cannot bind.
Mandatory == {a \in Addresses : Listeners[a] # "tcp6"}

At(s, place) == stage' = [stage EXCEPT ![s] = place]

\* Server s closes the listeners it accepts on.
StopAccepting(s) ==
    /\ held' = [a \in Addresses |-> IF accepts[a] = s THEN NoServer ELSE held[a]]
    /\ accepts' = [a \in Addresses |-> IF accepts[a] = s THEN NoServer ELSE accepts[a]]

\* Mutant: n.server is not compared with nil.
CloseListenersUnchecked ==
    /\ closed' = closed \cup {server}
    /\ StopAccepting(server)

\* Node.Close, and the first thing Node.Shutdown does: the server in n.server,
\* if there is one, closes its listeners, and will not accept on any other.
CloseListeners ==
    IF server = NoServer
    THEN UNCHANGED <<closed, held, accepts>>
    ELSE /\ closed' = closed \cup {server}
         /\ StopAccepting(server)
-----------------------------------------------------------------------------
\* The goroutine is started; "starts" names it.
Spawn(c) ==
    /\ starts < MaxStarts
    /\ starts' = starts + 1
    /\ stage' = [stage EXCEPT ![starts + 1] = "build"]
    /\ config' = [config EXCEPT ![starts + 1] = c]

Refuse(s) ==
    /\ stage[s] = "build"
    /\ config[s] \in Refused
    /\ At(s, "failed")
    /\ UNCHANGED <<server, starts, config, tried, held, accepts, closed>>

\* The handlers are built, which takes long; only then is n.server set.
CreateServer(s) ==
    /\ stage[s] = "build"
    /\ config[s] \notin Refused
    /\ server' = s
    /\ At(s, "listen")
    /\ UNCHANGED <<starts, config, tried, held, accepts, closed>>

\* Mutant: an address that cannot be bound is passed over, whichever it is.
ListenWherePossible(s) ==
    /\ stage[s] = "listen"
    /\ tried[s] < Len(Listeners)
    /\ LET a == tried[s] + 1
       IN  held' = IF held[a] = NoServer THEN [held EXCEPT ![a] = s] ELSE held
    /\ tried' = [tried EXCEPT ![s] = @ + 1]
    /\ UNCHANGED <<server, starts, stage, config, accepts, closed>>

\* newListeners: an IPv6 address that cannot be bound is passed over; any other
\* ends startServer, and what was bound before it stays bound.
Listen(s) ==
    /\ stage[s] = "listen"
    /\ tried[s] < Len(Listeners)
    /\ LET a == tried[s] + 1
       IN  \/ /\ held[a] = NoServer
              /\ held' = [held EXCEPT ![a] = s]
              /\ tried' = [tried EXCEPT ![s] = a]
              /\ UNCHANGED stage
           \/ /\ held[a] # NoServer
              /\ Listeners[a] = "tcp6"
              /\ tried' = [tried EXCEPT ![s] = a]
              /\ UNCHANGED <<held, stage>>
           \/ /\ held[a] # NoServer
              /\ Listeners[a] # "tcp6"
              /\ At(s, "failed")
              /\ UNCHANGED <<held, tried>>
    /\ UNCHANGED <<server, starts, config, accepts, closed>>

\* The goroutines that serve are started, one for each address that was bound.
Serve(s) ==
    /\ stage[s] = "listen"
    /\ tried[s] = Len(Listeners)
    /\ At(s, "serve")
    /\ UNCHANGED <<server, starts, config, tried, held, accepts, closed>>

\* n.server.Serve(l): a server that was told to close gives the listener back
\* at once.
Accept(s) ==
    /\ stage[s] = "serve"
    /\ \E a \in Addresses :
          /\ held[a] = s /\ accepts[a] = NoServer
          /\ IF server \in closed
             THEN /\ held' = [held EXCEPT ![a] = NoServer]
                  /\ UNCHANGED accepts
             ELSE /\ accepts' = [accepts EXCEPT ![a] = server]
                  /\ UNCHANGED held
    /\ UNCHANGED <<server, starts, stage, config, tried, closed>>

\* g.Wait: Serve has returned ErrServerClosed on every listener of this call.
ServeReturns(s) ==
    /\ stage[s] = "serve"
    /\ \A a \in Addresses : held[a] # s
    /\ At(s, "returned")
    /\ UNCHANGED <<server, starts, config, tried, held, accepts, closed>>

ServerStep(s) ==
    Refuse(s) \/ CreateServer(s) \/ Listen(s)
    \/ Serve(s) \/ Accept(s) \/ ServeReturns(s)
=============================================================================
