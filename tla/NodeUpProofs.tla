------------------------------ MODULE NodeUpProofs ------------------------------
(***************************************************************************)
(* Proofs about NodeUp, and the servers in it, for any number of changes   *)
(* of the file and of starts, any addresses and any configurations that    *)
(* are refused; and about NodeStart, which has the same servers, for any   *)
(* addresses and configurations.                                           *)
(***************************************************************************)
EXTENDS NodeUp, TLAPS

\* The watcher has at most one call back for each event.
Count(b) == IF b THEN 1 ELSE 0
SendersInv == senders + Count(dirty) + Count(writing) <= 2 * (written - 1)

Unbuilt == {"new", "build"}
Serving == {"listen", "serve", "returned"}

\* A call of startServer has a server once that is created, and only then binds
\* addresses; it serves when it has tried all of them.
StageInv ==
    /\ \A s \in Starts : s <= starts <=> stage[s] # "new"
    /\ \A s \in Starts : stage[s] \in Unbuilt => tried[s] = 0
    /\ \A s \in Starts : stage[s] \in {"serve", "returned"} => tried[s] = Len(Listeners)
    /\ server # NoServer => stage[server] \notin Unbuilt
    /\ \A s \in closed : stage[s] \notin Unbuilt
    /\ \A a \in Addresses : held[a] \in Starts => stage[held[a]] \notin Unbuilt
    /\ \A a \in Addresses : accepts[a] # NoServer =>
          held[a] \in Starts /\ stage[accepts[a]] \notin Unbuilt

\* Close reaches servers of earlier calls only.
ClosedInv == Alive => \A s \in closed : s < starts

\* A call that has tried a mandatory address has it.
Keeps(s) == \A a \in Mandatory : a <= tried[s] => held[a] = s

\* Once the newest call has created its server, whichever server is in the field,
\* or accepts on an address of the newest call, is not closed and has what it has
\* tried: the servers that were created since then do not give way.
NewestInv ==
    Alive /\ starts > 0 /\ stage[starts] \in Serving =>
        /\ server # NoServer /\ server \notin closed
        /\ Keeps(starts) /\ Keeps(server)
        /\ \A a \in Addresses : held[a] = starts /\ accepts[a] # NoServer => Keeps(accepts[a])

IInv == TypeOK /\ SendersInv /\ StageInv /\ ClosedInv /\ NewestInv
-----------------------------------------------------------------------------
(* Addresses *)

\* There is an address that has to be bound.
LEMMA AddressesAre ==
    /\ Len(Listeners) \in Nat /\ Addresses = 1 .. Len(Listeners)
    /\ Mandatory \subseteq Addresses /\ Mandatory # {}
    /\ \A a \in Addresses : a \notin Mandatory <=> Listeners[a] = "tcp6"
BY ServerAssumption DEF Addresses, Mandatory

\* Calls are numbered from 1, and neither no call nor another process is one.
LEMMA StartsAre ==
    /\ MaxStarts \in Nat /\ Starts = 1 .. MaxStarts
    /\ NoServer = 0 /\ OtherProcess = MaxStarts + 1
    /\ NoServer \notin Starts /\ OtherProcess \notin Starts
BY ServerAssumption DEF Starts, NoServer, OtherProcess
-----------------------------------------------------------------------------
(* What the steps do to the servers *)

ServerOK == ServerTypeOK(Configs)

\* Reconfigure and Exit close the server in the field, a call of startServer takes
\* a step, and nothing else touches the servers.
ServersNext ==
    \/ Reconfigure
    \/ \E s \in Starts : Alive /\ Alive' /\ ServerStep(s)
    \/ Exit
    \/ UNCHANGED serverVars /\ (Alive' => Alive)

\* The node treats its servers in the steps of ServersNext only.
LEMMA NodeUsesServers == [Next]_vars => ServersNext
<1> SUFFICES ASSUME [Next]_vars PROVE ServersNext
  OBVIOUS
<1> USE DEF ServersNext, Alive
<1>1. CASE BeginWrite \/ EndWrite \/ WriteIsCutOff \/ Debounced
  BY <1>1 DEF BeginWrite, EndWrite, WriteIsCutOff, Debounced
<1>2. CASE TakeChange \/ TakeTrigger \/ PollEnds \/ ReadFile \/ ReadFails
  BY <1>2 DEF TakeChange, TakeTrigger, PollEnds, ReadFile, ReadFails
<1>3. CASE ReconfEnds \/ ReconfReturns \/ Signal \/ NodeExits
  BY <1>3 DEF ReconfEnds, ReconfReturns, Signal, NodeExits
<1>4. CASE \E s \in Starts : StartServer(s)
  BY <1>4 DEF StartServer
<1>5. CASE UNCHANGED vars
  BY <1>5 DEF vars
<1>6. QED
  BY <1>1, <1>2, <1>3, <1>4, <1>5 DEF Next

\* The listeners that a server closes are those it accepts on.
LEMMA CloseIs ==
    ASSUME ServerOK, CloseListeners
    PROVE  /\ closed' = IF server = NoServer THEN closed ELSE closed \cup {server}
           /\ closed' \subseteq Starts
           /\ held' \in [Addresses -> Starts \cup {NoServer, OtherProcess}]
           /\ accepts' \in [Addresses -> Starts \cup {NoServer}]
           /\ \A a \in Addresses :
                 IF server # NoServer /\ accepts[a] = server
                 THEN held'[a] = NoServer /\ accepts'[a] = NoServer
                 ELSE held'[a] = held[a] /\ accepts'[a] = accepts[a]
<1>1. CASE server = NoServer
  BY <1>1 DEF CloseListeners, ServerOK, ServerTypeOK
<1>2. CASE server # NoServer
  <2>1. closed' = closed \cup {server} /\ StopAccepting(server)
    BY <1>2 DEF CloseListeners
  <2>2. server \in Starts
    BY <1>2 DEF ServerOK, ServerTypeOK
  <2>3. QED
    BY <1>2, <2>1, <2>2 DEF StopAccepting, ServerOK, ServerTypeOK
<1>3. QED
  BY <1>1, <1>2

\* The next call gets the next number.
LEMMA SpawnIs ==
    ASSUME ServerOK, NEW c \in Configs, Spawn(c)
    PROVE  \E n \in Starts :
              /\ n = starts + 1 /\ starts' = n
              /\ stage' = [stage EXCEPT ![n] = "build"] /\ config' = [config EXCEPT ![n] = c]
<1> DEFINE next == starts + 1
<1>1. next \in Starts
  BY StartsAre DEF Spawn, ServerOK, ServerTypeOK
<1>2. QED
  BY <1>1 DEF Spawn

\* An address is bound, passed over, or ends its call.
LEMMA ListenIs ==
    ASSUME ServerOK, NEW s \in Starts, Listen(s)
    PROVE  /\ stage[s] = "listen" /\ UNCHANGED <<server, starts, config, accepts, closed>>
           /\ \E a \in Addresses :
                 /\ a = tried[s] + 1
                 /\ \/ /\ held[a] = NoServer /\ held' = [held EXCEPT ![a] = s]
                       /\ tried' = [tried EXCEPT ![s] = a] /\ stage' = stage
                    \/ /\ held[a] # NoServer /\ held' = held /\ a \notin Mandatory
                       /\ tried' = [tried EXCEPT ![s] = a] /\ stage' = stage
                    \/ /\ held[a] # NoServer /\ held' = held /\ tried' = tried
                       /\ stage' = [stage EXCEPT ![s] = "failed"]
<1> DEFINE next == tried[s] + 1
<1>1. next \in Addresses
  BY AddressesAre DEF ServerOK, ServerTypeOK, Listen
<1>2. CASE held[next] = NoServer
  BY <1>1, <1>2 DEF Listen
<1>3. CASE held[next] # NoServer /\ Listeners[next] = "tcp6"
  BY <1>1, <1>3, AddressesAre DEF Listen
<1>4. CASE held[next] # NoServer /\ Listeners[next] # "tcp6"
  BY <1>1, <1>4 DEF Listen, At
<1>5. QED
  BY <1>2, <1>3, <1>4

\* A listener is given to the server in the field, or closed when that is.
LEMMA AcceptIs ==
    ASSUME NEW s \in Starts, Accept(s)
    PROVE  /\ stage[s] = "serve" /\ UNCHANGED <<server, starts, stage, config, tried, closed>>
           /\ \E a \in Addresses :
                 /\ held[a] = s /\ accepts[a] = NoServer
                 /\ \/ held' = [held EXCEPT ![a] = NoServer] /\ accepts' = accepts
                    \/ accepts' = [accepts EXCEPT ![a] = server] /\ held' = held
BY DEF Accept

\* The servers keep their types.
LEMMA ServerTypeStep == IInv /\ ServersNext => ServerOK'
<1> SUFFICES ASSUME IInv, ServersNext PROVE ServerOK'
  OBVIOUS
<1>0. ServerOK /\ offered \in Configs /\ StageInv /\ ClosedInv /\ NewestInv
  BY DEF IInv, TypeOK, ServerOK
<1> USE <1>0, AddressesAre, StartsAre DEF ServerOK, ServerTypeOK, Stages, serverVars, Alive
<1>1. CASE Reconfigure
  <2>1. ServerOK /\ offered \in Configs /\ CloseListeners /\ Spawn(offered)
    BY <1>1 DEF Reconfigure, ServerOK
  <2>2. PICK n \in Starts :
           /\ n = starts + 1 /\ starts' = n
           /\ stage' = [stage EXCEPT ![n] = "build"] /\ config' = [config EXCEPT ![n] = offered]
    BY <2>1, SpawnIs
  <2>3. /\ UNCHANGED <<server, tried>> /\ closed' \subseteq Starts
        /\ held' \in [Addresses -> Starts \cup {NoServer, OtherProcess}]
        /\ accepts' \in [Addresses -> Starts \cup {NoServer}]
    BY <1>1, <2>1, CloseIs DEF Reconfigure
  <2>4. /\ stage' \in [Starts -> Stages] /\ config' \in [Starts -> Configs]
        /\ starts' \in 0 .. MaxStarts
    BY <2>1, <2>2
  <2>5. QED
    BY <2>3, <2>4
<1>2. ASSUME NEW s \in Starts, Alive, Alive', Refuse(s) PROVE ServerOK'
  BY <1>2 DEF Refuse, At
<1>3. ASSUME NEW s \in Starts, Alive, Alive', CreateServer(s) PROVE ServerOK'
  BY <1>3 DEF CreateServer, At
<1>4. ASSUME NEW s \in Starts, Alive, Alive', Listen(s) PROVE ServerOK'
  <2>1. PICK a \in Addresses :
           /\ a = tried[s] + 1
           /\ \/ /\ held[a] = NoServer /\ held' = [held EXCEPT ![a] = s]
                 /\ tried' = [tried EXCEPT ![s] = a] /\ stage' = stage
              \/ /\ held[a] # NoServer /\ held' = held /\ a \notin Mandatory
                 /\ tried' = [tried EXCEPT ![s] = a] /\ stage' = stage
              \/ /\ held[a] # NoServer /\ held' = held /\ tried' = tried
                 /\ stage' = [stage EXCEPT ![s] = "failed"]
    BY <1>4, ListenIs
  <2>2. stage[s] = "listen" /\ UNCHANGED <<server, starts, config, accepts, closed>>
    BY <1>4, ListenIs
  <2>3. a = tried[s] + 1 /\ a \in 0 .. Len(Listeners) /\ tried[s] \in Nat
    BY <2>1
  <2>4. CASE /\ held[a] = NoServer /\ held' = [held EXCEPT ![a] = s]
             /\ tried' = [tried EXCEPT ![s] = a] /\ stage' = stage
    BY <1>4, <2>2, <2>3, <2>4
  <2>5. CASE /\ held[a] # NoServer /\ held' = held /\ a \notin Mandatory
             /\ tried' = [tried EXCEPT ![s] = a] /\ stage' = stage
    BY <1>4, <2>2, <2>3, <2>5
  <2>6. CASE /\ held[a] # NoServer /\ held' = held /\ tried' = tried
             /\ stage' = [stage EXCEPT ![s] = "failed"]
    BY <1>4, <2>2, <2>3, <2>6
  <2>7. QED
    BY <2>1, <2>4, <2>5, <2>6
<1>5. ASSUME NEW s \in Starts, Alive, Alive', Serve(s) PROVE ServerOK'
  BY <1>5 DEF Serve, At
<1>6. ASSUME NEW s \in Starts, Alive, Alive', Accept(s) PROVE ServerOK'
  <2>1. UNCHANGED <<server, starts, stage, config, tried, closed>>
    BY <1>6, AcceptIs
  <2>2. PICK a \in Addresses :
           /\ held[a] = s /\ accepts[a] = NoServer
           /\ \/ held' = [held EXCEPT ![a] = NoServer] /\ accepts' = accepts
              \/ accepts' = [accepts EXCEPT ![a] = server] /\ held' = held
    BY <1>6, AcceptIs
  <2>3. stage[s] = "serve"
    BY <1>6, AcceptIs
  <2>4. CASE held' = [held EXCEPT ![a] = NoServer] /\ accepts' = accepts
    BY <2>1, <2>2, <2>3, <2>4
  <2>5. CASE accepts' = [accepts EXCEPT ![a] = server] /\ held' = held
    BY <2>1, <2>2, <2>3, <2>5
  <2>6. QED
    BY <2>2, <2>4, <2>5
<1>7. ASSUME NEW s \in Starts, Alive, Alive', ServeReturns(s) PROVE ServerOK'
  BY <1>7 DEF ServeReturns, At
<1>8. CASE Exit
  <2>1. ServerOK /\ CloseListeners
    BY <1>8 DEF Exit, ServerOK
  <2>2. QED
    BY <1>8, <2>1, CloseIs DEF Exit
<1>9. CASE UNCHANGED serverVars /\ (Alive' => Alive)
  BY <1>9
<1> HIDE DEF IInv, Alive
<1>10. QED
  BY <1>1, <1>2, <1>3, <1>4, <1>5, <1>6, <1>7, <1>8, <1>9 DEF ServersNext, ServerStep

\* A call binds after it has created its server.
LEMMA StageStep == IInv /\ ServersNext => StageInv'
<1> SUFFICES ASSUME IInv, ServersNext PROVE StageInv'
  OBVIOUS
<1>0. ServerOK /\ offered \in Configs /\ StageInv /\ ClosedInv /\ NewestInv
  BY DEF IInv, TypeOK, ServerOK
<1> USE <1>0, AddressesAre, StartsAre
        DEF ServerOK, ServerTypeOK, StageInv, Unbuilt, serverVars, Alive
<1>1. CASE Reconfigure
  <2>1. ServerOK /\ offered \in Configs /\ CloseListeners /\ Spawn(offered)
    BY <1>1 DEF Reconfigure
  <2>2. PICK n \in Starts :
           /\ n = starts + 1 /\ starts' = n
           /\ stage' = [stage EXCEPT ![n] = "build"] /\ config' = [config EXCEPT ![n] = offered]
    BY <2>1, SpawnIs
  <2>3. UNCHANGED <<server, tried>>
    BY <1>1 DEF Reconfigure
  <2>4. stage[n] = "new" /\ tried[n] = 0
    BY <2>2
  <2>5. /\ \A s \in Starts : s <= starts' <=> stage'[s] # "new"
        /\ \A s \in Starts : stage'[s] \in Unbuilt => tried'[s] = 0
        /\ \A s \in Starts : stage'[s] \in {"serve", "returned"} => tried'[s] = Len(Listeners)
    <3>1. ASSUME NEW s \in Starts, s # n
          PROVE  /\ stage'[s] = stage[s] /\ tried'[s] = tried[s]
                 /\ s <= starts' <=> s <= starts
      <4>1. stage'[s] = stage[s] /\ tried'[s] = tried[s]
        BY <2>2, <2>3, <3>1
      <4>2. s <= starts' <=> s <= starts
        BY <2>2, <3>1
      <4>3. QED
        BY <4>1, <4>2
    <3>2. stage'[n] = "build" /\ tried'[n] = 0 /\ n <= starts'
      BY <2>2, <2>3, <2>4
    <3>3. \A s \in Starts : s <= starts' <=> stage'[s] # "new"
      <4> SUFFICES ASSUME NEW s \in Starts PROVE s <= starts' <=> stage'[s] # "new"
        OBVIOUS
      <4>1. CASE s = n
        BY <3>2, <4>1
      <4>2. CASE s # n
        <5>1. s <= starts <=> stage[s] # "new"
          BY DEF StageInv
        <5>2. QED
          BY <3>1, <4>2, <5>1
      <4>3. QED
        BY <4>1, <4>2
    <3>4. \A s \in Starts : stage'[s] \in Unbuilt => tried'[s] = 0
      BY <3>1, <3>2
    <3>5. \A s \in Starts : stage'[s] \in {"serve", "returned"} => tried'[s] = Len(Listeners)
      BY <3>1, <3>2
    <3>6. QED
      BY <3>3, <3>4, <3>5
  <2>6. \A s \in Starts : stage[s] \notin Unbuilt => stage'[s] \notin Unbuilt
    BY <2>2, <2>4
  <2>7. /\ server' # NoServer => stage'[server'] \notin Unbuilt
        /\ \A s \in closed' : stage'[s] \notin Unbuilt
    BY <2>1, <2>3, <2>6, CloseIs
  <2>8. /\ \A a \in Addresses : held'[a] \in Starts => stage'[held'[a]] \notin Unbuilt
        /\ \A a \in Addresses : accepts'[a] # NoServer =>
              held'[a] \in Starts /\ stage'[accepts'[a]] \notin Unbuilt
    <3> SUFFICES ASSUME NEW a \in Addresses
                 PROVE  /\ held'[a] \in Starts => stage'[held'[a]] \notin Unbuilt
                        /\ accepts'[a] # NoServer =>
                              held'[a] \in Starts /\ stage'[accepts'[a]] \notin Unbuilt
      OBVIOUS
    <3>1. CASE server # NoServer /\ accepts[a] = server
      BY <2>1, <3>1, CloseIs
    <3>2. CASE ~(server # NoServer /\ accepts[a] = server)
      <4>1. held'[a] = held[a] /\ accepts'[a] = accepts[a]
        BY <2>1, <3>2, CloseIs
      <4>2. QED
        BY <2>6, <4>1
    <3>3. QED
      BY <3>1, <3>2
  <2>9. QED
    BY <2>5, <2>7, <2>8
<1>2. ASSUME NEW s \in Starts, Alive, Alive', Refuse(s) PROVE StageInv'
  BY <1>2 DEF Refuse, At
<1>3. ASSUME NEW s \in Starts, Alive, Alive', CreateServer(s) PROVE StageInv'
  BY <1>3 DEF CreateServer, At
<1>4. ASSUME NEW s \in Starts, Alive, Alive', Listen(s) PROVE StageInv'
  <2>1. PICK a \in Addresses :
           /\ a = tried[s] + 1
           /\ \/ /\ held[a] = NoServer /\ held' = [held EXCEPT ![a] = s]
                 /\ tried' = [tried EXCEPT ![s] = a] /\ stage' = stage
              \/ /\ held[a] # NoServer /\ held' = held /\ a \notin Mandatory
                 /\ tried' = [tried EXCEPT ![s] = a] /\ stage' = stage
              \/ /\ held[a] # NoServer /\ held' = held /\ tried' = tried
                 /\ stage' = [stage EXCEPT ![s] = "failed"]
    BY <1>4, ListenIs
  <2>2. stage[s] = "listen" /\ UNCHANGED <<server, starts, config, accepts, closed>>
    BY <1>4, ListenIs
  <2>3. a = tried[s] + 1 /\ a \in 0 .. Len(Listeners) /\ tried[s] \in Nat
    BY <2>1
  <2>4. CASE /\ held[a] = NoServer /\ held' = [held EXCEPT ![a] = s]
             /\ tried' = [tried EXCEPT ![s] = a] /\ stage' = stage
    BY <1>4, <2>2, <2>3, <2>4
  <2>5. CASE /\ held[a] # NoServer /\ held' = held /\ a \notin Mandatory
             /\ tried' = [tried EXCEPT ![s] = a] /\ stage' = stage
    BY <1>4, <2>2, <2>3, <2>5
  <2>6. CASE /\ held[a] # NoServer /\ held' = held /\ tried' = tried
             /\ stage' = [stage EXCEPT ![s] = "failed"]
    BY <1>4, <2>2, <2>3, <2>6
  <2>7. QED
    BY <2>1, <2>4, <2>5, <2>6
<1>5. ASSUME NEW s \in Starts, Alive, Alive', Serve(s) PROVE StageInv'
  BY <1>5 DEF Serve, At
<1>6. ASSUME NEW s \in Starts, Alive, Alive', Accept(s) PROVE StageInv'
  <2>1. UNCHANGED <<server, starts, stage, config, tried, closed>>
    BY <1>6, AcceptIs
  <2>2. PICK a \in Addresses :
           /\ held[a] = s /\ accepts[a] = NoServer
           /\ \/ held' = [held EXCEPT ![a] = NoServer] /\ accepts' = accepts
              \/ accepts' = [accepts EXCEPT ![a] = server] /\ held' = held
    BY <1>6, AcceptIs
  <2>3. stage[s] = "serve"
    BY <1>6, AcceptIs
  <2>4. CASE held' = [held EXCEPT ![a] = NoServer] /\ accepts' = accepts
    BY <2>1, <2>2, <2>3, <2>4
  <2>5. CASE accepts' = [accepts EXCEPT ![a] = server] /\ held' = held
    BY <2>1, <2>2, <2>3, <2>5
  <2>6. QED
    BY <2>2, <2>4, <2>5
<1>7. ASSUME NEW s \in Starts, Alive, Alive', ServeReturns(s) PROVE StageInv'
  BY <1>7 DEF ServeReturns, At
<1>8. CASE Exit
  <2>1. ServerOK /\ CloseListeners
    BY <1>8 DEF Exit, ServerOK
  <2>2. QED
    BY <1>8, <2>1, CloseIs DEF Exit
<1>9. CASE UNCHANGED serverVars /\ (Alive' => Alive)
  BY <1>9
<1> HIDE DEF IInv, Alive
<1>10. QED
  BY <1>1, <1>2, <1>3, <1>4, <1>5, <1>6, <1>7, <1>8, <1>9 DEF ServersNext, ServerStep

\* What is closed is older than the newest call.
LEMMA ClosedStep == IInv /\ ServersNext => ClosedInv'
<1> SUFFICES ASSUME IInv, ServersNext PROVE ClosedInv'
  OBVIOUS
<1>0. ServerOK /\ offered \in Configs /\ StageInv /\ ClosedInv /\ NewestInv
  BY DEF IInv, TypeOK, ServerOK
<1> USE <1>0, AddressesAre, StartsAre
        DEF ServerOK, ServerTypeOK, StageInv, ClosedInv, Unbuilt, serverVars, Alive
<1>1. CASE Reconfigure
  <2>1. ServerOK /\ offered \in Configs /\ CloseListeners /\ Spawn(offered)
    BY <1>1 DEF Reconfigure, ServerOK
  <2>2. PICK n \in Starts :
           /\ n = starts + 1 /\ starts' = n
           /\ stage' = [stage EXCEPT ![n] = "build"] /\ config' = [config EXCEPT ![n] = offered]
    BY <2>1, SpawnIs
  <2>3. QED
    BY <1>1, <2>1, <2>2, CloseIs DEF Reconfigure
<1>2. ASSUME NEW s \in Starts, Alive, Alive', Refuse(s) PROVE ClosedInv'
  BY <1>2 DEF Refuse, At
<1>3. ASSUME NEW s \in Starts, Alive, Alive', CreateServer(s) PROVE ClosedInv'
  BY <1>3 DEF CreateServer, At
<1>4. ASSUME NEW s \in Starts, Alive, Alive', Listen(s) PROVE ClosedInv'
  <2>1. PICK a \in Addresses :
           /\ a = tried[s] + 1
           /\ \/ /\ held[a] = NoServer /\ held' = [held EXCEPT ![a] = s]
                 /\ tried' = [tried EXCEPT ![s] = a] /\ stage' = stage
              \/ /\ held[a] # NoServer /\ held' = held /\ a \notin Mandatory
                 /\ tried' = [tried EXCEPT ![s] = a] /\ stage' = stage
              \/ /\ held[a] # NoServer /\ held' = held /\ tried' = tried
                 /\ stage' = [stage EXCEPT ![s] = "failed"]
    BY <1>4, ListenIs
  <2>2. stage[s] = "listen" /\ UNCHANGED <<server, starts, config, accepts, closed>>
    BY <1>4, ListenIs
  <2>3. a = tried[s] + 1 /\ a \in 0 .. Len(Listeners) /\ tried[s] \in Nat
    BY <2>1
  <2>4. CASE /\ held[a] = NoServer /\ held' = [held EXCEPT ![a] = s]
             /\ tried' = [tried EXCEPT ![s] = a] /\ stage' = stage
    BY <1>4, <2>2, <2>3, <2>4
  <2>5. CASE /\ held[a] # NoServer /\ held' = held /\ a \notin Mandatory
             /\ tried' = [tried EXCEPT ![s] = a] /\ stage' = stage
    BY <1>4, <2>2, <2>3, <2>5
  <2>6. CASE /\ held[a] # NoServer /\ held' = held /\ tried' = tried
             /\ stage' = [stage EXCEPT ![s] = "failed"]
    BY <1>4, <2>2, <2>3, <2>6
  <2>7. QED
    BY <2>1, <2>4, <2>5, <2>6
<1>5. ASSUME NEW s \in Starts, Alive, Alive', Serve(s) PROVE ClosedInv'
  BY <1>5 DEF Serve, At
<1>6. ASSUME NEW s \in Starts, Alive, Alive', Accept(s) PROVE ClosedInv'
  BY <1>6 DEF Accept, At
<1>7. ASSUME NEW s \in Starts, Alive, Alive', ServeReturns(s) PROVE ClosedInv'
  BY <1>7 DEF ServeReturns, At
<1>8. CASE Exit
  <2>1. ServerOK /\ CloseListeners
    BY <1>8 DEF Exit, ServerOK
  <2>2. QED
    BY <1>8, <2>1, CloseIs DEF Exit
<1>9. CASE UNCHANGED serverVars /\ (Alive' => Alive)
  BY <1>9
<1> HIDE DEF IInv, Alive
<1>10. QED
  BY <1>1, <1>2, <1>3, <1>4, <1>5, <1>6, <1>7, <1>8, <1>9 DEF ServersNext, ServerStep

\* The newest call, and those whose servers are created after its own, keep their addresses.
LEMMA NewestStep == IInv /\ ServersNext => NewestInv'
<1> SUFFICES ASSUME IInv, ServersNext PROVE NewestInv'
  OBVIOUS
<1>0. ServerOK /\ offered \in Configs /\ StageInv /\ ClosedInv /\ NewestInv
  BY DEF IInv, TypeOK, ServerOK
<1> USE <1>0, AddressesAre, StartsAre
        DEF ServerOK, ServerTypeOK, StageInv, ClosedInv, NewestInv, Keeps, Unbuilt, Serving,
            serverVars, Alive
<1>1. CASE Reconfigure
  <2>1. ServerOK /\ offered \in Configs /\ CloseListeners /\ Spawn(offered)
    BY <1>1 DEF Reconfigure, ServerOK
  <2>2. PICK n \in Starts :
           /\ n = starts + 1 /\ starts' = n
           /\ stage' = [stage EXCEPT ![n] = "build"] /\ config' = [config EXCEPT ![n] = offered]
    BY <2>1, SpawnIs
  <2>3. QED
    BY <1>1, <2>1, <2>2, CloseIs DEF Reconfigure
<1>2. ASSUME NEW s \in Starts, Alive, Alive', Refuse(s) PROVE NewestInv'
  BY <1>2 DEF Refuse, At
<1>3. ASSUME NEW s \in Starts, Alive, Alive', CreateServer(s) PROVE NewestInv'
  <2>1. /\ stage[s] = "build" /\ stage' = [stage EXCEPT ![s] = "listen"] /\ server' = s
        /\ UNCHANGED <<starts, config, tried, held, accepts, closed>>
    BY <1>3 DEF CreateServer, At
  <2>2. tried[s] = 0 /\ s \notin closed /\ s # NoServer
    BY <2>1
  <2>3. Keeps(s)'
    BY <2>1, <2>2
  <2>4. CASE s = starts
    <3>1. \A a \in Addresses : held[a] # starts
      BY <2>1, <2>4
    <3>2. QED
      BY <2>1, <2>2, <2>3, <2>4, <3>1
  <2>5. CASE s # starts
    <3>1. \A x \in Starts : Keeps(x) => Keeps(x)'
      BY <2>1
    <3> SUFFICES ASSUME starts > 0, stage[starts] \in Serving PROVE NewestInv'
      BY <2>1, <2>5
    <3>2. /\ Keeps(starts) /\ starts \in Starts
          /\ \A b \in Addresses : held[b] = starts /\ accepts[b] # NoServer =>
                Keeps(accepts[b]) /\ accepts[b] \in Starts
      <4>1. /\ Keeps(starts) /\ Keeps(server)
            /\ \A b \in Addresses : held[b] = starts /\ accepts[b] # NoServer => Keeps(accepts[b])
        BY <1>3
      <4>2. /\ starts \in Starts
            /\ \A b \in Addresses : accepts[b] # NoServer => accepts[b] \in Starts
        OBVIOUS
      <4>3. server # NoServer
        BY <1>3
      <4> HIDE DEF Keeps
      <4>4. QED
        BY <4>1, <4>2, <4>3
    <3>3. Keeps(starts)' /\ Keeps(server)'
      BY <2>1, <2>3, <3>2
    <3>4. \A b \in Addresses : held'[b] = starts' /\ accepts'[b] # NoServer => Keeps(accepts[b])'
      BY <2>1, <3>2
    <3>5. QED
      BY <2>1, <2>2, <3>3, <3>4
  <2>6. QED
    BY <2>4, <2>5
<1>4. ASSUME NEW s \in Starts, Alive, Alive', Listen(s) PROVE NewestInv'
  <2>1. PICK a \in Addresses :
           /\ a = tried[s] + 1
           /\ \/ /\ held[a] = NoServer /\ held' = [held EXCEPT ![a] = s]
                 /\ tried' = [tried EXCEPT ![s] = a] /\ stage' = stage
              \/ /\ held[a] # NoServer /\ held' = held /\ a \notin Mandatory
                 /\ tried' = [tried EXCEPT ![s] = a] /\ stage' = stage
              \/ /\ held[a] # NoServer /\ held' = held /\ tried' = tried
                 /\ stage' = [stage EXCEPT ![s] = "failed"]
    BY <1>4, ListenIs
  <2>2. stage[s] = "listen" /\ UNCHANGED <<server, starts, config, accepts, closed>>
    BY <1>4, ListenIs
  <2>3. a = tried[s] + 1 /\ a \in 0 .. Len(Listeners) /\ tried[s] \in Nat
    BY <2>1
  <2>4. CASE /\ held[a] = NoServer /\ held' = [held EXCEPT ![a] = s]
             /\ tried' = [tried EXCEPT ![s] = a] /\ stage' = stage
    <3>1. \A x \in Starts : Keeps(x) => Keeps(x)'
      BY <2>2, <2>3, <2>4
    <3>2. \A b \in Addresses : held'[b] = starts /\ accepts[b] # NoServer => held[b] = starts
      BY <2>2, <2>3, <2>4
    <3> SUFFICES ASSUME starts > 0, stage[starts] \in Serving PROVE NewestInv'
      BY <2>2, <2>4
    <3>3. /\ Keeps(starts) /\ starts \in Starts /\ Keeps(server) /\ server \in Starts
          /\ \A b \in Addresses : held[b] = starts /\ accepts[b] # NoServer =>
                Keeps(accepts[b]) /\ accepts[b] \in Starts
      <4>1. /\ Keeps(starts) /\ Keeps(server)
            /\ \A b \in Addresses : held[b] = starts /\ accepts[b] # NoServer => Keeps(accepts[b])
        BY <1>4
      <4>2. /\ starts \in Starts
            /\ \A b \in Addresses : accepts[b] # NoServer => accepts[b] \in Starts
        OBVIOUS
      <4>3. server # NoServer
        BY <1>4
      <4> HIDE DEF Keeps
      <4>4. QED
        BY <4>1, <4>2, <4>3
    <3>4. Keeps(starts)' /\ Keeps(server)'
      BY <2>2, <3>1, <3>3
    <3>5. \A b \in Addresses : held'[b] = starts' /\ accepts'[b] # NoServer => Keeps(accepts[b])'
      <4> SUFFICES ASSUME NEW b \in Addresses, held'[b] = starts', accepts'[b] # NoServer
                   PROVE  Keeps(accepts[b])'
        OBVIOUS
      <4>1. Keeps(accepts[b]) /\ accepts[b] \in Starts /\ accepts'[b] = accepts[b]
        BY <2>2, <3>2, <3>3
      <4> HIDE DEF Keeps
      <4>2. QED
        BY <3>1, <4>1, <2>2
    <3>6. server # NoServer /\ server \notin closed
      BY <1>4
    <3>7. QED
      BY <2>2, <3>4, <3>5, <3>6
  <2>5. CASE /\ held[a] # NoServer /\ held' = held /\ a \notin Mandatory
             /\ tried' = [tried EXCEPT ![s] = a] /\ stage' = stage
    <3>1. \A x \in Starts : Keeps(x) => Keeps(x)'
      BY <2>2, <2>3, <2>5
    <3> SUFFICES ASSUME starts > 0, stage[starts] \in Serving PROVE NewestInv'
      BY <2>2, <2>5
    <3>2. /\ Keeps(starts) /\ Keeps(server) /\ server # NoServer /\ server \notin closed
          /\ \A b \in Addresses : held[b] = starts /\ accepts[b] # NoServer => Keeps(accepts[b])
      BY <1>4
    <3>3. /\ starts \in Starts
          /\ \A b \in Addresses : accepts[b] # NoServer => accepts[b] \in Starts
      OBVIOUS
    <3>4. Keeps(starts)' /\ Keeps(server)'
      BY <2>2, <3>1, <3>2, <3>3
    <3>5. \A b \in Addresses : held'[b] = starts' /\ accepts'[b] # NoServer => Keeps(accepts[b])'
      <4> SUFFICES ASSUME NEW b \in Addresses, held'[b] = starts', accepts'[b] # NoServer
                   PROVE  Keeps(accepts[b])'
        OBVIOUS
      <4>1. Keeps(accepts[b]) /\ accepts[b] \in Starts /\ accepts'[b] = accepts[b]
        BY <2>2, <2>5, <3>2, <3>3
      <4> HIDE DEF Keeps
      <4>2. QED
        BY <3>1, <4>1, <2>2
    <3>6. QED
      BY <2>2, <3>2, <3>4, <3>5
  <2>6. CASE /\ held[a] # NoServer /\ held' = held /\ tried' = tried
             /\ stage' = [stage EXCEPT ![s] = "failed"]
    BY <1>4, <2>2, <2>3, <2>6
  <2>7. QED
    BY <2>1, <2>4, <2>5, <2>6
<1>5. ASSUME NEW s \in Starts, Alive, Alive', Serve(s) PROVE NewestInv'
  BY <1>5 DEF Serve, At
<1>6. ASSUME NEW s \in Starts, Alive, Alive', Accept(s) PROVE NewestInv'
  <2>1. UNCHANGED <<server, starts, stage, tried, closed>>
    BY <1>6, AcceptIs
  <2> SUFFICES ASSUME starts > 0, stage[starts] \in Serving PROVE NewestInv'
    BY <2>1
  <2>2. /\ Keeps(starts) /\ Keeps(server) /\ server # NoServer /\ server \notin closed
        /\ \A b \in Addresses : held[b] = starts /\ accepts[b] # NoServer => Keeps(accepts[b])
    BY <1>6
  <2>3. held' = held /\ \E a \in Addresses : accepts' = [accepts EXCEPT ![a] = server]
    BY <1>6, <2>2 DEF Accept
  <2>4. \A b \in Addresses : accepts'[b] = accepts[b] \/ accepts'[b] = server
    BY <2>3
  <2>5. QED
    BY <2>1, <2>2, <2>3, <2>4
<1>7. ASSUME NEW s \in Starts, Alive, Alive', ServeReturns(s) PROVE NewestInv'
  BY <1>7 DEF ServeReturns, At
<1>8. CASE Exit
  <2>1. ServerOK /\ CloseListeners
    BY <1>8 DEF Exit, ServerOK
  <2>2. QED
    BY <1>8, <2>1, CloseIs DEF Exit
<1>9. CASE UNCHANGED serverVars /\ (Alive' => Alive)
  BY <1>9
<1> HIDE DEF IInv, Alive
<1>10. QED
  BY <1>1, <1>2, <1>3, <1>4, <1>5, <1>6, <1>7, <1>8, <1>9 DEF ServersNext, ServerStep

-----------------------------------------------------------------------------
(* The loops *)

\* What the loops add to the servers.
LoopTypeOK ==
    /\ ctxDone \in BOOLEAN
    /\ main \in {"trigger", "wait", "exited"}
    /\ file \in Configs
    /\ written \in 1 .. MaxWrites
    /\ writing \in BOOLEAN
    /\ dirty \in BOOLEAN
    /\ senders \in Nat
    /\ poller \in {"select", "read", "send", "failed", "returned"}
    /\ offered \in Configs
    /\ reconf \in {"select", "wait", "returned"}

\* The number of configurations bounds that of the callbacks.
LEMMA SendersAreFew ==
    ASSUME NEW n \in Nat, NEW w \in 1 .. MaxWrites, NEW d \in 0 .. 1, NEW e \in 0 .. 1,
           n + d + e <= 2 * (w - 1)
    PROVE  n \in 0 .. 2 * MaxWrites
BY WritesAssumption

\* The parts, with the number of callbacks, make the whole.
LEMMA TypeParts ==
    /\ TypeOK => ServerOK /\ LoopTypeOK
    /\ ServerOK /\ LoopTypeOK /\ SendersInv => TypeOK
<1>1. Count(dirty) \in 0 .. 1 /\ Count(writing) \in 0 .. 1
  BY DEF Count
<1>2. LoopTypeOK /\ SendersInv => senders \in 0 .. 2 * MaxWrites
  BY <1>1, SendersAreFew DEF LoopTypeOK, SendersInv
<1>3. QED
  BY <1>2 DEF TypeOK, ServerOK, LoopTypeOK

\* The same after a step.
LEMMA TypePartsPrimed == ServerOK' /\ LoopTypeOK' /\ SendersInv' => TypeOK'
<1>1. Count(dirty)' \in 0 .. 1 /\ Count(writing)' \in 0 .. 1
  BY DEF Count
<1>2. LoopTypeOK' /\ SendersInv' => senders' \in 0 .. 2 * MaxWrites
  BY <1>1, SendersAreFew DEF LoopTypeOK, SendersInv
<1>3. QED
  BY <1>2 DEF TypeOK, ServerOK, LoopTypeOK

\* The loops keep their types.
LEMMA LoopTypeStep == IInv /\ [Next]_vars => LoopTypeOK'
<1> SUFFICES ASSUME IInv, [Next]_vars PROVE LoopTypeOK'
  OBVIOUS
<1>0. LoopTypeOK
  BY TypeParts DEF IInv
<1> USE <1>0, WritesAssumption DEF LoopTypeOK, Configs, Unreadable, vars, fileVars, loopVars, Alive
<1>1. CASE BeginWrite
  BY <1>1 DEF BeginWrite
<1>2. CASE EndWrite
  <2>1. file' = written /\ writing' = FALSE /\ dirty' = TRUE
    BY <1>2 DEF EndWrite
  <2>2. UNCHANGED <<ctxDone, main, written, loopVars>>
    BY <1>2 DEF EndWrite
  <2>3. written \in Configs
    BY DEF Configs
  <2>4. file' \in Configs
    BY <2>1, <2>3
  <2> HIDE DEF Configs
  <2>5. QED
    BY <2>1, <2>2, <2>4
<1>3. CASE WriteIsCutOff
  BY <1>3 DEF WriteIsCutOff
<1>4. CASE Debounced
  <2>1. dirty' = FALSE /\ senders' = senders + 1
    BY <1>4 DEF Debounced
  <2>2. UNCHANGED <<ctxDone, main, file, written, writing, poller, offered, reconf>>
    BY <1>4 DEF Debounced
  <2>3. senders' \in Nat
    BY <2>1
  <2> HIDE DEF Configs
  <2>4. QED
    BY <2>1, <2>2, <2>3
<1>5. CASE TakeChange
  BY <1>5 DEF TakeChange
<1>6. CASE TakeTrigger
  BY <1>6 DEF TakeTrigger
<1>7. CASE PollEnds
  BY <1>7 DEF PollEnds
<1>8. CASE ReadFile
  BY <1>8 DEF ReadFile
<1>9. CASE ReadFails
  BY <1>9 DEF ReadFails
<1>10. CASE Reconfigure
  BY <1>10 DEF Reconfigure
<1>11. CASE ReconfEnds
  BY <1>11 DEF ReconfEnds
<1>12. CASE ReconfReturns
  BY <1>12 DEF ReconfReturns
<1>13. ASSUME NEW s \in Starts, StartServer(s) PROVE LoopTypeOK'
  BY <1>13 DEF StartServer
<1>14. CASE Signal
  BY <1>14 DEF Signal
<1>15. CASE NodeExits
  BY <1>15 DEF NodeExits
<1>16. CASE Exit
  BY <1>16 DEF Exit
<1>17. CASE UNCHANGED vars
  BY <1>17
<1> HIDE DEF IInv, TypeOK
<1>18. QED
  BY <1>1, <1>2, <1>3, <1>4, <1>5, <1>6, <1>7, <1>8, <1>9, <1>10, <1>11, <1>12,
     <1>13, <1>14, <1>15, <1>16, <1>17 DEF Next

\* An event that is passed on is not passed on again.
LEMMA SendersStep == IInv /\ [Next]_vars => SendersInv'
<1> SUFFICES ASSUME IInv, [Next]_vars PROVE SendersInv'
  OBVIOUS
<1>0. LoopTypeOK /\ SendersInv
  BY TypeParts DEF IInv
<1> USE <1>0, WritesAssumption DEF LoopTypeOK, SendersInv, Count, vars, fileVars, loopVars
<1>1. CASE BeginWrite
  BY <1>1 DEF BeginWrite
<1>2. CASE EndWrite
  BY <1>2 DEF EndWrite
<1>3. CASE WriteIsCutOff
  BY <1>3 DEF WriteIsCutOff
<1>4. CASE Debounced
  BY <1>4 DEF Debounced
<1>5. CASE TakeChange
  BY <1>5 DEF TakeChange
<1>6. CASE TakeTrigger
  BY <1>6 DEF TakeTrigger
<1>7. CASE PollEnds
  BY <1>7 DEF PollEnds
<1>8. CASE ReadFile
  BY <1>8 DEF ReadFile
<1>9. CASE ReadFails
  BY <1>9 DEF ReadFails
<1>10. CASE Reconfigure
  BY <1>10 DEF Reconfigure
<1>11. CASE ReconfEnds
  BY <1>11 DEF ReconfEnds
<1>12. CASE ReconfReturns
  BY <1>12 DEF ReconfReturns
<1>13. ASSUME NEW s \in Starts, StartServer(s) PROVE SendersInv'
  BY <1>13 DEF StartServer
<1>14. CASE Signal
  BY <1>14 DEF Signal
<1>15. CASE NodeExits
  BY <1>15 DEF NodeExits
<1>16. CASE Exit
  BY <1>16 DEF Exit
<1>17. CASE UNCHANGED vars
  BY <1>17
<1> HIDE DEF IInv, TypeOK
<1>18. QED
  BY <1>1, <1>2, <1>3, <1>4, <1>5, <1>6, <1>7, <1>8, <1>9, <1>10, <1>11, <1>12,
     <1>13, <1>14, <1>15, <1>16, <1>17 DEF Next

-----------------------------------------------------------------------------
(* The theorems *)

\* The invariant holds in every state.
LEMMA Inductive == Spec => []IInv
<1>1. Init => IInv
  <2> SUFFICES ASSUME Init PROVE IInv
    OBVIOUS
  <2>1. PICK taken \in SUBSET Addresses : ServerInit(Unreadable, taken)
    BY DEF Init
  <2>2. Unreadable \in Configs /\ 1 \in Configs
    BY WritesAssumption DEF Configs, Unreadable
  <2>3. ServerOK
    BY <2>1, <2>2, AddressesAre, StartsAre DEF ServerInit, ServerOK, ServerTypeOK, Stages
  <2>4. LoopTypeOK
    <3>1. file \in Configs /\ offered \in Configs
      BY <2>2 DEF Init
    <3>2. written \in 1 .. MaxWrites /\ senders \in Nat
      BY WritesAssumption DEF Init
    <3>3. QED
      BY <3>1, <3>2 DEF Init, LoopTypeOK
  <2>5. SendersInv
    BY DEF Init, SendersInv, Count
  <2>6. StageInv
    BY <2>1, AddressesAre, StartsAre DEF ServerInit, StageInv, Unbuilt
  <2>7. ClosedInv /\ NewestInv
    BY <2>1 DEF ServerInit, ClosedInv, NewestInv
  <2>8. QED
    BY <2>3, <2>4, <2>5, <2>6, <2>7, TypeParts DEF IInv
<1>2. IInv /\ [Next]_vars => IInv'
  BY NodeUsesServers, ServerTypeStep, StageStep, ClosedStep, NewestStep, LoopTypeStep, SendersStep,
     TypePartsPrimed DEF IInv
<1>3. QED
  BY <1>1, <1>2, PTL DEF Spec

\* Type correctness of the node that reloads its configuration, with its servers:
\* the callbacks of the watcher that wait are at most two for each configuration.
THEOREM TypeCorrect == Spec => []TypeOK
BY Inductive, PTL DEF IInv

\* When every start has come as far as Serve, the newest server is in the field
\* and accepts requests.
THEOREM NewestServes == Spec => []NewestServerServes
<1>1. IInv => NewestServerServes
  <2> SUFFICES ASSUME IInv, Alive, starts > 0, Settled
               PROVE  server = starts /\ \A a \in Mandatory : accepts[a] = starts
    BY DEF NewestServerServes
  <2>1. ServerOK /\ StageInv /\ NewestInv
    BY TypeParts DEF IInv
  <2>2. starts \in Starts /\ server \in Starts \cup {NoServer}
    BY <2>1, StartsAre DEF ServerOK, ServerTypeOK
  <2>3. \A s \in Starts : stage[s] # "new" => stage[s] \in {"serve", "returned"}
    BY DEF Settled
  <2>4. \A s \in Starts : stage[s] \notin Unbuilt => tried[s] = Len(Listeners)
    BY <2>1, <2>3 DEF StageInv, Unbuilt
  <2>5. stage[starts] \in Serving /\ stage[starts] \notin Unbuilt
    <3>1. starts <= starts
      BY <2>2, StartsAre
    <3>2. stage[starts] # "new"
      BY <2>1, <2>2, <3>1 DEF StageInv
    <3>3. QED
      BY <2>2, <2>3, <3>2 DEF Serving, Unbuilt
  <2>6. /\ server # NoServer /\ Keeps(starts) /\ Keeps(server)
        /\ \A a \in Addresses : held[a] = starts /\ accepts[a] # NoServer => Keeps(accepts[a])
    BY <2>1, <2>5 DEF NewestInv
  <2>7. \A s \in Starts, a \in Mandatory : Keeps(s) /\ stage[s] \notin Unbuilt => held[a] = s
    BY <2>4, AddressesAre DEF Keeps
  <2>8. \A a \in Mandatory : held[a] = starts
    BY <2>2, <2>5, <2>6, <2>7
  <2>9. server = starts
    <3>1. PICK a \in Mandatory : TRUE
      BY AddressesAre
    <3>2. stage[server] \notin Unbuilt
      BY <2>1, <2>6 DEF StageInv
    <3>3. held[a] = server
      BY <2>2, <2>6, <2>7, <3>2
    <3>4. QED
      BY <2>8, <3>3
  <2>10. ASSUME NEW a \in Mandatory PROVE accepts[a] = starts
    <3>1. a \in Addresses /\ held[a] = starts
      BY <2>8, AddressesAre
    <3>2. accepts[a] # NoServer
      BY <2>2, <3>1 DEF Settled
    <3>3. accepts[a] \in Starts /\ stage[accepts[a]] \notin Unbuilt
      BY <2>1, <3>1, <3>2 DEF ServerOK, ServerTypeOK, StageInv
    <3>4. held[a] = accepts[a]
      BY <2>6, <2>7, <3>1, <3>2, <3>3
    <3>5. QED
      BY <3>1, <3>4
  <2>11. QED
    BY <2>9, <2>10
<1>2. QED
  BY <1>1, Inductive, PTL
-----------------------------------------------------------------------------
(* What is served when the loops rest *)

\* Somebody is about to read the file: there is an event that the watcher has not
\* passed on, a callback or the command waits for filePollConfig, or that reads.
Pending == dirty \/ senders > 0 \/ main = "trigger" \/ poller = "read"

\* Unless somebody is, what filePollConfig offers is what is in the file, and what it
\* has handed over is the configuration of the newest server.
FreshInv ==
    /\ poller = "send" => offered # Unreadable
    /\ poller = "send" /\ ~Pending => offered = file
    /\ poller = "select" /\ ~Pending =>
          file # Unreadable /\ starts \in Starts /\ config[starts] = file

\* No change of the file is missed between filePollConfig, which is told of one while
\* it reads or sends, and the loop it hands the configuration to.
LEMMA FreshStep == IInv /\ FreshInv /\ [Next]_vars => FreshInv'
<1> SUFFICES ASSUME IInv, FreshInv, [Next]_vars PROVE FreshInv'
  OBVIOUS
<1>0. LoopTypeOK /\ ServerOK
  BY TypeParts DEF IInv
<1> USE <1>0 DEF FreshInv, Pending, LoopTypeOK, ServerOK, ServerTypeOK, vars, fileVars, loopVars,
                 serverVars
<1>1. CASE BeginWrite
  BY <1>1 DEF BeginWrite
<1>2. CASE EndWrite
  BY <1>2 DEF EndWrite
<1>3. CASE WriteIsCutOff
  BY <1>3 DEF WriteIsCutOff
<1>4. CASE Debounced
  BY <1>4 DEF Debounced
<1>5. CASE TakeChange
  BY <1>5 DEF TakeChange
<1>6. CASE TakeTrigger
  BY <1>6 DEF TakeTrigger
<1>7. CASE PollEnds
  BY <1>7 DEF PollEnds
<1>8. CASE ReadFile
  BY <1>8 DEF ReadFile
<1>9. CASE ReadFails
  BY <1>9 DEF ReadFails
<1>10. CASE Reconfigure
  <2>1. offered \in Configs /\ Spawn(offered)
    BY <1>10 DEF Reconfigure
  <2>2. PICK n \in Starts : starts' = n /\ config' = [config EXCEPT ![n] = offered]
    BY <2>1, SpawnIs
  <2>3. starts' \in Starts /\ config'[starts'] = offered
    BY <2>2
  <2>4. poller = "send" /\ poller' = "select" /\ UNCHANGED <<main, file, dirty, senders>>
    BY <1>10 DEF Reconfigure
  <2>5. QED
    BY <2>3, <2>4
<1>11. CASE ReconfEnds
  BY <1>11 DEF ReconfEnds
<1>12. CASE ReconfReturns
  BY <1>12 DEF ReconfReturns
<1>13. ASSUME NEW s \in Starts, StartServer(s) PROVE FreshInv'
  <2>1. UNCHANGED <<starts, config>>
    BY <1>13 DEF StartServer, ServerStep, Refuse, CreateServer, Listen, Serve, Accept, ServeReturns
  <2>2. UNCHANGED <<main, fileVars, loopVars>>
    BY <1>13 DEF StartServer
  <2>3. QED
    BY <2>1, <2>2
<1>14. CASE Signal
  BY <1>14 DEF Signal
<1>15. CASE NodeExits
  BY <1>15 DEF NodeExits
<1>16. CASE Exit
  BY <1>16 DEF Exit
<1>17. CASE UNCHANGED vars
  BY <1>17
<1> HIDE DEF IInv, FreshInv
<1>18. QED
  BY <1>1, <1>2, <1>3, <1>4, <1>5, <1>6, <1>7, <1>8, <1>9, <1>10, <1>11, <1>12,
     <1>13, <1>14, <1>15, <1>16, <1>17 DEF Next

\* The loops lose no change of the file, in every state.
LEMMA Fresh == Spec => []FreshInv
<1>1. Init => FreshInv
  BY DEF Init, FreshInv, Pending
<1>2. IInv /\ FreshInv /\ [Next]_vars => FreshInv'
  BY FreshStep
<1>3. QED
  BY <1>1, <1>2, Inductive, PTL DEF Spec

\* A node at rest, whose starts have all come as far as Serve, serves the
\* configuration that is in the file, on every address that has to be bound: no
\* overlap of writes, callbacks, reads and starts loses the last change, as long as
\* filePollConfig still waits for one.
AtRestFileIsServed ==
    Alive /\ Settled /\ poller = "select" /\ ~Pending =>
        /\ file # Unreadable
        /\ \A a \in Mandatory : accepts[a] # NoServer /\ config[accepts[a]] = file

\* The reloads of "wunderctl up" (filePollConfig, reconfigureOnConfigUpdate and
\* startServer of node.go) come to rest with the last configuration served: what the
\* run shows of ConfigIsServed in the end, this shows of every state of rest.
THEOREM RestingNodeServesFile == Spec => []AtRestFileIsServed
<1>1. FreshInv /\ IInv /\ NewestServerServes => AtRestFileIsServed
  <2> SUFFICES ASSUME FreshInv, IInv, NewestServerServes,
                      Alive, Settled, poller = "select", ~Pending
               PROVE  /\ file # Unreadable
                      /\ \A a \in Mandatory : accepts[a] # NoServer /\ config[accepts[a]] = file
    BY DEF AtRestFileIsServed
  <2>1. file # Unreadable /\ starts \in Starts /\ config[starts] = file
    BY DEF FreshInv
  <2>2. starts > 0 /\ starts # NoServer
    BY <2>1, StartsAre
  <2>3. \A a \in Mandatory : accepts[a] = starts
    BY <2>2 DEF NewestServerServes
  <2>4. QED
    BY <2>1, <2>2, <2>3
<1>2. QED
  BY <1>1, Fresh, Inductive, NewestServes, PTL
-----------------------------------------------------------------------------
(***************************************************************************)
(* "wunderctl start": the same servers in NodeStart, of which there is one *)
(* and whose configuration does not change.                                *)
(***************************************************************************)
CONSTANT StaticConfigs
VARIABLES signalled, node, hooks
Static == INSTANCE NodeStart WITH Configs <- StaticConfigs

\* Both are nodes with the servers of NodeServer.
LEMMA SameServers ==
    ASSUME NEW CONSTANT C
    PROVE  /\ Static!ServerTypeOK(C) <=> ServerTypeOK(C)
           /\ Static!ServerTypeOK(C)' <=> ServerTypeOK(C)'
           /\ Static!serverVars = serverVars
BY DEF Static!ServerTypeOK, Static!Starts, Static!NoServer, Static!OtherProcess, Static!Addresses,
       Static!Stages, Static!serverVars, ServerTypeOK, Starts, NoServer, OtherProcess, Addresses,
       Stages, serverVars

\* And they do the same with them.
LEMMA SameSteps ==
    /\ Static!CloseListeners <=> CloseListeners
    /\ \A c : Static!Spawn(c) <=> Spawn(c)
    /\ \A s : Static!ServerStep(s) <=> ServerStep(s)
<1>1. Static!CloseListeners <=> CloseListeners
  BY DEF Static!CloseListeners, Static!StopAccepting, Static!NoServer, Static!Addresses,
         CloseListeners, StopAccepting, NoServer, Addresses
<1>2. \A c : Static!Spawn(c) <=> Spawn(c)
  BY DEF Static!Spawn, Spawn
<1>3. ASSUME NEW s
      PROVE  /\ Static!Refuse(s) <=> Refuse(s)
             /\ Static!CreateServer(s) <=> CreateServer(s)
             /\ Static!Serve(s) <=> Serve(s)
  BY DEF Static!Refuse, Static!CreateServer, Static!Serve, Static!At,
         Refuse, CreateServer, Serve, At
<1>4. ASSUME NEW s PROVE Static!Listen(s) <=> Listen(s)
  BY DEF Static!Listen, Static!NoServer, Static!At, Listen, NoServer, At
<1>5. ASSUME NEW s
      PROVE  /\ Static!Accept(s) <=> Accept(s)
             /\ Static!ServeReturns(s) <=> ServeReturns(s)
  BY DEF Static!Accept, Static!ServeReturns, Static!NoServer, Static!Addresses, Static!At,
         Accept, ServeReturns, NoServer, Addresses, At
<1>6. QED
  BY <1>1, <1>2, <1>3, <1>4, <1>5 DEF Static!ServerStep, ServerStep

\* A shutdown that has reached the server is final: no address accepts requests, and
\* none will, whatever startServer has still to bind.
ShutdownIsFinal == closed # {} => \A a \in Addresses : accepts[a] = NoServer

\* The one call of startServer sets the server once, before it can be closed.
StaticServers ==
    /\ ServerTypeOK(StaticConfigs \cup {0})
    /\ starts = 0 <=> stage[1] = "new"
    /\ server # NoServer => stage[1] \notin Unbuilt
    /\ closed # {} => server # NoServer
    /\ ShutdownIsFinal

StaticInv == Static!TypeOK /\ StaticServers

\* The goroutines of the command, by name.
StaticLoops ==
    /\ signalled \in BOOLEAN
    /\ main \in {"serve", "shutdown", "group", "exit 0", "exit 1"}
    /\ node \in {"load", "run", "nil", "error"}
    /\ hooks \in {"load", "made", "missed", "run", "stopping", "survives", "nil", "error"}

\* The parts of the type invariant, before a step and after it.
LEMMA StaticTypeParts ==
    /\ Static!TypeOK <=> ServerTypeOK(StaticConfigs \cup {0}) /\ StaticLoops
    /\ Static!TypeOK' <=> ServerTypeOK(StaticConfigs \cup {0})' /\ StaticLoops'
<1>1. /\ Static!ServerTypeOK(StaticConfigs \cup {0}) <=> ServerTypeOK(StaticConfigs \cup {0})
      /\ Static!ServerTypeOK(StaticConfigs \cup {0})' <=> ServerTypeOK(StaticConfigs \cup {0})'
  BY SameServers
<1>2. QED
  BY <1>1
     DEF Static!TypeOK, Static!NoConfig, Static!Running, Static!Waiting, StaticLoops

\* What the command, the node and the call of startServer do to the server keeps it.
LEMMA StaticServersStep ==
    ASSUME MaxStarts = 1, StaticServers,
           \/ \E c \in StaticConfigs :
                 Spawn(c) /\ UNCHANGED <<server, tried, held, accepts, closed>>
           \/ ServerStep(1)
           \/ CloseListeners /\ UNCHANGED <<server, starts, stage, config, tried>>
           \/ UNCHANGED serverVars
    PROVE  StaticServers'
<1> USE AddressesAre
    DEF StaticServers, ServerTypeOK, ShutdownIsFinal, Stages, Unbuilt, At, NoServer
<1>0. Starts = {1} /\ OtherProcess = 2
  BY DEF Starts, OtherProcess
<1>1. ASSUME NEW c \in StaticConfigs, Spawn(c), UNCHANGED <<server, tried, held, accepts, closed>>
      PROVE  StaticServers'
  <2>1. starts = 0 /\ starts' = 1
    BY <1>1, <1>0 DEF Spawn
  <2>2. stage' = [stage EXCEPT ![1] = "build"] /\ config' = [config EXCEPT ![1] = c]
    BY <1>1, <2>1 DEF Spawn
  <2>3. server = NoServer /\ closed = {}
    BY <2>1
  <2>4. QED
    BY <1>0, <1>1, <2>1, <2>2, <2>3
<1>2. CASE Refuse(1)
  BY <1>0, <1>2 DEF Refuse
<1>3. CASE CreateServer(1)
  BY <1>0, <1>3 DEF CreateServer
<1>4. CASE Listen(1)
  <2> DEFINE next == tried[1] + 1
  <2>1. next \in Addresses /\ next \in 0 .. Len(Listeners)
    BY <1>0, <1>4 DEF Listen
  <2>2. stage[1] = "listen" /\ UNCHANGED <<server, starts, config, accepts, closed>>
    BY <1>4 DEF Listen
  <2>3. \/ /\ held' = [held EXCEPT ![next] = 1]
           /\ tried' = [tried EXCEPT ![1] = next] /\ stage' = stage
        \/ held' = held /\ tried' = [tried EXCEPT ![1] = next] /\ stage' = stage
        \/ held' = held /\ tried' = tried /\ stage' = [stage EXCEPT ![1] = "failed"]
    BY <1>4 DEF Listen
  <2> HIDE DEF next
  <2>4. CASE stage' = stage
    <3>1. tried' = [tried EXCEPT ![1] = next]
      BY <1>0, <2>2, <2>3, <2>4
    <3>2. held' \in [Addresses -> Starts \cup {NoServer, OtherProcess}]
      BY <1>0, <2>1, <2>2, <2>3, <2>4
    <3>3. tried' \in [Starts -> 0 .. Len(Listeners)]
      BY <1>0, <2>1, <3>1
    <3>4. QED
      BY <2>2, <2>4, <3>2, <3>3
  <2>5. CASE stage' = [stage EXCEPT ![1] = "failed"]
    <3>1. held' = held /\ tried' = tried
      BY <1>0, <2>2, <2>3, <2>5
    <3>2. QED
      BY <1>0, <2>2, <2>5, <3>1
  <2>6. QED
    BY <2>3, <2>4, <2>5
<1>5. CASE Serve(1)
  BY <1>0, <1>5 DEF Serve
<1>6. CASE Accept(1)
  <2>1. stage[1] = "serve" /\ UNCHANGED <<server, starts, stage, config, tried, closed>>
    BY <1>6 DEF Accept
  <2>2. PICK a \in Addresses :
           /\ held[a] = 1 /\ accepts[a] = NoServer
           /\ IF server \in closed
              THEN held' = [held EXCEPT ![a] = NoServer] /\ UNCHANGED accepts
              ELSE accepts' = [accepts EXCEPT ![a] = server] /\ UNCHANGED held
    BY <1>6 DEF Accept
  <2>3. closed # {} => server \in closed
    <3>1. closed \subseteq {1} /\ server \in {1, NoServer} /\ (closed # {} => server # NoServer)
      BY <1>0
    <3>2. ASSUME NEW x \in closed PROVE server \in closed
      <4>1. x = 1 /\ server = 1
        BY <3>1
      <4>2. QED
        BY <4>1
    <3>3. QED
      BY <3>2
  <2>4. CASE server \in closed
    <3>1. held' = [held EXCEPT ![a] = NoServer] /\ accepts' = accepts
      BY <2>2, <2>4
    <3>2. held' \in [Addresses -> Starts \cup {NoServer, OtherProcess}]
      BY <3>1
    <3>3. QED
      BY <1>0, <2>1, <3>1, <3>2
  <2>5. CASE server \notin closed
    <3>1. closed = {} /\ accepts' = [accepts EXCEPT ![a] = server] /\ held' = held
      BY <2>2, <2>3, <2>5
    <3>2. accepts' \in [Addresses -> Starts \cup {NoServer}]
      BY <1>0, <3>1
    <3>3. QED
      BY <1>0, <2>1, <3>1, <3>2
  <2>6. QED
    BY <2>4, <2>5
<1>7. CASE ServeReturns(1)
  BY <1>0, <1>7 DEF ServeReturns
<1>8. CASE CloseListeners /\ UNCHANGED <<server, starts, stage, config, tried>>
  <2>1. CASE server = NoServer
    BY <1>0, <1>8, <2>1 DEF CloseListeners
  <2>2. CASE server # NoServer
    <3>1. server = 1 /\ closed' = {1} /\ StopAccepting(1)
      BY <1>0, <1>8, <2>2 DEF CloseListeners
    <3>2. \A a \in Addresses : accepts'[a] = NoServer
      BY <1>0, <3>1 DEF StopAccepting
    <3>3. /\ held' \in [Addresses -> Starts \cup {NoServer, OtherProcess}]
          /\ accepts' \in [Addresses -> Starts \cup {NoServer}]
      BY <3>1 DEF StopAccepting
    <3>4. QED
      BY <1>0, <1>8, <2>2, <3>1, <3>2, <3>3
  <2>3. QED
    BY <2>1, <2>2
<1>9. CASE UNCHANGED serverVars
  BY <1>9 DEF serverVars
<1> HIDE DEF StaticServers
<1>10. QED
  BY <1>1, <1>2, <1>3, <1>4, <1>5, <1>6, <1>7, <1>8, <1>9 DEF ServerStep

\* Every step of the command keeps the invariant.
LEMMA StaticStep == MaxStarts = 1 /\ StaticInv /\ [Static!Next]_Static!vars => StaticInv'
<1> SUFFICES ASSUME MaxStarts = 1, StaticInv, [Static!Next]_Static!vars PROVE StaticInv'
  OBVIOUS
<1>1. \/ \E c \in StaticConfigs : Spawn(c) /\ UNCHANGED <<server, tried, held, accepts, closed>>
      \/ ServerStep(1)
      \/ CloseListeners /\ UNCHANGED <<server, starts, stage, config, tried>>
      \/ UNCHANGED serverVars
  <2>0. Static!serverVars = serverVars /\ Static!serverVars' = serverVars'
    BY DEF Static!serverVars, serverVars
  <2>1. CASE Static!LoadConfig
    BY <2>1, SameSteps DEF Static!LoadConfig
  <2>2. CASE Static!StartServer
    BY <2>2, SameSteps DEF Static!StartServer, Static!TheServer
  <2>3. CASE Static!Shutdown
    BY <2>3, SameSteps DEF Static!Shutdown
  <2>4. CASE \/ Static!LoadFails \/ Static!NodeReturns
             \/ Static!HooksMake \/ Static!HooksStart \/ Static!HooksTold \/ Static!HooksEnd
             \/ Static!HooksStopped \/ Static!Signal \/ Static!ShutdownReturns \/ Static!Exit
    BY <2>0, <2>4
       DEF Static!LoadFails, Static!NodeReturns, Static!HooksMake, Static!HooksStart,
           Static!HooksTold, Static!HooksEnd, Static!HooksStopped, Static!Signal, Static!ShutdownReturns, Static!Exit
  <2>5. CASE UNCHANGED Static!vars
    BY <2>0, <2>5 DEF Static!vars
  <2>6. QED
    BY <2>1, <2>2, <2>3, <2>4, <2>5 DEF Static!Next
<1>2. StaticServers'
  BY <1>1, StaticServersStep DEF StaticInv
<1>3. StaticLoops
  BY StaticTypeParts DEF StaticInv
<1>4. StaticLoops'
  BY <1>3
     DEF StaticLoops, Static!Next, Static!vars, Static!LoadConfig, Static!LoadFails,
         Static!StartServer, Static!NodeReturns, Static!HooksMake, Static!HooksStart,
         Static!HooksTold, Static!HooksEnd, Static!HooksStopped, Static!Signal, Static!Shutdown, Static!ShutdownReturns, Static!Exit
<1>5. QED
  BY <1>2, <1>4, StaticTypeParts DEF StaticInv, StaticServers

\* The invariant holds in every state of "wunderctl start".
LEMMA StaticInductive == ASSUME MaxStarts = 1 PROVE Static!Spec => []StaticInv
<1>1. Static!Init => StaticInv
  <2> SUFFICES ASSUME Static!Init PROVE StaticInv
    OBVIOUS
  <2>0. Starts = {1} /\ OtherProcess = 2
    BY DEF Starts, OtherProcess
  <2>1. PICK taken \in SUBSET Addresses : ServerInit(0, taken)
    BY DEF Static!Init, Static!ServerInit, Static!NoConfig, Static!NoServer, Static!Starts,
           Static!OtherProcess, Static!Addresses, ServerInit, NoServer, Starts, OtherProcess,
           Addresses
  <2>2. ServerTypeOK(StaticConfigs \cup {0})
    BY <2>0, <2>1, AddressesAre DEF ServerInit, ServerTypeOK, Stages, NoServer
  <2>3. StaticLoops
    BY DEF Static!Init, StaticLoops
  <2>4. QED
    BY <2>0, <2>1, <2>2, <2>3, StaticTypeParts
       DEF ServerInit, StaticInv, StaticServers, ShutdownIsFinal
<1>2. StaticInv /\ [Static!Next]_Static!vars => StaticInv'
  BY StaticStep
<1>3. QED
  BY <1>1, <1>2, PTL DEF Static!Spec

\* Type correctness of "wunderctl start" (start.go, node.go, server.go), with the one
\* server of its node.
THEOREM StartTypeCorrect == ASSUME MaxStarts = 1 PROVE Static!Spec => []Static!TypeOK
<1>1. StaticInv => Static!TypeOK
  BY DEF StaticInv
<1>2. QED
  BY <1>1, StaticInductive, PTL

\* After HandleGracefulShutdown has reached the server no request is accepted, although
\* startServer may still bind addresses and give them to that server.
THEOREM ShutdownFinal == ASSUME MaxStarts = 1 PROVE Static!Spec => []ShutdownIsFinal
<1>1. StaticInv => ShutdownIsFinal
  BY DEF StaticInv, StaticServers
<1>2. QED
  BY <1>1, StaticInductive, PTL
=============================================================================
