------------------------------ MODULE RWMutex ------------------------------
(***************************************************************************)
(* The reader/writer lock of Go's standard library (sync.RWMutex), as the  *)
(* database data source uses it.                                           *)
(*                                                                         *)
(* Lock has two phases: a goroutine announces itself as the writer, which  *)
(* needs every earlier writer gone, and then waits until the readers that  *)
(* were there have left.  A reader that arrives after the announcement is  *)
(* blocked, and Unlock admits all the blocked readers at once, before the  *)
(* next writer can announce itself.                                        *)
(***************************************************************************)
CONSTANT Nobody      \* the value of "writer" when no writer is announced

VARIABLES
    readers,         \* the goroutines that hold the read lock
    blocked,         \* the goroutines inside RLock, waiting for a writer
    writer           \* the announced writer, or Nobody

mutexVars == <<readers, blocked, writer>>

MutexInit ==
    /\ readers = {}
    /\ blocked = {}
    /\ writer = Nobody

\* Enters RLock: the goroutine is a reader at once, or blocked.
RLock(t) ==
    /\ \/ /\ writer = Nobody
          /\ readers' = readers \cup {t}
          /\ UNCHANGED blocked
       \/ /\ writer # Nobody
          /\ blocked' = blocked \cup {t}
          /\ UNCHANGED readers
    /\ UNCHANGED writer

RUnlock(t) ==
    /\ t \in readers
    /\ readers' = readers \ {t}
    /\ UNCHANGED <<blocked, writer>>

\* The first phase of Lock.
Announce(t) ==
    /\ writer = Nobody
    /\ writer' = t
    /\ UNCHANGED <<readers, blocked>>

\* Lock has returned to t.
HoldsWrite(t) ==
    /\ writer = t
    /\ readers = {}

Unlock(t) ==
    /\ HoldsWrite(t)
    /\ writer' = Nobody
    /\ readers' = blocked
    /\ blocked' = {}

Holds(t) == t \in readers \/ HoldsWrite(t)
=============================================================================
