----------------------------- MODULE EngineSlot -----------------------------
(***************************************************************************)
(* What a LazyEngine promises to those who execute on its engine: there is *)
(* one slot; the engine in it can be installed, replaced or removed only   *)
(* while nobody uses it, and whoever begins to use an engine finds one in  *)
(* the slot.                                                               *)
(***************************************************************************)
EXTENDS Naturals

CONSTANT Requests

VARIABLES
    current,         \* the engine in the slot, or 0
    users            \* who executes on it

slotVars == <<current, users>>

Init ==
    /\ current = 0
    /\ users = {}

Install ==
    /\ users = {}
    /\ current' \in Nat \ {current}
    /\ UNCHANGED users

Enter(r) ==
    /\ current # 0
    /\ r \notin users
    /\ users' = users \cup {r}
    /\ UNCHANGED current

Leave(r) ==
    /\ r \in users
    /\ users' = users \ {r}
    /\ UNCHANGED current

Next ==
    \/ Install
    \/ \E r \in Requests : Enter(r) \/ Leave(r)

Spec == Init /\ [][Next]_slotVars
=============================================================================
