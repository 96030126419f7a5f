---------------------------- MODULE ProcessSlot ----------------------------
(***************************************************************************)
(* What a ScriptRunner promises to a caller who lets each call of Run      *)
(* return before the next: a slot with one process at a time.  A process   *)
(* is started once, in an empty slot, for the call that asked for it; it   *)
(* is told to stop only when another one is asked for, or when the context *)
(* is done; and one that does not end by itself ends only then.  When two  *)
(* calls overlap, nothing is promised any more.                            *)
(***************************************************************************)
CONSTANTS
    Slots,
    Lasting,         \* the slots of processes that do not end by themselves
    Processes,
    Nobody

VARIABLES
    used,            \* the processes that were ever asked for
    asked,           \* whose process is asked for, of each slot
    holds,           \* the process in each slot
    told,            \* the slots whose process was told to stop
    void,            \* the slots that nothing is promised of
    cancelled        \* is the context done?

slotVars == <<used, asked, holds, told, void, cancelled>>

Init ==
    /\ used = {}
    /\ asked = [s \in Slots |-> Nobody]
    /\ holds = [s \in Slots |-> Nobody]
    /\ told = {}
    /\ void = {}
    /\ cancelled = FALSE

Ask(s, p) ==
    /\ s \notin void /\ asked[s] = Nobody
    /\ p \notin used
    /\ used' = used \cup {p}
    /\ asked' = [asked EXCEPT ![s] = p]
    /\ UNCHANGED <<holds, told, void, cancelled>>

Start(s) ==
    /\ asked[s] # Nobody /\ holds[s] = Nobody
    /\ asked' = [asked EXCEPT ![s] = Nobody]
    /\ holds' = [holds EXCEPT ![s] = asked[s]]
    /\ UNCHANGED <<used, told, void, cancelled>>

Tell(s) ==
    /\ holds[s] # Nobody
    /\ asked[s] # Nobody \/ cancelled
    /\ told' = told \cup {s}
    /\ UNCHANGED <<used, asked, holds, void, cancelled>>

End(s) ==
    /\ holds[s] # Nobody
    /\ s \in Lasting => s \in told
    /\ holds' = [holds EXCEPT ![s] = Nobody]
    /\ told' = told \ {s}
    /\ UNCHANGED <<used, asked, void, cancelled>>

\* Somebody asks while another is asked for, or has asked in the same way before.
Overlap(s, p) ==
    /\ s \in void \/ asked[s] # Nobody
    /\ p \notin used
    /\ used' = used \cup {p}
    /\ asked' = [asked EXCEPT ![s] = Nobody]
    /\ holds' = [holds EXCEPT ![s] = Nobody]
    /\ told' = told \ {s}
    /\ void' = void \cup {s}
    /\ UNCHANGED cancelled

Cancel ==
    /\ cancelled' = TRUE
    /\ UNCHANGED <<used, asked, holds, told, void>>

Next ==
    \/ \E s \in Slots, p \in Processes : Ask(s, p) \/ Overlap(s, p)
    \/ \E s \in Slots : Start(s) \/ Tell(s) \/ End(s)
    \/ Cancel

Spec == Init /\ [][Next]_slotVars
=============================================================================
