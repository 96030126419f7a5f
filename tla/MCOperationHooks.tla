-------------------------- MODULE MCOperationHooks --------------------------
(* Every combination of the hooks of the operation; those of the transport *)
(* are there both or not at all, and a mocked operation has only them.     *)
EXTENDS OperationHooks

OperationHookSets ==
    {{"mockResolve"}} \cup SUBSET (Hooks \ (OriginHooks \cup {"mockResolve"}))
MCHookSets == OperationHookSets \cup {set \cup OriginHooks : set \in OperationHookSets}
=============================================================================
