---------------------------- MODULE MCQueryCache ----------------------------
(* Requests and the pool's buffers are interchangeable.                    *)
EXTENDS QueryCache, TLC

MCSymmetry == Permutations(Requests) \cup Permutations(Buffers)
=============================================================================
