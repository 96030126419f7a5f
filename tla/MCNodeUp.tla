------------------------------ MODULE MCNodeUp ------------------------------
(* The host "localhost", which resolves to ::1 and 127.0.0.1. *)
EXTENDS NodeUp

MCListeners == <<"tcp6", "tcp4">>
=============================================================================
