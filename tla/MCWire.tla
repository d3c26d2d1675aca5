------------------------------- MODULE MCWire -------------------------------
(* A small instance of one direction of a connection for TLC. *)
EXTENDS WireProps

CONSTANTS empty, short, huge

Sizes == (empty :> 0) @@ (short :> 2) @@ (huge :> 3)
=============================================================================
