------------------------------ MODULE MCTrust ------------------------------
(* Two clients of one directory, for TLC. *)
EXTENDS TrustProps, TLC

Symmetry == Permutations(Client)
=============================================================================
