------------------------------ MODULE MCOrder ------------------------------
(* Small instances of the recorded server for TLC. *)
EXTENDS Order, TLC

OneAddr == [c \in Client |-> "ip"]

Symmetry == Permutations(Client)
=============================================================================
