------------------------------ MODULE MCServer ------------------------------
(* Small instances of the server for TLC. *)
EXTENDS ServerProps, TLC

\* All connections come from one address.
OneAddr == [c \in Client |-> "ip"]

Symmetry == Permutations(Client)
=============================================================================
