---------------------------- MODULE MCServerRate ----------------------------
(* A small instance of the server with its rate counters for TLC. *)
EXTENDS ServerRate, TLC

\* All connections come from one address.
OneAddr == [c \in Client |-> "ip"]

\* What the fill pattern of the sanitizer build reads as, cut down to size.
Poison == -1

\* Bound: of three, so many connect less as there are rounds of refill_messages.
Bounded == ticks + Cardinality({c \in Client : peer[c] # "away"}) <= 3

RateSpec == RInit /\ [][RNext /\ Bounded']_rvars

Symmetry == Permutations(Client)
=============================================================================
