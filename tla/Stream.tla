------------------------------- MODULE Stream -------------------------------
(***************************************************************************)
(* What one direction of an encrypted connection promises: the messages    *)
(* accepted at one end are the ones offered at the other, in order, with   *)
(* nothing between them left out, altered or repeated.  Any number of the  *)
(* last ones may never arrive.                                             *)
(***************************************************************************)
EXTENDS Naturals, Sequences

CONSTANT Message

VARIABLES offered, accepted

svars == <<offered, accepted>>

SInit == offered = <<>> /\ accepted = <<>>

Offers(m) ==
  /\ offered' = Append(offered, m)
  /\ UNCHANGED accepted

Accepts ==
  /\ Len(accepted) < Len(offered)
  /\ accepted' = Append(accepted, offered[Len(accepted) + 1])
  /\ UNCHANGED offered

SNext == (\E m \in Message : Offers(m)) \/ Accepts

SSpec == SInit /\ [][SNext]_svars
=============================================================================
