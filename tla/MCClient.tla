------------------------------ MODULE MCClient ------------------------------
(***************************************************************************)
(* The client's two parts, for TLC: trust on first use by two clients of   *)
(* one directory, and a few runs of one client.  They share no state, so   *)
(* each is explored while the other stays at its start.                    *)
(*                                                                         *)
(* The published version is the local one, another one of the same or a    *)
(* greater length, or the local one with something after it that fills the *)
(* buffer or more.                                                         *)
(***************************************************************************)
EXTENDS ChatClient, TrustProps, TLC

Ours == <<"1", "2">>
Versions == {<<"1", "2", "nl">>, <<"1", "3", "nl">>, <<"1", "2", "3">>, <<"1", "2", "3", "4", "nl">>}

ClientInit == Init /\ CInit

ClientNext ==
  \/ CInit /\ Next /\ UNCHANGED cvars
  \/ Init /\ CNext /\ UNCHANGED vars

ClientSpec == ClientInit /\ [][ClientNext]_<<vars, cvars>>

Symmetry == Permutations(Client)
=============================================================================
