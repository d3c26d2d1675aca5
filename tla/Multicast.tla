----------------------------- MODULE Multicast -----------------------------
(***************************************************************************)
(* What broadcast_clients promises: one total order of writes.  Every      *)
(* member hears, in that order and without a gap, exactly the writes       *)
(* issued while it is a member, and no write is issued, and nobody joins,  *)
(* before all members have heard the previous one.                         *)
(***************************************************************************)
EXTENDS Naturals, Sequences

CONSTANTS Member, Item

VARIABLES
  log,     \* every write issued, in order
  members, \* who takes part
  start,   \* start[m]: how much of the log had been issued when m joined
  heard    \* heard[m]: what m has been given since

mvars == <<log, members, start, heard>>

MInit ==
  /\ log = <<>>
  /\ members = {}
  /\ start = [m \in Member |-> 0]
  /\ heard = [m \in Member |-> <<>>]

Heard(m) == start[m] + Len(heard[m])

Quiet == \A m \in members : Heard(m) = Len(log)

Join(m) ==
  /\ m \notin members /\ heard[m] = <<>> /\ Quiet
  /\ members' = members \cup {m}
  /\ start' = [start EXCEPT ![m] = Len(log)]
  /\ UNCHANGED <<log, heard>>

Leave(m) ==
  /\ m \in members
  /\ members' = members \ {m}
  /\ UNCHANGED <<log, start, heard>>

Issue(item) ==
  /\ Quiet
  /\ log' = Append(log, item)
  /\ UNCHANGED <<members, start, heard>>

Hear(m) ==
  /\ m \in members /\ Heard(m) < Len(log)
  /\ heard' = [heard EXCEPT ![m] = Append(@, log[Heard(m) + 1])]
  /\ UNCHANGED <<log, members, start>>

MNext ==
  \/ \E item \in Item : Issue(item)
  \/ \E m \in Member : Join(m) \/ Leave(m) \/ Hear(m)

MSpec == MInit /\ [][MNext]_mvars
=============================================================================
