---------------------------- MODULE ServerProps ----------------------------
(* What the server of module Server promises, and what it does not. *)
EXTENDS Server

Leaving(t) == pc[t] = "close" \/ (pc[t] \in {"bcast", "send"} /\ out[t].kind = "left")

\* A connection that a client_manage thread serves and has not yet given up.
Served(c) == pc[c] \notin {"idle", "done"} /\ ~Leaving(c)

Working(t) == pc[t] \notin {"idle", "done", "accept"}

-----------------------------------------------------------------------------
(* Every variable stays in the type its C declaration and use give it. *)
TypeOK ==
  /\ clients \in [1..MaxClients -> Client \cup {Null}]
  /\ client_n \in 0..MaxClients
  /\ username_id \in Nat
  /\ mutex \in Thread \cup {Null}
  /\ cursor \in Nat
  /\ pc \in [Thread -> Label]
  /\ cur \in Client \cup {Null}
  /\ out \in [Caller -> Notice]
  /\ want \in [Client -> Nat]
  /\ found \in [Client -> BOOLEAN]
  /\ reg \in [Thread -> Int]
  /\ mem \in [Client -> {"none", "live", "freed"}]
  /\ name \in [Client -> {"unset", "set", "freed"}]
  /\ username \in [Client -> Nat]
  /\ messages_remaining \in [Client -> Int]
  /\ backlog \in Seq(Client)
  /\ peer \in [Client -> {"away", "open", "closed"}]
  /\ sock \in [Client -> Nat]
  /\ stream \in [Client -> {"unset", "keyed", "open"}]
  /\ crashed \in BOOLEAN

(* The swap-with-last removal of disconnect_client keeps clients[] a list  *)
(* of distinct connections without holes, and no listed Client has been    *)
(* freed: what broadcast_clients, refill_messages and the two searches     *)
(* dereference under the lock is alive, whoever is leaving meanwhile.      *)
RosterSound ==
  /\ \A i \in 1..client_n : clients[i] # Null /\ mem[clients[i]] = "live"
  /\ \A i, j \in 1..client_n : clients[i] = clients[j] => i = j
  /\ \A i \in 1..MaxClients : i > client_n => clients[i] = Null

(* No client that is being served drops out of the table because another   *)
(* one left: it would go on speaking and never hear anything again.        *)
RosterComplete == \A c \in Client : Served(c) => c \in Listed

(* A Client struct is used by one thread at a time, Main first and then    *)
(* its client_manage, and by nobody after disconnect_client has freed it.  *)
OneOwner ==
  /\ \A t \in Caller : Working(t) => mem[Subject(t)] = "live"
  /\ Working(Main) => ~Working(cur)

(* README: 5 users per IP limit.  The check of Main and the leaving of the *)
(* threads interleave, yet no more than MAX_SAME_CLIENTS connections of    *)
(* one address are ever served at once.                                    *)
IpLimit ==
  \A c \in Client : Cardinality({d \in Client : Served(d) /\ Addr[d] = Addr[c]}) <= MaxSame

(* README: 5 users per IP limit.  Only who comes on top of                 *)
(* MAX_SAME_CLIENTS others of the same address is turned away for it.      *)
RefusedOverLimit ==
  [][(pc[Main] = "abusive" /\ pc'[Main] = "remove") =>
       Cardinality({d \in Listed \ {cur} : Addr[d] = Addr[cur]}) >= MaxSame]_vars

-----------------------------------------------------------------------------
(* README: performance degrades beyond 5K users, and each client is        *)
(* handled independently.  In particular nobody's arrival at a full table, *)
(* and nobody's change of name, ends the server process.                   *)
KeepsRunning == ~crashed

-----------------------------------------------------------------------------
(* Everyone who connects is served or turned away.                         *)
Admission ==
  \A c \in Client :
    (peer[c] = "open" /\ mem[c] = "none") ~> (pc[c] # "idle" \/ mem[c] = "freed")

(* A connection whose peer is gone is announced as left and released, even *)
(* when that means waiting for a broadcast that is blocked on another peer.*)
Cleanup ==
  \A c \in Client : (peer[c] = "closed" /\ mem[c] = "live") ~> mem[c] = "freed"
=============================================================================
