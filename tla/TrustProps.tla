----------------------------- MODULE TrustProps -----------------------------
(* What trust on first use keeps, with several clients and crashes. *)
EXTENDS Trust

Label == {"menu", "check", "ask", "open", "create", "braces", "read", "truncate",
          "write", "send", "in"}

TypeOK ==
  /\ known \in [is : {"absent", "torn", "text"}, entries : Seq(Pair)]
  /\ pinned \subseteq Pair /\ confirmed \subseteq Pair
  /\ pc \in [Client -> Label] /\ ip \in [Client -> Ip]
  /\ server_pk \in [Client -> Key] /\ json \in [Client -> Seq(Pair)]
  /\ server_key \in {"absent", "empty", "whole"} /\ made \in 0..MaxKeys
  /\ keeping \in BOOLEAN /\ presented \subseteq Key
  /\ connects \in 0..MaxConnects /\ crashes \in 0..MaxCrashes
  /\ overlapped \in BOOLEAN

-----------------------------------------------------------------------------
Holds(es) == {es[i] : i \in DOMAIN es}

(* Nobody talks to a server under a key that no user has confirmed for that*)
(* address: not by way of the file, not through a lost or torn file, not   *)
(* through another client's writing, whatever the network shows.           *)
OnlyConfirmed ==
  \A c \in Client : pc[c] \in {"send", "in"} => [ip |-> ip[c], key |-> server_pk[c]] \in confirmed

\* The steps of mark_server_safe after which its caller writes the file.
Writing == {c \in Client : pc[c] \in {"create", "braces", "truncate", "write"}}

\* A truncated file that nobody is about to write.
Ruined    == known = Torn /\ Writing = {}
RuinedKey == server_key = "empty" /\ ~keeping

(* A file that a crash has left truncated stays so: is_server_impostor     *)
(* calls every server an impostor and mark_server_safe gives up silently,  *)
(* so no pin comes back and nobody even begins to write.  Likewise for an  *)
(* empty server.key, which is read for a key and never made anew.          *)
TornStays == [][(Ruined => Ruined') /\ (RuinedKey => RuinedKey')]_vars

(* While clients take turns at the file and none ends in the middle, a key *)
(* that has been stored for an address is the one compared ever after.     *)
KeptInTurn ==
  (~overlapped /\ crashes = 0 /\ Writing = {}) =>
    \A pair \in pinned : Lookup(known.entries, pair.ip) = pair.key

(* The server shows one key for good, unless it ended while it wrote it.   *)
OneIdentity == crashes = 0 => Cardinality(presented) <= 1

(* README.md:50: a key that has been stored is compared with that of the   *)
(* server in future connections.  Two clients that store at the same time  *)
(* lose a pin without any crash.                                           *)
PinsKept ==
  Writing = {} => \A pair \in pinned : Lookup(known.entries, pair.ip) = pair.key
=============================================================================
