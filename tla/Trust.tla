-------------------------------- MODULE Trust --------------------------------
(***************************************************************************)
(* Trust on first use: the client processes of one directory, which share  *)
(* known_servers.json, and the server that keeps its key in server.key.    *)
(* handshake_client asks is_server_impostor about the key it is shown and, *)
(* on the user's ENTER, has mark_server_safe add it; handshake_server      *)
(* reads its key or makes one.  Files are written when they are closed:    *)
(* truncation and content are two steps, and a process may end in between. *)
(*                                                                         *)
(* Each read of a file is one step.  Two writers that have both truncated  *)
(* the file write over each other from its start; cJSON_Parse stops after  *)
(* the first value, so what is read back is the text written last.         *)
(***************************************************************************)
EXTENDS Integers, Sequences, FiniteSets

CONSTANTS
  Client,     \* client processes that share a directory
  Ip,         \* what the users enter as the server's address
  Home,       \* the address at which the server is
  Forged,     \* a key of somebody in between, or of another server
  Junk,       \* what an uninitialized key may hold
  None,       \* no key
  MaxKeys,    \* bound: keys the server makes
  MaxConnects,\* bound: connections made
  MaxCrashes  \* bound: processes that end in the middle

Key == 1..MaxKeys \cup {Forged} \cup Junk
Pair == [ip : Ip, key : Key]

ASSUME TrustAssumption ==
  /\ Home \in Ip
  /\ {MaxKeys, MaxConnects, MaxCrashes} \subseteq Nat
  /\ Junk # {} /\ None \notin Key

VARIABLES
  known,       \* known_servers.json
  pc, ip, server_pk, json,  \* of each client; json is what it has parsed
  server_key,  \* server.key
  made,        \* keys the server has made
  keeping,     \* whether it has opened server.key for writing
  connects, crashes,
  confirmed,   \* pairs for which a user has pressed ENTER
  pinned,      \* pairs that mark_server_safe has stored
  overlapped,  \* whether two clients have ever handled the file together
  presented    \* keys the server has shown

store  == <<known, pinned>>
client == <<pc, ip, server_pk, json, confirmed>>
server == <<server_key, made, keeping, presented>>
bounds == <<connects, crashes>>
vars   == <<store, client, server, bounds, overlapped>>

Absent   == [is |-> "absent", entries |-> <<>>]
Torn     == [is |-> "torn", entries |-> <<>>]
Text(es) == [is |-> "text", entries |-> es]

\* cJSON_GetObjectItemCaseSensitive: the first member of that name.
Lookup(es, a) ==
  IF \E i \in DOMAIN es : es[i].ip = a
  THEN es[CHOOSE i \in DOMAIN es : es[i].ip = a /\ \A j \in 1..(i - 1) : es[j].ip # a].key
  ELSE None

Goto(c, label) == pc' = [pc EXCEPT ![c] = label]

Init ==
  /\ known = Absent /\ pinned = {}
  /\ pc = [c \in Client |-> "menu"]
  /\ ip = [c \in Client |-> Home]
  /\ server_pk \in [Client -> Junk]
  /\ json = [c \in Client |-> <<>>]
  /\ server_key = "absent" /\ made = 0 /\ keeping = FALSE
  /\ connects = 0 /\ crashes = 0
  /\ confirmed = {} /\ overlapped = FALSE /\ presented = {}

-----------------------------------------------------------------------------
(***************************************************************************)
(* The server: the start of handshake_server.                              *)
(***************************************************************************)
\* Mutant: server.key is made anew for every handshake.
NoKeyFileEver == TRUE
NoKeyFile == server_key = "absent"

MakeKey ==
  /\ ~keeping /\ NoKeyFile /\ made < MaxKeys
  /\ made' = made + 1
  /\ server_key' = "empty" /\ keeping' = TRUE
  /\ UNCHANGED <<store, client, presented, bounds, overlapped>>

KeepKey ==
  /\ keeping
  /\ server_key' = "whole" /\ keeping' = FALSE
  /\ UNCHANGED <<store, client, made, presented, bounds, overlapped>>

\* What fread has put into server_pk, as far as anybody has looked.
OwnKeys == IF server_key = "whole" THEN {made} ELSE Junk

ServerCrash ==
  /\ keeping /\ crashes < MaxCrashes
  /\ crashes' = crashes + 1
  /\ keeping' = FALSE
  /\ UNCHANGED <<store, client, server_key, made, presented, connects, overlapped>>

-----------------------------------------------------------------------------
(***************************************************************************)
(* handshake_client as far as the user's answer.  The result of recv_raw   *)
(* is not looked at: a connection that fails leaves an uninitialized key.  *)
(***************************************************************************)
Shown(c, k) ==
  /\ pc[c] = "menu" /\ connects < MaxConnects
  /\ connects' = connects + 1
  /\ server_pk' = [server_pk EXCEPT ![c] = k]
  /\ Goto(c, "check")
  /\ UNCHANGED <<store, json, confirmed, server_key, made, keeping, crashes, overlapped>>

ConnectHome(c) ==
  /\ ~keeping /\ server_key # "absent"
  /\ \E k \in OwnKeys : Shown(c, k) /\ presented' = presented \cup {k}
  /\ ip' = [ip EXCEPT ![c] = Home]

ConnectElsewhere(c, a) ==
  /\ \E k \in Junk \cup {Forged} : Shown(c, k)
  /\ ip' = [ip EXCEPT ![c] = a]
  /\ UNCHANGED presented

\* Mutant: an entry of any name will do.
VerdictAny(a, k) ==
  CASE known.is = "absent" -> 2
    [] known.is = "torn" -> 1
    [] known.is = "text" /\ known.entries = <<>> -> 2
    [] OTHER -> IF \E i \in DOMAIN known.entries : known.entries[i].key = k THEN 0 ELSE 1

\* is_server_impostor.
Verdict(a, k) ==
  CASE known.is = "absent" -> 2
    [] known.is = "torn" -> 1
    [] OTHER -> LET stored == Lookup(known.entries, a)
                IN IF stored = None THEN 2 ELSE IF stored = k THEN 0 ELSE 1

Check(c) ==
  /\ pc[c] = "check"
  /\ LET impostor == Verdict(ip[c], server_pk[c])
     IN Goto(c, IF impostor = 1 THEN "menu" ELSE IF impostor = 2 THEN "ask" ELSE "send")
  /\ overlapped' = (overlapped \/ \E d \in Client : pc[d] \notin {"menu", "check", "send", "in"})
  /\ UNCHANGED <<store, ip, server_pk, json, confirmed, server, bounds>>

\* ENTER; the end of the input counts as one.
Confirm(c) ==
  /\ pc[c] = "ask"
  /\ confirmed' = confirmed \cup {[ip |-> ip[c], key |-> server_pk[c]]}
  /\ Goto(c, "open")
  /\ UNCHANGED <<store, ip, server_pk, json, server, bounds, overlapped>>

Cancel(c) ==
  /\ pc[c] = "ask"
  /\ Goto(c, "menu")
  /\ UNCHANGED <<store, ip, server_pk, json, confirmed, server, bounds, overlapped>>

-----------------------------------------------------------------------------
(***************************************************************************)
(* mark_server_safe.                                                       *)
(***************************************************************************)
Open(c) ==
  /\ pc[c] = "open"
  /\ Goto(c, IF known.is = "absent" THEN "create" ELSE "read")
  /\ UNCHANGED <<store, ip, server_pk, json, confirmed, server, bounds, overlapped>>

Create(c) ==
  /\ pc[c] = "create"
  /\ known' = Torn
  /\ Goto(c, "braces")
  /\ UNCHANGED <<pinned, ip, server_pk, json, confirmed, server, bounds, overlapped>>

Braces(c) ==
  /\ pc[c] = "braces"
  /\ known' = Text(<<>>)
  /\ Goto(c, "read")
  /\ UNCHANGED <<pinned, ip, server_pk, json, confirmed, server, bounds, overlapped>>

\* Mutant: a file that does not parse is taken for an empty one.
ReadableAny == TRUE
Readable == known.is = "text"

\* Who cannot read the file says nothing and goes on with the connection.
Read(c) ==
  /\ pc[c] = "read"
  /\ \/ /\ Readable
        /\ json' = [json EXCEPT ![c] = known.entries]
        /\ Goto(c, "truncate")
     \/ /\ ~Readable
        /\ Goto(c, "send")
        /\ UNCHANGED json
  /\ UNCHANGED <<store, ip, server_pk, confirmed, server, bounds, overlapped>>

Truncate(c) ==
  /\ pc[c] = "truncate"
  /\ known' = Torn
  /\ Goto(c, "write")
  /\ UNCHANGED <<pinned, ip, server_pk, json, confirmed, server, bounds, overlapped>>

\* Mutant: only the new pair is written back.
AddedAlone(es, pair) == <<pair>>
Added(es, pair) == Append(es, pair)

Write(c) ==
  /\ pc[c] = "write"
  /\ LET pair == [ip |-> ip[c], key |-> server_pk[c]]
     IN known' = Text(Added(json[c], pair)) /\ pinned' = pinned \cup {pair}
  /\ json' = [json EXCEPT ![c] = <<>>]
  /\ Goto(c, "send")
  /\ UNCHANGED <<ip, server_pk, confirmed, server, bounds, overlapped>>

\* The rest of handshake_client: a key that is not one may be refused.
Keyed(c) ==
  /\ pc[c] = "send"
  /\ \/ Goto(c, "in")
     \/ server_pk[c] \in Junk /\ Goto(c, "menu")
  /\ UNCHANGED <<store, ip, server_pk, json, confirmed, server, bounds, overlapped>>

Leave(c) ==
  /\ pc[c] = "in"
  /\ Goto(c, "menu")
  /\ UNCHANGED <<store, ip, server_pk, json, confirmed, server, bounds, overlapped>>

Crash(c) ==
  /\ pc[c] \notin {"menu", "ask", "in"} /\ crashes < MaxCrashes
  /\ crashes' = crashes + 1
  /\ json' = [json EXCEPT ![c] = <<>>]
  /\ Goto(c, "menu")
  /\ UNCHANGED <<store, ip, server_pk, confirmed, server, connects, overlapped>>

-----------------------------------------------------------------------------
ServerStep == MakeKey \/ KeepKey \/ ServerCrash

ClientStep(c) ==
  \/ ConnectHome(c) \/ (\E a \in Ip : ConnectElsewhere(c, a))
  \/ Check(c) \/ Confirm(c) \/ Cancel(c)
  \/ Open(c) \/ Create(c) \/ Braces(c) \/ Read(c) \/ Truncate(c) \/ Write(c)
  \/ Keyed(c) \/ Leave(c) \/ Crash(c)

Next == ServerStep \/ \E c \in Client : ClientStep(c)

Spec == Init /\ [][Next]_vars
=============================================================================
