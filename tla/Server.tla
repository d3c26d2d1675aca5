------------------------------- MODULE Server -------------------------------
(***************************************************************************)
(* The polycomm server process: the accept loop of handle_server_choice    *)
(* (thread Main), the token refill thread (Refill) and one client_manage   *)
(* thread per served connection, sharing the array clients[] under         *)
(* clients_mutex and the fields of the Client structs with no lock at all. *)
(*                                                                         *)
(* A Client stands for one accepted connection: its Client struct, its     *)
(* socket, the peer behind it, and the client_manage thread that serves    *)
(* it.  One step is one access to state that another thread can see; a     *)
(* critical section whose shared state nobody touches outside the lock is  *)
(* one step taken while the mutex is free, and the two loops that can      *)
(* block or race inside the lock (broadcast_clients, refill_messages) hold *)
(* it over several steps.                                                  *)
(*                                                                         *)
(* Reading a pointer that malloc filled in or that was freed ends the      *)
(* process: the Makefile builds with -fsanitize=address.                   *)
(***************************************************************************)
EXTENDS Integers, FiniteSets, Sequences

CONSTANTS
  Client,      \* connections that may be made to the server
  Addr,        \* Addr[c]: the IP address connection c comes from
  MaxClients,  \* MAX_CLIENTS: length of clients[]
  MaxSame,     \* MAX_SAME_CLIENTS
  MaxTokens,   \* tokens a client starts with and is refilled up to (5)
  Fill,        \* the int that malloc leaves in a field nobody has set
  Target,      \* usernames that peers ask for
  AcceptErrors, \* whether accept() may fail
  SockCap,     \* bound: chunks a peer's socket buffers hold unread
  Main, Refill, \* the accept thread and the refill thread
  Null         \* the NULL pointer, and "no thread"

(***************************************************************************)
(* Usernames are numbers: k is the string "user_k" that init_client makes  *)
(* from username_id = k, and any other name is a number no counter reaches.*)
(***************************************************************************)
ASSUME ServerAssumption ==
  /\ IsFiniteSet(Client)
  /\ DOMAIN Addr = Client
  /\ MaxClients \in Nat \ {0}
  /\ MaxSame \in Nat \ {0}
  /\ MaxTokens \in Nat \ {0}
  /\ Fill \in Int
  /\ Target \subseteq Nat
  /\ AcceptErrors \in BOOLEAN
  /\ SockCap \in Nat \ {0}
  /\ Main \notin Client /\ Refill \notin Client /\ Null \notin Client
  /\ Main # Refill /\ Main # Null /\ Refill # Null

Caller == Client \cup {Main}   \* threads that broadcast and disconnect
Thread == Caller \cup {Refill}

VARIABLES
  clients, client_n, username_id,   \* the table of client.c
  mutex, cursor,                    \* clients_mutex and the loop index under it
  pc, cur, out, want, found, reg,   \* control and locals of the threads
  mem, name, username, messages_remaining,   \* fields of the Client structs
  backlog, peer, sock, stream,      \* sockets, peers and tx_state
  crashed

roster == <<clients, client_n, username_id>>
lock   == <<mutex, cursor>>
locals == <<cur, out, want, found, reg>>
heap   == <<mem, name, username, messages_remaining>>
net    == <<backlog, peer, sock, stream>>
vars   == <<roster, lock, pc, locals, heap, net, crashed>>

MainLabel   == {"accept", "register", "grant", "abusive", "sendpk", "recvpk",
                "push", "sendhdr", "recvhdr", "spawn"}
ClientLabel == {"idle", "recv", "unique", "compare", "load", "store", "free", "dup", "done"}
CallLabel   == {"bcast", "send", "remove", "close"}
RefillLabel == {"sleep", "scan", "incr", "add"}
Label       == MainLabel \cup ClientLabel \cup CallLabel \cup RefillLabel

\* What a thread is announcing, and which half of the frame comes next.
Notice == [kind : {"none", "join", "chat", "rename", "left"}, part : {"len", "body"}]

Silent == [kind |-> "none", part |-> "len"]

\* The client a thread works for: its own, or the one Main is accepting.
Subject(t) == IF t = Main THEN cur ELSE t

Listed == {clients[i] : i \in 1..client_n}

Goto(t, label) == pc' = [pc EXCEPT ![t] = label]

Announce(t, kind) ==
  /\ out' = [out EXCEPT ![t] = [kind |-> kind, part |-> "len"]]
  /\ Goto(t, "bcast")

Init ==
  /\ clients = [i \in 1..MaxClients |-> Null] /\ client_n = 0 /\ username_id = 0
  /\ mutex = Null /\ cursor = 0
  /\ pc = [t \in Thread |-> IF t = Main THEN "accept"
                            ELSE IF t = Refill THEN "sleep" ELSE "idle"]
  /\ cur = Null
  /\ out = [t \in Caller |-> Silent]
  /\ want = [c \in Client |-> 0]
  /\ found = [c \in Client |-> FALSE]
  /\ reg = [t \in Thread |-> 0]
  /\ mem = [c \in Client |-> "none"]
  /\ name = [c \in Client |-> "unset"]
  /\ username = [c \in Client |-> 0]
  /\ messages_remaining = [c \in Client |-> Fill]
  /\ backlog = <<>>
  /\ peer = [c \in Client |-> "away"]
  /\ sock = [c \in Client |-> 0]
  /\ stream = [c \in Client |-> "unset"]
  /\ crashed = FALSE

-----------------------------------------------------------------------------
(***************************************************************************)
(* The peers and the sockets, as the server can see them.  Each of them    *)
(* connects at most once, reads when it likes and may go away at any time; *)
(* SIGPIPE is ignored, so a write to a peer that is gone fails and the     *)
(* failure is dropped.  What a peer sends is chosen by the step of the     *)
(* server that receives it; a closed peer may have sent it before it left. *)
(***************************************************************************)
PeerConnect(c) ==
  /\ peer[c] = "away"
  /\ peer' = [peer EXCEPT ![c] = "open"]
  /\ backlog' = Append(backlog, c)
  /\ UNCHANGED <<roster, lock, pc, locals, heap, sock, stream, crashed>>

PeerRead(c) ==
  /\ peer[c] = "open" /\ sock[c] > 0
  /\ sock' = [sock EXCEPT ![c] = @ - 1]
  /\ UNCHANGED <<roster, lock, pc, locals, heap, backlog, peer, stream, crashed>>

PeerClose(c) ==
  /\ peer[c] = "open"
  /\ peer' = [peer EXCEPT ![c] = "closed"]
  /\ sock' = [sock EXCEPT ![c] = 0]
  /\ UNCHANGED <<roster, lock, pc, locals, heap, backlog, stream, crashed>>

\* Mutant: a write that does not fit is dropped.
DeliverOrDrop(c) ==
  sock' = [sock EXCEPT ![c] = IF peer[c] = "open" /\ @ < SockCap THEN @ + 1 ELSE @]

\* send_raw blocks until the whole chunk fits, or fails on a closed connection.
Deliver(c) ==
  \/ /\ peer[c] = "closed"
     /\ UNCHANGED sock
  \/ /\ peer[c] = "open" /\ sock[c] < SockCap
     /\ sock' = [sock EXCEPT ![c] = @ + 1]

-----------------------------------------------------------------------------
(***************************************************************************)
(* broadcast_clients, called twice per announcement: once for the length,  *)
(* once for the body.                                                      *)
(***************************************************************************)
BeginBroadcast(t) ==
  /\ pc[t] = "bcast" /\ mutex = Null
  /\ mutex' = t /\ cursor' = 1
  /\ Goto(t, "send")
  /\ UNCHANGED <<roster, locals, heap, net, crashed>>

SendNext(t) ==
  /\ pc[t] = "send" /\ cursor <= client_n
  /\ Deliver(clients[cursor])
  /\ cursor' = cursor + 1
  /\ UNCHANGED <<roster, mutex, pc, locals, heap, backlog, peer, stream, crashed>>

\* Mutant: who has left is never closed.
AfterNoticeLeak(kind) ==
  CASE kind = "join" -> "spawn"
    [] kind = "left" -> "done"
    [] OTHER         -> "load"

\* Where a thread goes on once both halves of its announcement are out.
AfterNotice(kind) ==
  CASE kind = "join" -> "spawn"
    [] kind = "left" -> "close"
    [] OTHER         -> "load"

EndBroadcast(t) ==
  /\ pc[t] = "send" /\ cursor > client_n
  /\ mutex' = Null /\ cursor' = 0
  /\ \/ /\ out[t].part = "len"
        /\ out' = [out EXCEPT ![t] = [kind |-> @.kind, part |-> "body"]]
        /\ Goto(t, "bcast")
     \/ /\ out[t].part = "body"
        /\ Goto(t, AfterNotice(out[t].kind))
        /\ UNCHANGED out
  /\ UNCHANGED <<roster, cur, want, found, reg, heap, net, crashed>>

(***************************************************************************)
(* disconnect_client: the last entry takes the place of the one that       *)
(* leaves; then the leaver is announced, closed and freed.                 *)
(***************************************************************************)
\* Mutants: the entry is cleared without closing the gap; the last entry goes
\* instead of the one that leaves.
UnlistGap(c) ==
  \E i \in 1..client_n :
    /\ clients[i] = c
    /\ clients' = [clients EXCEPT ![i] = Null]
    /\ client_n' = client_n - 1
UnlistLast(c) ==
  /\ c \in Listed
  /\ clients' = [clients EXCEPT ![client_n] = Null]
  /\ client_n' = client_n - 1

Unlist(c) ==
  \E i \in 1..client_n :
    /\ clients[i] = c
    /\ clients' = [clients EXCEPT ![i] = clients[client_n], ![client_n] = Null]
    /\ client_n' = client_n - 1

Remove(t) ==
  /\ pc[t] = "remove" /\ mutex = Null
  /\ \/ Unlist(Subject(t))
     \/ Subject(t) \notin Listed /\ UNCHANGED <<clients, client_n>>
  /\ crashed' = (name[Subject(t)] = "unset")      \* printf of the username
  /\ Announce(t, "left")
  /\ UNCHANGED <<username_id, lock, cur, want, found, reg, heap, net>>

\* Mutants: client_manage goes on after disconnect_client; the accept loop ends.
AfterCloseOn(t)  == IF t = Main THEN "accept" ELSE "recv"
AfterCloseEnd(t) == "done"
AfterClose(t)    == IF t = Main THEN "accept" ELSE "done"

\* close() and both frees.  What the peer has not read by then is dropped.
Close(t) ==
  LET c == Subject(t) IN
  /\ pc[t] = "close"
  /\ mem' = [mem EXCEPT ![c] = "freed"]
  /\ name' = [name EXCEPT ![c] = "freed"]
  /\ peer' = [peer EXCEPT ![c] = "closed"]
  /\ sock' = [sock EXCEPT ![c] = 0]
  /\ Goto(t, AfterClose(t))
  /\ out' = [out EXCEPT ![t] = Silent]
  /\ UNCHANGED <<roster, lock, cur, want, found, reg, username, messages_remaining, backlog, stream, crashed>>

-----------------------------------------------------------------------------
(***************************************************************************)
(* The accept loop of handle_server_choice.                                *)
(***************************************************************************)
Accept ==
  /\ pc[Main] = "accept" /\ backlog # <<>>
  /\ cur' = Head(backlog) /\ backlog' = Tail(backlog)
  /\ mem' = [mem EXCEPT ![Head(backlog)] = "live"]
  /\ Goto(Main, "register")
  /\ UNCHANGED <<roster, lock, out, want, found, reg, name, username, messages_remaining,
                 peer, sock, stream, crashed>>

\* accept() < 0: the process exits, whoever is being served.
AcceptFails ==
  /\ AcceptErrors /\ pc[Main] = "accept"
  /\ crashed' = TRUE
  /\ UNCHANGED <<roster, lock, pc, locals, heap, net>>

\* Mutant: the bound is checked one entry too late.
FullLate == client_n > MaxClients
Full == client_n >= MaxClients

\* init_client: a full table is left as it is, and so is the struct.
Register ==
  /\ pc[Main] = "register" /\ mutex = Null
  /\ \/ /\ Full
        /\ UNCHANGED <<roster, name, username>>
     \/ /\ ~Full
        /\ name' = [name EXCEPT ![cur] = "set"]
        /\ username' = [username EXCEPT ![cur] = username_id]
        /\ clients' = [clients EXCEPT ![client_n + 1] = cur]
        /\ client_n' = client_n + 1
        /\ username_id' = username_id + 1
  /\ Goto(Main, "grant")
  /\ UNCHANGED <<lock, locals, mem, messages_remaining, net, crashed>>

Grant ==
  /\ pc[Main] = "grant"
  /\ messages_remaining' = [messages_remaining EXCEPT ![cur] = MaxTokens]
  /\ Goto(Main, "abusive")
  /\ UNCHANGED <<roster, lock, locals, mem, name, username, net, crashed>>

\* is_client_abusive counts the entry that Register has just added, too.
SameAddr(c) == {i \in 1..client_n : Addr[clients[i]] = Addr[c]}

\* Mutant: the counter starts anew at every entry.
AbusiveReset(c) == SameAddr(c) # {} /\ 1 >= MaxSame
Abusive(c) == Cardinality(SameAddr(c)) >= MaxSame

CheckAbusive ==
  /\ pc[Main] = "abusive" /\ mutex = Null
  /\ Goto(Main, IF Abusive(cur) THEN "remove" ELSE "sendpk")
  /\ UNCHANGED <<roster, lock, locals, heap, net, crashed>>

(***************************************************************************)
(* handshake_server, run by Main while the client is already listed.  The  *)
(* results of send_raw and recv_raw are not looked at, so a peer that is   *)
(* gone leaves an uninitialized public key, which the key exchange may or  *)
(* may not refuse.                                                         *)
(***************************************************************************)
SendPk ==
  /\ pc[Main] = "sendpk"
  /\ Deliver(cur)
  /\ Goto(Main, "recvpk")
  /\ UNCHANGED <<roster, lock, locals, heap, backlog, peer, stream, crashed>>

RecvPk ==
  /\ pc[Main] = "recvpk"
  /\ \/ Goto(Main, "push")
     \/ peer[cur] = "closed" /\ Goto(Main, "remove")
  /\ UNCHANGED <<roster, lock, locals, heap, net, crashed>>

Push ==
  /\ pc[Main] = "push"
  /\ stream' = [stream EXCEPT ![cur] = "keyed"]
  /\ Goto(Main, "sendhdr")
  /\ UNCHANGED <<roster, lock, locals, heap, backlog, peer, sock, crashed>>

SendHdr ==
  /\ pc[Main] = "sendhdr"
  /\ Deliver(cur)
  /\ stream' = [stream EXCEPT ![cur] = "open"]
  /\ Goto(Main, "recvhdr")
  /\ UNCHANGED <<roster, lock, locals, heap, backlog, peer, crashed>>

\* init_pull accepts any header; then the username is printed and announced.
RecvHdr ==
  /\ pc[Main] = "recvhdr"
  /\ crashed' = (name[cur] = "unset")
  /\ Announce(Main, "join")
  /\ UNCHANGED <<roster, lock, cur, want, found, reg, heap, net>>

Spawn ==
  /\ pc[Main] = "spawn"
  /\ pc' = [pc EXCEPT ![cur] = "recv", ![Main] = "accept"]
  /\ out' = [out EXCEPT ![Main] = Silent]
  /\ UNCHANGED <<roster, lock, cur, want, found, reg, heap, net, crashed>>

-----------------------------------------------------------------------------
(***************************************************************************)
(* client_manage.  RecvFailed: the length cannot be received or decrypted, *)
(* exceeds 1 MB, or the body is empty.  RecvIgnored: the body does not     *)
(* arrive, decrypt or parse, has nothing to act on, or the client has no   *)
(* token left (a chat message without one falls through to the request     *)
(* branch, which needs one too).                                           *)
(***************************************************************************)
\* Mutant: the last token can be spent twice.
HasTokenLate(c) == messages_remaining[c] >= 0
HasToken(c) == messages_remaining[c] > 0

RecvFailed(c) ==
  /\ pc[c] = "recv"
  /\ Goto(c, "remove")
  /\ UNCHANGED <<roster, lock, locals, heap, net, crashed>>

RecvIgnored(c) ==
  /\ pc[c] = "recv"
  /\ UNCHANGED <<roster, lock, pc, locals, heap, net, crashed>>

RecvChat(c) ==
  /\ pc[c] = "recv"
  /\ HasToken(c)
  /\ Announce(c, "chat")
  /\ UNCHANGED <<roster, lock, cur, want, found, reg, heap, net, crashed>>

RecvRename(c) ==
  /\ pc[c] = "recv"
  /\ HasToken(c)
  /\ \E n \in Target : want' = [want EXCEPT ![c] = n]
  /\ Goto(c, "unique")
  /\ UNCHANGED <<roster, lock, cur, out, found, reg, heap, net, crashed>>

\* The loop that compares the wanted name with every listed one.  It holds the
\* mutex, but the owner of a name that is being replaced does not: it may have
\* freed the name (FreeName) and not yet set the new one (DupName).
UniqueLock(c) ==
  /\ pc[c] = "unique" /\ mutex = Null
  /\ mutex' = c /\ cursor' = 1
  /\ Goto(c, "compare")
  /\ UNCHANGED <<roster, locals, heap, net, crashed>>

Compare(c) ==
  /\ pc[c] = "compare" /\ cursor <= client_n
  /\ LET d == clients[cursor] IN
     /\ crashed' = (name[d] = "freed")
     /\ found' = [found EXCEPT ![c] = @ \/ username[d] = want[c]]
  /\ cursor' = cursor + 1
  /\ UNCHANGED <<roster, mutex, pc, cur, out, want, reg, heap, net>>

UniqueUnlock(c) ==
  /\ pc[c] = "compare" /\ cursor > client_n
  /\ mutex' = Null /\ cursor' = 0
  /\ found' = [found EXCEPT ![c] = FALSE]
  /\ \/ found[c] /\ Goto(c, "recv") /\ UNCHANGED out
     \/ ~found[c] /\ Announce(c, "rename")
  /\ UNCHANGED <<roster, cur, want, reg, heap, net, crashed>>

\* messages_remaining--, which is a load and a store.
Load(c) ==
  /\ pc[c] = "load"
  /\ reg' = [reg EXCEPT ![c] = messages_remaining[c]]
  /\ Goto(c, "store")
  /\ UNCHANGED <<roster, lock, cur, out, want, found, heap, net, crashed>>

Store(c) ==
  /\ pc[c] = "store"
  /\ messages_remaining' = [messages_remaining EXCEPT ![c] = reg[c] - 1]
  /\ Goto(c, IF out[c].kind = "rename" THEN "free" ELSE "recv")
  /\ reg' = [reg EXCEPT ![c] = 0]
  /\ out' = [out EXCEPT ![c] = Silent]
  /\ UNCHANGED <<roster, lock, cur, want, found, mem, name, username, net, crashed>>

FreeName(c) ==
  /\ pc[c] = "free"
  /\ name' = [name EXCEPT ![c] = "freed"]
  /\ Goto(c, "dup")
  /\ UNCHANGED <<roster, lock, locals, mem, username, messages_remaining, net, crashed>>

DupName(c) ==
  /\ pc[c] = "dup"
  /\ name' = [name EXCEPT ![c] = "set"]
  /\ username' = [username EXCEPT ![c] = want[c]]
  /\ Goto(c, "recv")
  /\ UNCHANGED <<roster, lock, locals, mem, messages_remaining, net, crashed>>

-----------------------------------------------------------------------------
(***************************************************************************)
(* refill_messages: under the lock, but its three accesses to a client's   *)
(* messages_remaining (the check, and the load and store of ++) race with  *)
(* the unlocked decrement of client_manage and the store of Grant.         *)
(***************************************************************************)
\* Mutant: the bucket overflows by one.
RefillableOver(have) == have < MaxTokens + 1
Refillable(have) == have < MaxTokens

RefillLock ==
  /\ pc[Refill] = "sleep" /\ mutex = Null
  /\ mutex' = Refill /\ cursor' = 1
  /\ Goto(Refill, "scan")
  /\ UNCHANGED <<roster, locals, heap, net, crashed>>

RefillScan ==
  /\ pc[Refill] = "scan" /\ cursor <= client_n
  /\ \/ /\ Refillable(messages_remaining[clients[cursor]])
        /\ Goto(Refill, "incr")
        /\ UNCHANGED cursor
     \/ /\ ~Refillable(messages_remaining[clients[cursor]])
        /\ cursor' = cursor + 1
        /\ UNCHANGED pc
  /\ UNCHANGED <<roster, mutex, locals, heap, net, crashed>>

RefillLoad ==
  /\ pc[Refill] = "incr"
  /\ reg' = [reg EXCEPT ![Refill] = messages_remaining[clients[cursor]]]
  /\ Goto(Refill, "add")
  /\ UNCHANGED <<roster, lock, cur, out, want, found, heap, net, crashed>>

RefillAdd ==
  /\ pc[Refill] = "add"
  /\ messages_remaining' =
       [messages_remaining EXCEPT ![clients[cursor]] = reg[Refill] + 1]
  /\ reg' = [reg EXCEPT ![Refill] = 0]
  /\ cursor' = cursor + 1
  /\ Goto(Refill, "scan")
  /\ UNCHANGED <<roster, mutex, cur, out, want, found, mem, name, username, net, crashed>>

RefillUnlock ==
  /\ pc[Refill] = "scan" /\ cursor > client_n
  /\ mutex' = Null /\ cursor' = 0
  /\ Goto(Refill, "sleep")
  /\ UNCHANGED <<roster, locals, heap, net, crashed>>

-----------------------------------------------------------------------------
Call(t) == BeginBroadcast(t) \/ SendNext(t) \/ EndBroadcast(t) \/ Remove(t) \/ Close(t)

Handshake == SendPk \/ RecvPk \/ Push \/ SendHdr \/ RecvHdr

MainStep == Accept \/ AcceptFails \/ Register \/ Grant \/ CheckAbusive \/ Handshake \/ Spawn \/ Call(Main)

ManageStep(c) ==
  \/ RecvFailed(c) \/ RecvIgnored(c) \/ RecvChat(c) \/ RecvRename(c)
  \/ UniqueLock(c) \/ Compare(c) \/ UniqueUnlock(c) \/ Load(c) \/ Store(c) \/ FreeName(c) \/ DupName(c)
  \/ Call(c)

RefillStep == RefillLock \/ RefillScan \/ RefillLoad \/ RefillAdd \/ RefillUnlock

PeerStep(c) == PeerConnect(c) \/ PeerRead(c) \/ PeerClose(c)

Next ==
  /\ ~crashed
  /\ \/ MainStep
     \/ RefillStep
     \/ \E c \in Client : ManageStep(c) \/ PeerStep(c)

Spec == Init /\ [][Next]_vars

(***************************************************************************)
(* Fairness.  The scheduler runs every thread that can run, and a thread   *)
(* that waits for the mutex is not passed over forever (strong fairness:   *)
(* the mutex is free again and again, not continuously).  A step that      *)
(* waits for an open peer to send is the peer's to make, so it is in none  *)
(* of the server's conditions; what a closed peer had sent is finite, so   *)
(* its thread ends up at the end of the stream.                            *)
(***************************************************************************)
Awaits(t) == pc[t] \in {"recvpk", "recvhdr", "recv"} /\ peer[Subject(t)] = "open"

ServerFairness ==
  /\ SF_vars(~Awaits(Main) /\ MainStep)
  /\ SF_vars(RefillStep)
  /\ \A c \in Client : /\ SF_vars(~Awaits(c) /\ ManageStep(c))
                        /\ SF_vars(peer[c] = "closed" /\ RecvFailed(c))

\* What well-behaved peers add: they read, and they finish their handshake.
PeersRead   == \A c \in Client : WF_vars(PeerRead(c))
PeersAnswer == WF_vars(Awaits(Main) /\ Handshake)

FairSpec == Spec /\ ServerFairness /\ PeersRead /\ PeersAnswer
=============================================================================
