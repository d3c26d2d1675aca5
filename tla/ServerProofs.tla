---------------------------- MODULE ServerProofs ----------------------------
(***************************************************************************)
(* Proofs about the server for any number of connections, any table size,  *)
(* any limits and any length of its life: types, the table clients[], the  *)
(* ownership of the Client structs, and the connections of one address.    *)
(***************************************************************************)
EXTENDS ServerProps, TLAPS, FiniteSetTheorems

-----------------------------------------------------------------------------
(* The inductive invariant, part by part.                                  *)

\* Who is inside a loop under clients_mutex holds it, and the loop has begun.
Holds(t) == pc[t] \in {"send", "compare", "scan", "incr", "add"}

LockInv ==
  /\ \A t \in Thread : Holds(t) => mutex = t
  /\ mutex # Null => cursor >= 1

\* The refill is at an entry of the table between its check and its store.
AtEntry == pc[Refill] \in {"incr", "add"} => cursor <= client_n

\* clients[] is an injective list of connections and Null behind it.
Shape ==
  /\ \A i \in 1..client_n : clients[i] \in Client
  /\ \A i, j \in 1..client_n : clients[i] = clients[j] => i = j
  /\ \A i \in 1..MaxClients : i > client_n => clients[i] = Null

\* Connections wait once, untouched, and connect once.
Waiting ==
  /\ \A i \in 1..Len(backlog) : mem[backlog[i]] = "none" /\ peer[backlog[i]] # "away"
  /\ \A i, j \in 1..Len(backlog) : backlog[i] = backlog[j] => i = j
  /\ \A c \in Client : peer[c] = "away" => mem[c] = "none"

\* A client_manage thread works on memory that is its own, from Spawn on.
Life ==
  \A c \in Client :
    /\ pc[c] \in ClientLabel \cup CallLabel
    /\ mem[c] = "none" => pc[c] = "idle" /\ name[c] = "unset"
    /\ pc[c] \notin {"idle", "done"} => mem[c] = "live"
    /\ pc[c] \in {"bcast", "send"} => out[c].kind \in {"chat", "rename", "left"}

\* The accept thread works on one connection that has no thread yet.
Joining == pc[Main] = "spawn" \/ (pc[Main] \in {"bcast", "send"} /\ out[Main].kind = "join")

Accepting ==
  /\ pc[Main] \in MainLabel \cup CallLabel
  /\ pc[Main] \in {"bcast", "send"} => out[Main].kind \in {"join", "left"}
  /\ pc[Main] # "accept" => cur \in Client /\ mem[cur] = "live" /\ pc[cur] = "idle"
  /\ pc[Main] = "register" => name[cur] = "unset" /\ cur \notin Listed

\* A Client whose username was set while Main accepts it was listed, and Main
\* does not get beyond the username of one that was not.
Enrolled ==
  /\ pc[Main] \notin {"accept", "register"} /\ ~Leaving(Main) =>
       cur \in Listed \/ name[cur] = "unset"
  /\ Joining /\ ~crashed => cur \in Listed

\* Who is listed is alive, and not being closed.
Alive ==
  /\ \A c \in Listed : mem[c] = "live"
  /\ \A t \in Caller : Leaving(t) => Subject(t) \notin Listed

Control == Waiting /\ Life /\ Accepting /\ Enrolled /\ Alive /\ RosterComplete

Inv == TypeOK /\ LockInv /\ AtEntry /\ Shape /\ Control
-----------------------------------------------------------------------------
(***************************************************************************)
(* Types.  The assumptions are cited in the small portions that the        *)
(* provers take well.                                                      *)
(***************************************************************************)
LEMMA Numbers == MaxClients \in Nat /\ MaxTokens \in Int /\ Fill \in Int
  BY ServerAssumption

LEMMA Targets == Target \subseteq Nat
  BY ServerAssumption

LEMMA Threads ==
  /\ Main \notin Client /\ Refill \notin Client /\ Null \notin Client
  /\ Main # Refill /\ Main # Null /\ Refill # Null
  BY ServerAssumption

\* A function stays in its type when a value of the type is stored in it.
LEMMA Update ==
  ASSUME NEW S, NEW T, NEW f \in [S -> T], NEW x, NEW v \in T
  PROVE  [f EXCEPT ![x] = v] \in [S -> T]
  OBVIOUS

LEMMA InitType == Init => TypeOK
  <1> SUFFICES ASSUME Init PROVE TypeOK
    OBVIOUS
  <1>1. pc \in [Thread -> Label]
    BY DEF Init, Label, MainLabel, ClientLabel, RefillLabel
  <1>2. out \in [Caller -> Notice]
    BY DEF Init, Notice, Silent
  <1>3. clients \in [1..MaxClients -> Client \cup {Null}] /\ client_n \in 0..MaxClients
    BY Numbers DEF Init
  <1>4. reg \in [Thread -> Int] /\ messages_remaining \in [Client -> Int]
    BY Numbers DEF Init
  <1>5. want \in [Client -> Nat] /\ username \in [Client -> Nat] /\ sock \in [Client -> Nat]
    BY DEF Init
  <1>6. backlog \in Seq(Client)
    BY DEF Init
  <1> QED
    BY <1>1, <1>2, <1>3, <1>4, <1>5, <1>6 DEF Init, TypeOK

LEMMA DeliverType ==
  ASSUME TypeOK, NEW c, Deliver(c)
  PROVE  sock' \in [Client -> Nat]
  <1>1. CASE sock' = sock
    BY <1>1 DEF TypeOK
  <1>2. CASE c \notin Client /\ sock' = [sock EXCEPT ![c] = sock[c] + 1]
    BY <1>2 DEF TypeOK
  <1>3. CASE c \in Client /\ sock' = [sock EXCEPT ![c] = sock[c] + 1]
    BY <1>3 DEF TypeOK
  <1> QED
    BY <1>1, <1>2, <1>3 DEF Deliver

LEMMA AnnounceType ==
  ASSUME TypeOK, NEW t, NEW kind \in {"join", "chat", "rename", "left"}, Announce(t, kind)
  PROVE  out' \in [Caller -> Notice] /\ pc' \in [Thread -> Label]
  <1>1. [kind |-> kind, part |-> "len"] \in Notice
    BY DEF Notice
  <1>2. "bcast" \in Label
    BY DEF Label, CallLabel
  <1> QED
    BY <1>1, <1>2, Update DEF Announce, Goto, TypeOK

LEMMA UnlistType ==
  ASSUME TypeOK, NEW c, Unlist(c)
  PROVE  clients' \in [1..MaxClients -> Client \cup {Null}] /\ client_n' \in 0..MaxClients
  <1>1. PICK i \in 1..client_n :
          /\ clients' = [clients EXCEPT ![i] = clients[client_n], ![client_n] = Null]
          /\ client_n' = client_n - 1
    BY DEF Unlist
  <1>2. client_n \in 1..MaxClients /\ i \in 1..MaxClients
    BY <1>1, Numbers DEF TypeOK
  <1>3. clients[client_n] \in Client \cup {Null}
    BY <1>2 DEF TypeOK
  <1>4. clients' \in [1..MaxClients -> Client \cup {Null}]
    BY <1>1, <1>2, <1>3 DEF TypeOK
  <1>5. client_n' \in 0..MaxClients
    BY <1>1, <1>2, Numbers DEF TypeOK
  <1> QED
    BY <1>4, <1>5

\* What the ++ of a refill loads.
LEMMA LoadType ==
  ASSUME TypeOK, LockInv, AtEntry, Shape, RefillLoad
  PROVE  /\ cursor \in 1..client_n /\ clients[cursor] \in Client
         /\ reg' \in [Thread -> Int]
  <1>1. Refill \in Thread
    BY DEF Thread
  <1>2. cursor >= 1 /\ cursor <= client_n
    BY <1>1, Threads DEF RefillLoad, LockInv, AtEntry, Holds
  <1>3. cursor \in 1..client_n
    BY <1>2 DEF TypeOK
  <1>4. clients[cursor] \in Client
    BY <1>3 DEF Shape
  <1>5. messages_remaining[clients[cursor]] \in Int
    BY <1>4 DEF TypeOK
  <1> QED
    BY <1>3, <1>4, <1>5, Update DEF RefillLoad, TypeOK

LEMMA StepType ==
  ASSUME TypeOK, LockInv, AtEntry, Shape, [Next]_vars
  PROVE  TypeOK'
  <1>1. CASE Accept
    <2>1. Head(backlog) \in Client /\ backlog' \in Seq(Client)
      BY <1>1 DEF Accept, TypeOK
    <2>2. pc' \in [Thread -> Label]
      BY <1>1 DEF Accept, TypeOK, Goto, Label, MainLabel
    <2> QED
      BY <1>1, <2>1, <2>2 DEF Accept, TypeOK, roster, lock, locals, heap, net
  <1>2. CASE Register
    <2>1. CASE Full
      BY <1>2, <2>1 DEF Register, Goto, Label, MainLabel, TypeOK, roster, lock, locals, heap, net
    <2>2. CASE ~Full
      <3>1. client_n + 1 \in 1..MaxClients
        BY <2>2, Numbers DEF Full, TypeOK
      <3>2. cur \in Client \cup {Null}
        BY DEF TypeOK
      <3>3. clients' \in [1..MaxClients -> Client \cup {Null}]
        BY <1>2, <2>2, <3>1, <3>2, Update DEF Register, TypeOK
      <3>4. client_n' \in 0..MaxClients
        BY <1>2, <2>2, <3>1, Numbers DEF Register, TypeOK
      <3>5. username_id' \in Nat
        BY <1>2, <2>2 DEF Register, TypeOK
      <3>6. username' \in [Client -> Nat]
        <4>1. username \in [Client -> Nat] /\ username_id \in Nat
          BY DEF TypeOK
        <4>2. username' = [username EXCEPT ![cur] = username_id]
          BY <1>2, <2>2 DEF Register
        <4> QED
          BY <4>1, <4>2, Update
      <3>7. name' \in [Client -> {"unset", "set", "freed"}]
        BY <1>2, <2>2, Update DEF Register, TypeOK
      <3> QED
        BY <1>2, <3>3, <3>4, <3>5, <3>6, <3>7
        DEF Register, Goto, Label, MainLabel, TypeOK, lock, locals, heap, net
    <2> QED
      BY <2>1, <2>2
  <1>3. CASE Grant
    BY <1>3, Numbers
    DEF Grant, Goto, Label, MainLabel, TypeOK, roster, lock, locals, heap, net
  <1>4. CASE CheckAbusive
    BY <1>4
    DEF CheckAbusive, Goto, Label, MainLabel, CallLabel, TypeOK, roster, lock, locals, heap, net
  <1>5. CASE SendPk
    <2>1. sock' \in [Client -> Nat]
      BY <1>5, DeliverType DEF SendPk
    <2> QED
      BY <1>5, <2>1 DEF SendPk, Goto, Label, MainLabel, TypeOK, roster, lock, locals, heap, net
  <1>6. CASE RecvPk
    BY <1>6
    DEF RecvPk, Goto, Label, MainLabel, CallLabel, TypeOK, roster, lock, locals, heap, net
  <1>7. CASE Push
    BY <1>7
    DEF Push, Goto, Label, MainLabel, TypeOK, roster, lock, locals, heap, net
  <1>8. CASE SendHdr
    <2>1. sock' \in [Client -> Nat]
      BY <1>8, DeliverType DEF SendHdr
    <2> QED
      BY <1>8, <2>1 DEF SendHdr, Goto, Label, MainLabel, TypeOK, roster, lock, locals, heap, net
  <1>9. CASE RecvHdr
    <2>1. out' \in [Caller -> Notice] /\ pc' \in [Thread -> Label]
      BY <1>9, AnnounceType DEF RecvHdr
    <2> QED
      BY <1>9, <2>1 DEF RecvHdr, TypeOK, roster, lock, locals, heap, net
  <1>10. CASE Spawn
    BY <1>10
    DEF Spawn, Silent, Notice, Label, MainLabel, ClientLabel, TypeOK, roster, lock, locals, heap, net
  <1>11. ASSUME NEW t \in Caller, BeginBroadcast(t) PROVE TypeOK'
    BY <1>11
    DEF BeginBroadcast, Goto, Label, CallLabel, Thread, TypeOK, roster, lock, locals, heap, net
  <1>12. ASSUME NEW t \in Caller, SendNext(t) PROVE TypeOK'
    <2>1. sock' \in [Client -> Nat]
      BY <1>12, DeliverType DEF SendNext
    <2>2. cursor' \in Nat
      BY <1>12 DEF SendNext, TypeOK
    <2> QED
      BY <1>12, <2>1, <2>2 DEF SendNext, TypeOK, roster, lock, locals, heap, net
  <1>13. ASSUME NEW t \in Caller, EndBroadcast(t) PROVE TypeOK'
    <2>1. out' \in [Caller -> Notice]
      <3>1. CASE out' = out
        BY <3>1 DEF TypeOK
      <3>2. CASE out' = [out EXCEPT ![t] = [kind |-> out[t].kind, part |-> "body"]]
        <4>1. [kind |-> out[t].kind, part |-> "body"] \in Notice
          BY DEF Notice, TypeOK
        <4> QED
          BY <3>2, <4>1 DEF TypeOK
      <3> QED
        BY <1>13, <3>1, <3>2 DEF EndBroadcast
    <2>2. pc' \in [Thread -> Label]
      <3>1. AfterNotice(out[t].kind) \in Label /\ "bcast" \in Label
        BY DEF AfterNotice, Label, MainLabel, ClientLabel, CallLabel
      <3> QED
        BY <1>13, <3>1 DEF EndBroadcast, TypeOK, Goto
    <2> QED
      BY <1>13, <2>1, <2>2 DEF EndBroadcast, TypeOK, roster, lock, locals, heap, net
  <1>14. ASSUME NEW t \in Caller, Remove(t) PROVE TypeOK'
    <2>1. clients' \in [1..MaxClients -> Client \cup {Null}] /\ client_n' \in 0..MaxClients
      <3>1. CASE UNCHANGED <<clients, client_n>>
        BY <3>1 DEF TypeOK
      <3>2. CASE Unlist(Subject(t))
        BY <3>2, UnlistType
      <3> QED
        BY <1>14, <3>1, <3>2 DEF Remove
    <2>2. out' \in [Caller -> Notice] /\ pc' \in [Thread -> Label]
      BY <1>14, AnnounceType DEF Remove
    <2> QED
      BY <1>14, <2>1, <2>2 DEF Remove, TypeOK, roster, lock, locals, heap, net
  <1>15. ASSUME NEW t \in Caller, Close(t) PROVE TypeOK'
    BY <1>15
    DEF Close, AfterClose, Silent, Notice, Goto, Label, MainLabel, ClientLabel, TypeOK, roster, lock, locals, heap, net
  <1>16. ASSUME NEW c \in Client, RecvFailed(c) PROVE TypeOK'
    BY <1>16
    DEF RecvFailed, Goto, Label, CallLabel, TypeOK, roster, lock, locals, heap, net
  <1>17. ASSUME NEW c \in Client, RecvIgnored(c) PROVE TypeOK'
    BY <1>17
    DEF RecvIgnored, TypeOK, roster, lock, locals, heap, net
  <1>18. ASSUME NEW c \in Client, RecvChat(c) PROVE TypeOK'
    <2>1. out' \in [Caller -> Notice] /\ pc' \in [Thread -> Label]
      BY <1>18, AnnounceType DEF RecvChat
    <2> QED
      BY <1>18, <2>1 DEF RecvChat, TypeOK, roster, lock, locals, heap, net
  <1>19. ASSUME NEW c \in Client, RecvRename(c) PROVE TypeOK'
    BY <1>19, Targets
    DEF RecvRename, Goto, Label, ClientLabel, TypeOK, roster, lock, locals, heap, net
  <1>20. ASSUME NEW c \in Client, UniqueLock(c) PROVE TypeOK'
    BY <1>20
    DEF UniqueLock, Goto, Label, ClientLabel, Thread, Caller, TypeOK, roster, lock, locals, heap, net
  <1>21. ASSUME NEW c \in Client, Compare(c) PROVE TypeOK'
    <2>1. found' \in [Client -> BOOLEAN]
      BY <1>21 DEF Compare, TypeOK
    <2>2. crashed' \in BOOLEAN
      BY <1>21 DEF Compare
    <2>3. cursor' \in Nat
      BY <1>21 DEF Compare, TypeOK
    <2> QED
      BY <1>21, <2>1, <2>2, <2>3 DEF Compare, TypeOK, roster, lock, locals, heap, net
  <1>22. ASSUME NEW c \in Client, UniqueUnlock(c) PROVE TypeOK'
    <2>1. found' \in [Client -> BOOLEAN]
      BY <1>22 DEF UniqueUnlock, TypeOK
    <2>2. out' \in [Caller -> Notice] /\ pc' \in [Thread -> Label]
      <3>1. CASE Announce(c, "rename")
        BY <3>1, AnnounceType
      <3>2. CASE Goto(c, "recv") /\ UNCHANGED out
        BY <3>2 DEF Goto, Label, ClientLabel, TypeOK
      <3> QED
        BY <1>22, <3>1, <3>2 DEF UniqueUnlock
    <2> QED
      BY <1>22, <2>1, <2>2 DEF UniqueUnlock, TypeOK, roster, lock, locals, heap, net
  <1>23. ASSUME NEW c \in Client, Load(c) PROVE TypeOK'
    BY <1>23
    DEF Load, Goto, Label, ClientLabel, TypeOK, roster, lock, locals, heap, net
  <1>24. ASSUME NEW c \in Client, Store(c) PROVE TypeOK'
    <2>1. reg[c] - 1 \in Int
      BY DEF TypeOK, Thread, Caller
    <2>2. messages_remaining' \in [Client -> Int]
      BY <1>24, <2>1, Update DEF Store, TypeOK
    <2>3. reg' \in [Thread -> Int]
      <3>1. reg \in [Thread -> Int] /\ reg' = [reg EXCEPT ![c] = 0]
        BY <1>24 DEF Store, TypeOK
      <3> QED
        BY <3>1, Update
    <2>4. out' \in [Caller -> Notice]
      BY <1>24 DEF Store, TypeOK, Notice, Silent
    <2>5. pc' \in [Thread -> Label]
      BY <1>24 DEF Store, TypeOK, Goto, Label, ClientLabel
    <2> QED
      BY <1>24, <2>2, <2>3, <2>4, <2>5 DEF Store, TypeOK, roster, lock, locals, heap, net
  <1>25. ASSUME NEW c \in Client, FreeName(c) PROVE TypeOK'
    BY <1>25
    DEF FreeName, Goto, Label, ClientLabel, TypeOK, roster, lock, locals, heap, net
  <1>26. ASSUME NEW c \in Client, DupName(c) PROVE TypeOK'
    BY <1>26
    DEF DupName, Goto, Label, ClientLabel, TypeOK, roster, lock, locals, heap, net
  <1>27. ASSUME NEW c \in Client, PeerConnect(c) PROVE TypeOK'
    <2>1. backlog' \in Seq(Client)
      BY <1>27 DEF PeerConnect, TypeOK
    <2> QED
      BY <1>27, <2>1 DEF PeerConnect, TypeOK, roster, lock, locals, heap, net
  <1>28. ASSUME NEW c \in Client, PeerRead(c) PROVE TypeOK'
    <2>1. sock' \in [Client -> Nat]
      BY <1>28 DEF PeerRead, TypeOK
    <2> QED
      BY <1>28, <2>1 DEF PeerRead, TypeOK, roster, lock, locals, heap, net
  <1>29. ASSUME NEW c \in Client, PeerClose(c) PROVE TypeOK'
    BY <1>29
    DEF PeerClose, TypeOK, roster, lock, locals, heap, net
  <1>30. CASE RefillLock
    BY <1>30
    DEF RefillLock, Goto, Label, RefillLabel, Thread, TypeOK, roster, lock, locals, heap, net
  <1>31. CASE RefillScan
    <2>1. cursor' = cursor \/ cursor' = cursor + 1
      BY <1>31 DEF RefillScan
    <2>2. cursor' \in Nat
      BY <2>1 DEF TypeOK
    <2> QED
      BY <1>31, <2>2 DEF RefillScan, Goto, Label, RefillLabel, TypeOK, roster, lock, locals, heap, net
  <1>35. CASE RefillLoad
    <2>1. reg' \in [Thread -> Int]
      BY <1>35, LoadType
    <2> QED
      BY <1>35, <2>1 DEF RefillLoad, Goto, Label, RefillLabel, TypeOK, roster, lock, locals, heap, net
  <1>36. CASE AcceptFails
    BY <1>36 DEF AcceptFails, TypeOK, roster, lock, locals, heap, net
  <1>32. CASE RefillAdd
    <2>1. reg[Refill] + 1 \in Int
      BY DEF TypeOK, Thread
    <2>2. messages_remaining' \in [Client -> Int]
      BY <1>32, <2>1, Update DEF RefillAdd, TypeOK
    <2>3. reg' \in [Thread -> Int]
      <3>1. reg \in [Thread -> Int] /\ reg' = [reg EXCEPT ![Refill] = 0]
        BY <1>32 DEF RefillAdd, TypeOK
      <3> QED
        BY <3>1, Update
    <2>4. cursor' \in Nat
      BY <1>32 DEF RefillAdd, TypeOK
    <2> QED
      BY <1>32, <2>2, <2>3, <2>4 DEF RefillAdd, Goto, Label, RefillLabel, TypeOK, roster, lock, locals, heap, net
  <1>33. CASE RefillUnlock
    BY <1>33
    DEF RefillUnlock, Goto, Label, RefillLabel, TypeOK, roster, lock, locals, heap, net
  <1>34. CASE UNCHANGED vars
    BY <1>34 DEF vars, TypeOK, roster, lock, locals, heap, net
  <1> QED
    BY <1>1, <1>2, <1>3, <1>4, <1>5, <1>6, <1>7, <1>8, <1>9, <1>10, <1>11,
       <1>12, <1>13, <1>14, <1>15, <1>16, <1>17, <1>18, <1>19, <1>20, <1>21,
       <1>22, <1>23, <1>24, <1>25, <1>26, <1>27, <1>28, <1>29, <1>30, <1>31,
       <1>32, <1>33, <1>34, <1>35, <1>36
    DEF Next, MainStep, ManageStep, RefillStep, PeerStep, Call, Handshake, Caller

-----------------------------------------------------------------------------
(* The lock and the array.                                                 *)

LEMMA StepLock ==
  ASSUME TypeOK, LockInv, Next
  PROVE  LockInv'
  <1> DEFINE Inside == {"send", "compare", "scan", "incr", "add"}
  <1>1. ASSUME NEW t \in Thread, NEW l, Goto(t, l),
               mutex = Null, mutex' = t, cursor' = 1
        PROVE  LockInv'
    <2>1. \A u \in Thread : ~Holds(u)
      BY <1>1, Threads DEF LockInv, Thread, Caller
    <2>2. \A u \in Thread : Holds(u)' => u = t
      BY <1>1, <2>1 DEF Holds, Goto, TypeOK
    <2> QED
      BY <1>1, <2>2 DEF LockInv
  <1>2. ASSUME NEW t \in Thread, NEW l, Goto(t, l), l \notin Inside,
               Holds(t), mutex' = Null
        PROVE  LockInv'
    BY <1>2 DEF LockInv, Holds, Goto, TypeOK
  <1>3. ASSUME NEW t \in Thread, NEW l, Goto(t, l), l \notin Inside, UNCHANGED lock
        PROVE  LockInv'
    BY <1>3 DEF LockInv, Holds, Goto, TypeOK, lock
  <1>4. ASSUME UNCHANGED <<pc, mutex>>, cursor' = cursor \/ cursor' = cursor + 1
        PROVE  LockInv'
    BY <1>4 DEF LockInv, Holds, TypeOK
  <1>5. Main \in Thread /\ Refill \in Thread /\ Client \subseteq Thread /\ Caller \subseteq Thread
    BY DEF Thread, Caller
  <1>6. ASSUME NEW t \in Caller, Call(t) PROVE LockInv'
    <2>1. CASE BeginBroadcast(t)
      BY <1>1, <1>5, <2>1 DEF BeginBroadcast
    <2>2. CASE SendNext(t)
      BY <1>4, <2>2 DEF SendNext
    <2>3. CASE EndBroadcast(t)
      <3>1. AfterNotice(out[t].kind) \notin Inside
        BY DEF AfterNotice
      <3> QED
        BY <1>2, <1>5, <2>3, <3>1 DEF EndBroadcast, Holds
    <2>4. CASE Remove(t)
      BY <1>3, <1>5, <2>4 DEF Remove, Announce
    <2>5. CASE Close(t)
      <3>1. AfterClose(t) \notin Inside
        BY DEF AfterClose
      <3> QED
        BY <1>3, <1>5, <2>5, <3>1 DEF Close
    <2> QED
      BY <1>6, <2>1, <2>2, <2>3, <2>4, <2>5 DEF Call
  <1>7. CASE MainStep
    <2>1. CASE Accept \/ Register \/ Grant
      BY <1>3, <1>5, <2>1 DEF Accept, Register, Grant
    <2>2. CASE CheckAbusive
      BY <1>3, <1>5, <2>2 DEF CheckAbusive
    <2>3. CASE Handshake
      BY <1>3, <1>5, <2>3
      DEF Handshake, SendPk, RecvPk, Push, SendHdr, RecvHdr, Announce
    <2>4. CASE Spawn
      BY <2>4 DEF Spawn, LockInv, Holds, TypeOK, lock
    <2>5. CASE AcceptFails
      BY <2>5 DEF AcceptFails, LockInv, Holds, lock
    <2> QED
      BY <1>6, <1>7, <2>1, <2>2, <2>3, <2>4, <2>5 DEF MainStep, Caller
  <1>8. ASSUME NEW c \in Client, ManageStep(c) PROVE LockInv'
    <2>1. CASE RecvFailed(c) \/ RecvIgnored(c) \/ RecvChat(c) \/ RecvRename(c)
      BY <1>3, <1>4, <1>5, <2>1
      DEF RecvFailed, RecvIgnored, RecvChat, RecvRename, Announce, lock
    <2>2. CASE UniqueLock(c)
      BY <1>1, <1>5, <2>2 DEF UniqueLock
    <2>3. CASE Compare(c)
      BY <1>4, <2>3 DEF Compare
    <2>4. CASE UniqueUnlock(c)
      BY <1>2, <1>5, <2>4 DEF UniqueUnlock, Announce, Holds
    <2>5. CASE Load(c) \/ FreeName(c) \/ DupName(c)
      BY <1>3, <1>5, <2>5 DEF Load, FreeName, DupName
    <2>6. CASE Store(c)
      <3>1. (IF out[c].kind = "rename" THEN "free" ELSE "recv") \notin Inside
        OBVIOUS
      <3> QED
        BY <1>3, <1>5, <2>6, <3>1 DEF Store
    <2> QED
      BY <1>6, <1>8, <2>1, <2>2, <2>3, <2>4, <2>5, <2>6 DEF ManageStep, Caller
  <1>9. CASE RefillStep
    <2>1. CASE RefillLock
      BY <1>1, <1>5, <2>1 DEF RefillLock
    <2>2. CASE RefillScan
      <3>1. cursor' = cursor \/ cursor' = cursor + 1
        BY <2>2 DEF RefillScan
      <3>2. mutex' = mutex /\ pc[Refill] = "scan" /\ (UNCHANGED pc \/ Goto(Refill, "incr"))
        BY <2>2 DEF RefillScan
      <3> QED
        BY <3>1, <3>2, <1>5 DEF LockInv, Holds, Goto, TypeOK
    <2>5. CASE RefillLoad
      BY <2>5, <1>5 DEF RefillLoad, lock, LockInv, Holds, Goto, TypeOK
    <2>3. CASE RefillAdd
      BY <2>3, <1>5 DEF RefillAdd, LockInv, Holds, Goto, TypeOK
    <2>4. CASE RefillUnlock
      BY <1>2, <1>5, <2>4 DEF RefillUnlock, Holds
    <2> QED
      BY <1>9, <2>1, <2>2, <2>3, <2>4, <2>5 DEF RefillStep
  <1>10. ASSUME NEW c \in Client, PeerStep(c) PROVE LockInv'
    BY <1>4, <1>10 DEF PeerStep, PeerConnect, PeerRead, PeerClose, lock
  <1> QED
    BY <1>7, <1>8, <1>9, <1>10 DEF Next

\* Taking out an entry by moving the last one into its place.
LEMMA UnlistShape ==
  ASSUME TypeOK, Shape, NEW c, Unlist(c)
  PROVE  Shape' /\ Listed' = Listed \ {c}
  <1>1. PICK i \in 1..client_n :
          /\ clients[i] = c
          /\ clients' = [clients EXCEPT ![i] = clients[client_n], ![client_n] = Null]
          /\ client_n' = client_n - 1
    BY DEF Unlist
  <1>2. client_n \in 1..MaxClients /\ i \in 1..MaxClients /\ client_n \in 1..client_n
    BY <1>1, Numbers DEF TypeOK
  <1>3. \A j \in 1..client_n' :
          /\ j \in 1..client_n /\ j # client_n /\ j \in 1..MaxClients
          /\ clients'[j] = IF j = i THEN clients[client_n] ELSE clients[j]
    BY <1>1, <1>2, Numbers DEF TypeOK
  <1>4. Shape'
    <2>1. \A j \in 1..client_n' : clients'[j] \in Client
      BY <1>2, <1>3 DEF Shape
    <2>2. \A j, k \in 1..client_n' : clients'[j] = clients'[k] => j = k
      BY <1>1, <1>2, <1>3 DEF Shape
    <2>3. \A j \in 1..MaxClients : j > client_n' => clients'[j] = Null
      BY <1>1, <1>2, Numbers DEF Shape, TypeOK
    <2> QED
      BY <2>1, <2>2, <2>3 DEF Shape
  <1>5. ASSUME NEW d \in Listed' PROVE d \in Listed \ {c}
    <2>1. PICK j \in 1..client_n' : d = clients'[j]
      BY DEF Listed
    <2>2. CASE j = i
      <3>1. d = clients[client_n] /\ client_n # i
        BY <1>3, <2>1, <2>2
      <3> QED
        BY <1>1, <1>2, <3>1 DEF Shape, Listed
    <2>3. CASE j # i
      BY <1>1, <1>2, <1>3, <2>1, <2>3 DEF Shape, Listed
    <2> QED
      BY <2>2, <2>3
  <1>6. ASSUME NEW d \in Listed \ {c} PROVE d \in Listed'
    <2>1. PICK j \in 1..client_n : d = clients[j] /\ j # i
      BY <1>1 DEF Listed
    <2>2. CASE j = client_n
      <3>1. i \in 1..client_n' /\ clients'[i] = d
        BY <1>1, <1>2, <1>3, <2>1, <2>2 DEF TypeOK
      <3> QED
        BY <3>1 DEF Listed
    <2>3. CASE j # client_n
      <3>1. j \in 1..client_n' /\ clients'[j] = d
        BY <1>1, <1>2, <1>3, <2>1, <2>3 DEF TypeOK
      <3> QED
        BY <3>1 DEF Listed
    <2> QED
      BY <2>2, <2>3
  <1> QED
    BY <1>4, <1>5, <1>6

\* Appending a connection that is not listed yet.
LEMMA RegisterShape ==
  ASSUME TypeOK, Shape, Register, ~Full, cur \in Client, cur \notin Listed
  PROVE  Shape' /\ Listed' = Listed \cup {cur}
  <1>1. /\ clients' = [clients EXCEPT ![client_n + 1] = cur]
        /\ client_n' = client_n + 1
    BY DEF Register
  <1>2. client_n + 1 \in 1..MaxClients
    BY Numbers DEF Full, TypeOK
  <1>3. \A j \in 1..client_n' :
          clients'[j] = IF j = client_n + 1 THEN cur ELSE clients[j]
    BY <1>1, <1>2, Numbers DEF TypeOK
  <1>4. Shape'
    <2>1. \A j \in 1..client_n' : clients'[j] \in Client
      BY <1>1, <1>3 DEF Shape, TypeOK
    <2>2. \A j \in 1..client_n : clients[j] # cur
      BY DEF Listed
    <2>3. ASSUME NEW j \in 1..client_n', NEW k \in 1..client_n', clients'[j] = clients'[k]
          PROVE  j = k
      <3>1. /\ j = client_n + 1 \/ j \in 1..client_n
            /\ k = client_n + 1 \/ k \in 1..client_n
        BY <1>1 DEF TypeOK
      <3>2. /\ clients'[j] = IF j = client_n + 1 THEN cur ELSE clients[j]
            /\ clients'[k] = IF k = client_n + 1 THEN cur ELSE clients[k]
        BY <1>3
      <3>3. CASE j = client_n + 1
        BY <2>2, <2>3, <3>1, <3>2, <3>3
      <3>4. CASE k = client_n + 1
        BY <2>2, <2>3, <3>1, <3>2, <3>4
      <3>5. CASE j # client_n + 1 /\ k # client_n + 1
        BY <2>3, <3>1, <3>2, <3>5 DEF Shape
      <3> QED
        BY <3>3, <3>4, <3>5
    <2>4. \A j \in 1..MaxClients : j > client_n' => clients'[j] = Null
      BY <1>1, <1>2, Numbers DEF Shape, TypeOK
    <2> QED
      BY <2>1, <2>3, <2>4 DEF Shape
  <1>5. \A j \in 1..client_n : j \in 1..client_n' /\ clients'[j] = clients[j]
    BY <1>1, <1>3 DEF TypeOK
  <1>6. client_n + 1 \in 1..client_n' /\ clients'[client_n + 1] = cur
    BY <1>1, <1>2, <1>3 DEF TypeOK
  <1>7. ASSUME NEW d \in Listed' PROVE d \in Listed \cup {cur}
    <2>1. PICK j \in 1..client_n' : d = clients'[j]
      BY DEF Listed
    <2>2. j = client_n + 1 \/ j \in 1..client_n
      BY <1>1 DEF TypeOK
    <2> QED
      BY <1>3, <2>1, <2>2 DEF Listed
  <1> QED
    BY <1>4, <1>5, <1>6, <1>7 DEF Listed

-----------------------------------------------------------------------------
(***************************************************************************)
(* The control invariant.  Most steps only move one thread on in the same  *)
(* phase of its life; the two frame lemmas say that this preserves all of  *)
(* it, and leave the steps that change phase: Accept, Register, Spawn,     *)
(* Remove, Close and the peers.                                            *)
(***************************************************************************)
table == <<clients, client_n, cur, mem, backlog, peer>>

\* The step of a client_manage thread that neither leaves nor ends.
LEMMA ClientFrame ==
  ASSUME TypeOK, Control, ~crashed, UNCHANGED table,
         NEW c \in Client, NEW l \in (ClientLabel \cup CallLabel) \ {"idle", "done"},
         Goto(c, l), pc[c] \notin {"idle", "done"},
         \A t \in Caller : t # c => out'[t] = out[t],
         \A d \in Client : d # c => name'[d] = name[d],
         l \in {"bcast", "send"} => out'[c].kind \in {"chat", "rename", "left"},
         Leaving(c)' <=> Leaving(c)
  PROVE  Control'
  <1>1. pc'[c] = l /\ \A t \in Thread : t # c => pc'[t] = pc[t]
    BY DEF Goto, TypeOK, Thread, Caller
  <1>2. Main \in Caller /\ Main # c /\ Client \subseteq Caller /\ Caller \subseteq Thread
    BY Threads DEF Caller, Thread
  <1>3. Listed' = Listed
    BY DEF table, Listed
  <1>4. \A t \in Caller : Leaving(t)' <=> Leaving(t)
    BY <1>1, <1>2 DEF Leaving
  <1>5. \A t \in Caller : Subject(t)' = Subject(t)
    BY DEF Subject, table
  <1>6. Waiting'
    BY DEF Control, Waiting, table
  <1>7. Life'
    BY <1>1, <1>2 DEF Control, Life, table
  <1>8. Accepting'
    BY <1>1, <1>2, <1>3 DEF Control, Accepting, table
  <1>9. Enrolled'
    <2>1. pc'[Main] = pc[Main] /\ out'[Main] = out[Main] /\ cur' = cur
      BY <1>1, <1>2 DEF table
    <2>2. Main \in Thread /\ (pc[Main] # "accept" => cur # c /\ cur \in Client)
      BY <1>2 DEF Control, Accepting
    <2> QED
      BY <1>2, <1>3, <1>4, <2>1, <2>2 DEF Control, Enrolled, Joining
  <1>10. Alive'
    BY <1>3, <1>4, <1>5 DEF Control, Alive, table
  <1>11. RosterComplete'
    BY <1>1, <1>2, <1>3, <1>4 DEF Control, RosterComplete, Served
  <1> QED
    BY <1>6, <1>7, <1>8, <1>9, <1>10, <1>11 DEF Control

\* The step of Main on a connection that it has registered and still keeps.
LEMMA MainFrame ==
  ASSUME TypeOK, Control, ~crashed, UNCHANGED table, UNCHANGED name,
         NEW l \in (MainLabel \cup CallLabel) \ {"accept", "register"},
         Goto(Main, l), pc[Main] \notin {"accept", "register"},
         \A c \in Client : out'[c] = out[c],
         l \in {"bcast", "send"} => out'[Main].kind \in {"join", "left"},
         Leaving(Main)' <=> Leaving(Main),
         Joining' /\ ~crashed' => cur \in Listed
  PROVE  Control'
  <1>1. /\ pc'[Main] = l /\ \A c \in Client : pc'[c] = pc[c]
    BY Threads DEF Goto, TypeOK, Thread, Caller
  <1>2. Listed' = Listed
    BY DEF table, Listed
  <1>3. \A t \in Caller : (Leaving(t)' <=> Leaving(t)) /\ Subject(t)' = Subject(t)
    BY <1>1 DEF Leaving, Caller, Subject, table
  <1>4. Waiting'
    BY DEF Control, Waiting, table
  <1>5. Life'
    BY <1>1 DEF Control, Life, table
  <1>6. Accepting'
    BY <1>1, <1>2 DEF Control, Accepting, table
  <1>7. Enrolled'
    BY <1>1, <1>2 DEF Control, Enrolled, table
  <1>8. Alive'
    BY <1>2, <1>3 DEF Control, Alive, table
  <1>9. RosterComplete'
    BY <1>1, <1>2, <1>3 DEF Control, RosterComplete, Served, Caller
  <1> QED
    BY <1>4, <1>5, <1>6, <1>7, <1>8, <1>9 DEF Control

\* A step that touches none of it.
LEMMA IdleFrame ==
  ASSUME TypeOK, Control, UNCHANGED <<clients, client_n, cur, mem, name, out, crashed>>,
         UNCHANGED <<backlog, peer>>, \A t \in Caller : pc'[t] = pc[t]
  PROVE  Control'
  <1>1. Listed' = Listed
    BY DEF Listed
  <1>2. \A t \in Caller : (Leaving(t)' <=> Leaving(t)) /\ Subject(t)' = Subject(t)
    BY DEF Leaving, Subject
  <1>3. Waiting' /\ Life'
    BY DEF Control, Waiting, Life, Caller
  <1>4. Accepting'
    BY <1>1 DEF Control, Accepting, Caller
  <1>5. Enrolled'
    BY <1>1, <1>2 DEF Control, Enrolled, Joining, Caller
  <1>6. Alive' /\ RosterComplete'
    BY <1>1, <1>2 DEF Control, Alive, RosterComplete, Served, Caller
  <1> QED
    BY <1>3, <1>4, <1>5, <1>6 DEF Control

\* The same for the labels at which a thread announces nothing.
QuietClient == {"recv", "unique", "compare", "load", "store", "free", "dup", "remove"}
QuietMain   == {"grant", "abusive", "sendpk", "recvpk", "push", "sendhdr", "recvhdr", "remove"}

LEMMA ClientMove ==
  ASSUME TypeOK, Control, ~crashed, UNCHANGED table,
         NEW c \in Client, NEW l \in QuietClient, Goto(c, l), pc[c] \in QuietClient,
         \A t \in Caller : t # c => out'[t] = out[t],
         \A d \in Client : d # c => name'[d] = name[d]
  PROVE  Control'
  <1>1. pc'[c] = l
    BY DEF Goto, TypeOK, Thread, Caller
  <1>2. ~Leaving(c) /\ ~Leaving(c)'
    BY <1>1 DEF Leaving, QuietClient
  <1>3. l \in (ClientLabel \cup CallLabel) \ {"idle", "done"} /\ l \notin {"bcast", "send"}
    BY DEF QuietClient, ClientLabel, CallLabel
  <1>4. pc[c] \notin {"idle", "done"}
    BY DEF QuietClient
  <1> QED
    BY <1>2, <1>3, <1>4, ClientFrame

LEMMA ClientAnnounce ==
  ASSUME TypeOK, Control, ~crashed, UNCHANGED table, UNCHANGED name,
         NEW c \in Client, NEW kind \in {"chat", "rename"}, Announce(c, kind),
         pc[c] \in QuietClient
  PROVE  Control'
  <1>1. pc'[c] = "bcast" /\ out'[c].kind = kind /\ Goto(c, "bcast")
    BY DEF Announce, Goto, TypeOK, Thread, Caller
  <1>2. \A t \in Caller : t # c => out'[t] = out[t]
    BY DEF Announce, TypeOK
  <1>3. ~Leaving(c) /\ ~Leaving(c)'
    BY <1>1 DEF Leaving, QuietClient
  <1>4. "bcast" \in (ClientLabel \cup CallLabel) \ {"idle", "done"}
    BY DEF CallLabel
  <1>5. pc[c] \notin {"idle", "done"}
    BY DEF QuietClient
  <1> QED
    BY <1>1, <1>2, <1>3, <1>4, <1>5, ClientFrame

LEMMA MainMove ==
  ASSUME TypeOK, Control, ~crashed, UNCHANGED table, UNCHANGED <<name, out>>,
         NEW l \in QuietMain, Goto(Main, l), pc[Main] \in QuietMain
  PROVE  Control'
  <1>1. pc'[Main] = l
    BY DEF Goto, TypeOK, Thread, Caller
  <1>2. ~Leaving(Main) /\ ~Leaving(Main)' /\ ~Joining'
    BY <1>1 DEF Leaving, Joining, QuietMain
  <1>3. l \in (MainLabel \cup CallLabel) \ {"accept", "register"} /\ l \notin {"bcast", "send"}
    BY DEF QuietMain, MainLabel, CallLabel
  <1>4. pc[Main] \notin {"accept", "register"}
    BY DEF QuietMain
  <1> QED
    BY <1>2, <1>3, <1>4, MainFrame

LEMMA ManageControl ==
  ASSUME TypeOK, Control, ~crashed, NEW c \in Client, ManageStep(c), ~Call(c)
  PROVE  Control'
  <1> USE DEF table, roster, lock, locals, heap, net
  <1>1. CASE RecvFailed(c)
    BY <1>1, ClientMove DEF RecvFailed, QuietClient
  <1>2. CASE RecvIgnored(c)
    BY <1>2, IdleFrame DEF RecvIgnored
  <1>3. CASE RecvChat(c)
    BY <1>3, ClientAnnounce DEF RecvChat, QuietClient
  <1>4. CASE RecvRename(c)
    BY <1>4, ClientMove DEF RecvRename, QuietClient
  <1>5. CASE UniqueLock(c)
    BY <1>5, ClientMove DEF UniqueLock, QuietClient
  <1>6. CASE Compare(c)
    <2>1. Goto(c, "compare")
      BY <1>6 DEF Compare, Goto, TypeOK
    <2> QED
      BY <1>6, <2>1, ClientMove DEF Compare, QuietClient
  <1>7. CASE UniqueUnlock(c)
    <2>1. CASE Announce(c, "rename")
      BY <1>7, <2>1, ClientAnnounce DEF UniqueUnlock, QuietClient
    <2>2. CASE Goto(c, "recv") /\ UNCHANGED out
      BY <1>7, <2>2, ClientMove DEF UniqueUnlock, QuietClient
    <2> QED
      BY <1>7, <2>1, <2>2 DEF UniqueUnlock
  <1>8. CASE Load(c)
    BY <1>8, ClientMove DEF Load, QuietClient
  <1>9. CASE Store(c)
    <2>1. \A t \in Caller : t # c => out'[t] = out[t]
      BY <1>9 DEF Store, TypeOK
    <2>2. (IF out[c].kind = "rename" THEN "free" ELSE "recv") \in QuietClient
      BY DEF QuietClient
    <2> QED
      BY <1>9, <2>1, <2>2, ClientMove DEF Store, QuietClient
  <1>10. CASE FreeName(c)
    <2>1. \A d \in Client : d # c => name'[d] = name[d]
      BY <1>10 DEF FreeName, TypeOK
    <2> QED
      BY <1>10, <2>1, ClientMove DEF FreeName, QuietClient
  <1>11. CASE DupName(c)
    <2>1. \A d \in Client : d # c => name'[d] = name[d]
      BY <1>11 DEF DupName, TypeOK
    <2> QED
      BY <1>11, <2>1, ClientMove DEF DupName, QuietClient
  <1> QED
    BY <1>1, <1>2, <1>3, <1>4, <1>5, <1>6, <1>7, <1>8, <1>9, <1>10, <1>11 DEF ManageStep

LEMMA HandshakeControl ==
  ASSUME TypeOK, Control, ~crashed, Handshake \/ Grant \/ CheckAbusive
  PROVE  Control'
  <1> USE DEF table, roster, lock, locals, heap, net
  <1>1. CASE SendPk
    BY <1>1, MainMove DEF SendPk, QuietMain
  <1>2. CASE RecvPk
    BY <1>2, MainMove DEF RecvPk, QuietMain
  <1>3. CASE Push
    BY <1>3, MainMove DEF Push, QuietMain
  <1>4. CASE SendHdr
    BY <1>4, MainMove DEF SendHdr, QuietMain
  <1>5. CASE RecvHdr
    <2>1. pc'[Main] = "bcast" /\ out'[Main].kind = "join" /\ Goto(Main, "bcast")
      BY <1>5 DEF RecvHdr, Announce, Goto, TypeOK, Thread, Caller
    <2>2. \A c \in Client : out'[c] = out[c]
      BY <1>5, Threads DEF RecvHdr, Announce, TypeOK, Caller
    <2>3. ~Leaving(Main) /\ ~Leaving(Main)'
      BY <1>5, <2>1 DEF Leaving, RecvHdr
    <2>4. ~crashed' => cur \in Listed
      BY <1>5, <2>3 DEF RecvHdr, Control, Enrolled
    <2>5. "bcast" \in (MainLabel \cup CallLabel) \ {"accept", "register"}
      BY DEF CallLabel
    <2> QED
      BY <1>5, <2>1, <2>2, <2>3, <2>4, <2>5, MainFrame DEF RecvHdr
  <1>6. CASE Grant
    BY <1>6, MainMove DEF Grant, QuietMain
  <1>7. CASE CheckAbusive
    BY <1>7, MainMove DEF CheckAbusive, QuietMain
  <1> QED
    BY <1>1, <1>2, <1>3, <1>4, <1>5, <1>6, <1>7 DEF Handshake

\* broadcast_clients keeps the phase: who announces "left" goes on to close.
LEMMA BroadcastControl ==
  ASSUME TypeOK, Control, ~crashed, NEW t \in Caller,
         BeginBroadcast(t) \/ SendNext(t) \/ EndBroadcast(t)
  PROVE  Control'
  <1> USE DEF table, roster, lock, locals, heap, net
  <1>1. t \in Thread /\ (t = Main \/ t \in Client)
    BY DEF Caller, Thread
  <1>2. ASSUME NEW l \in CallLabel \cup {"spawn", "load"},
               Goto(t, l), UNCHANGED <<table, name, crashed>>,
               pc[t] \in {"bcast", "send"},
               \A u \in Caller : out'[u].kind = out[u].kind,
               \A u \in Caller : u # t => out'[u] = out[u],
               l = "close" <=> pc[t] = "send" /\ l # "bcast" /\ out[t].kind = "left",
               l = "spawn" => out[t].kind = "join",
               l = "load" => out[t].kind \in {"chat", "rename"},
               l # "remove"
        PROVE  Control'
    <2>1. pc'[t] = l /\ (\A u \in Thread : u # t => pc'[u] = pc[u])
      BY <1>1, <1>2 DEF Goto, TypeOK
    <2>2. Leaving(t)' <=> Leaving(t)
      BY <1>2, <2>1 DEF Leaving, CallLabel
    <2>3. CASE t = Main
      <3>1. out[Main].kind \in {"join", "left"}
        BY <1>2, <2>3 DEF Control, Accepting
      <3>2. l \in (MainLabel \cup CallLabel) \ {"accept", "register"}
        BY <1>2, <2>3, <3>1 DEF MainLabel, CallLabel
      <3>3. \A c \in Client : out'[c] = out[c]
        BY <1>2, <2>3, Threads DEF Caller
      <3>4. out'[Main].kind = out[Main].kind
        BY <1>2 DEF Caller
      <3>5. Joining' => Joining
        BY <1>2, <2>1, <2>3, <3>4 DEF Joining
      <3>6. Joining' => cur \in Listed
        BY <3>5 DEF Control, Enrolled
      <3>7. Goto(Main, l) /\ pc[Main] \notin {"accept", "register"}
        BY <1>2, <2>3
      <3> QED
        BY <1>2, <2>2, <2>3, <3>1, <3>2, <3>3, <3>4, <3>6, <3>7, MainFrame
    <2>4. CASE t \in Client
      <3>1. out[t].kind \in {"chat", "rename", "left"}
        BY <1>2, <2>4 DEF Control, Life
      <3>2. l \in (ClientLabel \cup CallLabel) \ {"idle", "done"}
        BY <1>2, <2>4, <3>1 DEF ClientLabel, CallLabel
      <3>3. out'[t].kind = out[t].kind
        BY <1>2
      <3> QED
        BY <1>2, <2>2, <2>4, <3>1, <3>2, <3>3, ClientFrame
    <2> QED
      BY <1>1, <2>3, <2>4
  <1>3. CASE BeginBroadcast(t)
    <2>1. "send" \in CallLabel
      BY DEF CallLabel
    <2> QED
      BY <1>2, <1>3, <2>1 DEF BeginBroadcast
  <1>4. CASE SendNext(t)
    BY <1>4, IdleFrame DEF SendNext
  <1>5. CASE EndBroadcast(t)
    <2>1. CASE out[t].part = "len"
      <3>1. out' = [out EXCEPT ![t] = [kind |-> out[t].kind, part |-> "body"]] /\ Goto(t, "bcast")
        BY <1>5, <2>1 DEF EndBroadcast
      <3>2. \A u \in Caller : out'[u].kind = out[u].kind /\ (u # t => out'[u] = out[u])
        BY <3>1 DEF TypeOK
      <3>3. "bcast" \in CallLabel
        BY DEF CallLabel
      <3> QED
        BY <1>2, <1>5, <3>1, <3>2, <3>3 DEF EndBroadcast
    <2>2. CASE out[t].part = "body"
      <3>1. out' = out /\ Goto(t, AfterNotice(out[t].kind)) /\ pc[t] = "send"
        BY <1>5, <2>2 DEF EndBroadcast
      <3>2. out[t].kind \in {"join", "chat", "rename", "left"}
        <4>1. CASE t = Main
          BY <3>1, <4>1 DEF Control, Accepting
        <4>2. CASE t \in Client
          BY <3>1, <4>2 DEF Control, Life
        <4> QED
          BY <1>1, <4>1, <4>2
      <3> DEFINE l == AfterNotice(out[t].kind)
      <3>3. /\ l \in CallLabel \cup {"spawn", "load"}
            /\ l = "close" <=> out[t].kind = "left"
            /\ l = "spawn" => out[t].kind = "join"
            /\ l = "load" => out[t].kind \in {"chat", "rename"}
            /\ l # "remove" /\ l # "bcast"
        BY <3>2 DEF AfterNotice, CallLabel
      <3> HIDE DEF l
      <3> QED
        BY <1>2, <1>5, <3>1, <3>3 DEF EndBroadcast, l
    <2>3. out[t].part \in {"len", "body"}
      BY DEF TypeOK, Notice
    <2> QED
      BY <2>1, <2>2, <2>3
  <1> QED
    BY <1>3, <1>4, <1>5

\* disconnect_client takes its client, and only its client, out of the table.
LEMMA RemoveControl ==
  ASSUME TypeOK, Shape, Control, ~crashed, NEW t \in Caller, Remove(t)
  PROVE  Control' /\ Shape'
  <1>1. Listed' = Listed \ {Subject(t)} /\ Shape'
    <2>1. CASE Unlist(Subject(t))
      BY <2>1, UnlistShape
    <2>2. CASE Subject(t) \notin Listed /\ UNCHANGED <<clients, client_n>>
      BY <2>2 DEF Listed, Shape
    <2> QED
      BY <2>1, <2>2 DEF Remove
  <1>2. /\ t \in Thread /\ (t = Main \/ t \in Client)
        /\ pc[t] = "remove" /\ pc'[t] = "bcast" /\ out'[t].kind = "left"
    BY DEF Remove, Announce, Goto, TypeOK, Caller, Thread
  <1>3. \A u \in Caller : u # t => pc'[u] = pc[u] /\ out'[u] = out[u]
    BY DEF Remove, Announce, Goto, TypeOK, Caller, Thread
  <1>4. UNCHANGED <<cur, mem, name, backlog, peer>>
    BY DEF Remove, heap, net
  <1>5. \A u \in Caller : Subject(u)' = Subject(u)
    BY <1>4 DEF Subject
  <1>6. \A u \in Caller : u # t => (Leaving(u)' <=> Leaving(u))
    BY <1>3 DEF Leaving
  <1>7. Leaving(t)' /\ ~Leaving(t)
    BY <1>2 DEF Leaving
  <1>8. Waiting'
    BY <1>4 DEF Control, Waiting
  <1>9. Life'
    BY <1>2, <1>3, <1>4 DEF Control, Life, CallLabel, Caller
  <1>10. Accepting'
    <2>1. CASE t = Main
      BY <1>2, <1>3, <1>4, <2>1, Threads DEF Control, Accepting, CallLabel, Caller
    <2>2. CASE t \in Client
      BY <1>1, <1>2, <1>3, <1>4, <2>2, Threads DEF Control, Accepting, Caller
    <2> QED
      BY <1>2, <2>1, <2>2
  <1>11. Enrolled'
    <2>1. CASE t = Main
      BY <1>2, <1>7, <2>1 DEF Enrolled, Joining
    <2>2. CASE t \in Client
      <3>1. t # Main /\ Main \in Caller
        BY <2>2, Threads DEF Caller
      <3>2. pc'[Main] = pc[Main] /\ out'[Main] = out[Main] /\ (Leaving(Main)' <=> Leaving(Main))
        BY <1>3, <1>6, <3>1
      <3>3. pc[Main] # "accept" => cur # t
        BY <1>2 DEF Control, Accepting
      <3>4. Subject(t) = t
        BY <3>1 DEF Subject
      <3> QED
        BY <1>1, <1>4, <3>2, <3>3, <3>4 DEF Control, Enrolled, Joining
    <2> QED
      BY <1>2, <2>1, <2>2
  <1>12. Alive'
    BY <1>1, <1>4, <1>5, <1>6 DEF Control, Alive
  <1>13. RosterComplete'
    <2>1. ASSUME NEW c \in Client, Served(c)' PROVE c \in Listed /\ c # Subject(t)
      <3>1. c # t
        BY <1>7, <2>1 DEF Served
      <3>2. Served(c)
        BY <1>3, <1>6, <2>1, <3>1 DEF Served, Caller
      <3>3. t = Main => pc[cur] = "idle"
        BY <1>2 DEF Control, Accepting
      <3> QED
        BY <1>2, <3>1, <3>2, <3>3 DEF Control, RosterComplete, Served, Subject
    <2> QED
      BY <1>1, <2>1 DEF RosterComplete
  <1> QED
    BY <1>1, <1>8, <1>9, <1>10, <1>11, <1>12, <1>13 DEF Control

\* What is freed is out of the table, and its thread is at its end.
LEMMA CloseControl ==
  ASSUME TypeOK, Control, ~crashed, NEW t \in Caller, Close(t)
  PROVE  Control'
  <1>1. /\ t \in Thread /\ (t = Main \/ t \in Client)
        /\ pc[t] = "close" /\ pc'[t] = AfterClose(t)
    BY DEF Close, Goto, TypeOK, Caller, Thread
  <1>2. \A u \in Caller : u # t => pc'[u] = pc[u] /\ out'[u] = out[u]
    BY DEF Close, Goto, TypeOK, Caller, Thread
  <1>3. /\ UNCHANGED <<cur, clients, client_n, backlog, crashed>>
        /\ Listed' = Listed
    BY DEF Close, roster, Listed
  <1>4. Subject(t) \in Client /\ Subject(t) \notin Listed /\ mem[Subject(t)] = "live"
    <2>1. Leaving(t)
      BY <1>1 DEF Leaving
    <2>2. CASE t = Main
      BY <1>1, <2>1, <2>2 DEF Control, Accepting, Alive, Subject
    <2>3. CASE t \in Client
      BY <1>1, <2>1, <2>3, Threads DEF Control, Life, Alive, Subject
    <2> QED
      BY <1>1, <2>2, <2>3
  <1>5. /\ \A c \in Client : c # Subject(t) =>
             mem'[c] = mem[c] /\ name'[c] = name[c] /\ peer'[c] = peer[c]
        /\ mem'[Subject(t)] = "freed" /\ peer'[Subject(t)] = "closed"
    BY <1>4 DEF Close, TypeOK
  <1>6. \A c \in Client : c # t => pc'[c] = pc[c] /\ out'[c] = out[c]
    BY <1>2 DEF Caller
  <1>7. ~Leaving(t)'
    BY <1>1 DEF Leaving, AfterClose
  <1>8. \A u \in Caller : u # t => (Leaving(u)' <=> Leaving(u)) /\ Subject(u)' = Subject(u)
    BY <1>2, <1>3 DEF Leaving, Subject
  <1>9. Waiting'
    <2>1. \A i \in 1..Len(backlog) : backlog[i] \in Client /\ backlog[i] # Subject(t)
      <3>1. backlog \in Seq(Client)
        BY DEF TypeOK
      <3>2. \A i \in 1..Len(backlog) : backlog[i] \in Client
        BY <3>1
      <3> QED
        BY <1>4, <3>2 DEF Control, Waiting
    <2> QED
      BY <1>3, <1>5, <2>1 DEF Control, Waiting
  <1>10. Life'
    <2>1. CASE t = Main
      <3>1. \A c \in Client : c # t
        BY <2>1, Threads
      <3>2. Subject(t) = cur /\ pc[cur] = "idle"
        BY <1>1, <2>1 DEF Subject, Control, Accepting
      <3>3. \A c \in Client : pc'[c] = pc[c] /\ out'[c] = out[c]
        BY <1>6, <3>1
      <3>4. \A c \in Client : c # cur => mem'[c] = mem[c] /\ name'[c] = name[c]
        BY <1>5, <3>2
      <3>5. cur \in Client /\ mem'[cur] = "freed"
        BY <1>4, <1>5, <3>2
      <3> QED
        BY <3>2, <3>3, <3>4, <3>5 DEF Control, Life
    <2>2. CASE t \in Client
      <3>1. Subject(t) = t /\ pc'[t] = "done"
        BY <1>1, <2>2, Threads DEF Subject, AfterClose
      <3>2. mem'[t] = "freed" /\ "done" \in ClientLabel
        BY <1>4, <1>5, <3>1 DEF ClientLabel
      <3>3. \A c \in Client : c # t => /\ mem'[c] = mem[c] /\ name'[c] = name[c]
                                       /\ pc'[c] = pc[c] /\ out'[c] = out[c]
        BY <1>5, <1>6, <3>1
      <3> QED
        BY <3>1, <3>2, <3>3 DEF Control, Life
    <2> QED
      BY <1>1, <2>1, <2>2
  <1>11. Accepting' /\ Enrolled'
    <2>1. CASE t = Main
      BY <1>1, <2>1 DEF Accepting, Enrolled, Joining, AfterClose, MainLabel
    <2>2. CASE t \in Client
      <3>1. t # Main /\ Main \in Caller /\ Subject(t) = t
        BY <2>2, Threads DEF Caller, Subject
      <3>2. pc'[Main] = pc[Main] /\ out'[Main] = out[Main] /\ (Leaving(Main)' <=> Leaving(Main))
        BY <1>2, <1>8, <3>1
      <3>3. pc[Main] # "accept" => cur # t
        BY <1>1 DEF Control, Accepting
      <3>4. pc[Main] # "accept" => /\ cur \in Client
                                   /\ mem'[cur] = mem[cur] /\ name'[cur] = name[cur]
                                   /\ pc'[cur] = pc[cur]
        BY <1>5, <1>6, <3>1, <3>3 DEF Control, Accepting
      <3>5. Accepting'
        BY <1>3, <3>2, <3>4 DEF Control, Accepting
      <3>6. Enrolled'
        BY <1>3, <3>2, <3>4 DEF Control, Enrolled, Joining
      <3> QED
        BY <3>5, <3>6
    <2> QED
      BY <1>1, <2>1, <2>2
  <1>12. Alive'
    <2>1. \A c \in Listed : mem[c] = "live" /\ mem'[c] = "live"
      BY <1>4 DEF Control, Alive, Close, TypeOK
    <2> QED
      BY <1>3, <1>7, <1>8, <2>1 DEF Control, Alive
  <1>13. RosterComplete'
    <2>1. ASSUME NEW c \in Client, Served(c)' PROVE Served(c)
      <3>1. c # t
        BY <1>1, <2>1, Threads DEF Served, AfterClose
      <3> QED
        BY <1>6, <1>8, <2>1, <3>1 DEF Served, Caller
    <2> QED
      BY <1>3, <2>1 DEF Control, RosterComplete
  <1> QED
    BY <1>9, <1>10, <1>11, <1>12, <1>13 DEF Control

\* The connection that Main takes from the queue is known to nobody yet.
LEMMA AcceptControl ==
  ASSUME TypeOK, Shape, Control, ~crashed, Accept
  PROVE  Control'
  <1> DEFINE c == Head(backlog)
  <1>1. /\ c \in Client /\ cur' = c /\ backlog # <<>>
        /\ mem[c] = "none" /\ peer[c] # "away" /\ pc[c] = "idle" /\ name[c] = "unset"
    <2>1. c = backlog[1] /\ 1 \in 1..Len(backlog) /\ c \in Client
      BY DEF Accept, TypeOK
    <2> QED
      BY <2>1 DEF Accept, Control, Waiting, Life
  <1>2. \A i \in 1..Len(backlog') :
          backlog'[i] = backlog[i + 1] /\ i + 1 \in 1..Len(backlog) /\ backlog'[i] \in Client
    <2>1. backlog \in Seq(Client) /\ backlog # <<>> /\ backlog' = Tail(backlog)
      BY <1>1 DEF Accept, TypeOK
    <2> QED
      BY <2>1
  <1>3. pc'[Main] = "register" /\ pc[Main] = "accept" /\ \A d \in Client : pc'[d] = pc[d]
    BY Threads DEF Accept, Goto, TypeOK, Thread, Caller
  <1>4. mem'[c] = "live" /\ \A d \in Client : d # c => mem'[d] = mem[d]
    BY <1>1 DEF Accept, TypeOK
  <1>5. UNCHANGED <<out, name, peer, crashed>> /\ Listed' = Listed
    BY DEF Accept, roster, Listed
  <1> HIDE DEF c
  <1>6. \A d \in Client : Leaving(d)' <=> Leaving(d)
    BY <1>3, <1>5 DEF Leaving
  <1>7. ~Leaving(Main)'
    BY <1>3 DEF Leaving
  <1>8. c \notin Listed
    BY <1>1 DEF Control, Alive
  <1>9. Waiting'
    <2>1. \A i \in 1..Len(backlog') : backlog'[i] # c
      <3>1. c = backlog[1] /\ 1 \in 1..Len(backlog)
        BY DEF Accept, TypeOK, c
      <3>2. ASSUME NEW i \in 1..Len(backlog') PROVE backlog[i + 1] # backlog[1]
        <4>1. i + 1 # 1
          BY <1>2, <3>2 DEF Accept, TypeOK
        <4> QED
          BY <1>2, <3>1, <4>1 DEF Control, Waiting
      <3> QED
        BY <1>2, <3>1, <3>2
    <2>2. \A i \in 1..Len(backlog') : mem'[backlog'[i]] = "none" /\ peer'[backlog'[i]] # "away"
      BY <1>2, <1>4, <1>5, <2>1 DEF Control, Waiting
    <2>3. \A i, j \in 1..Len(backlog') : backlog'[i] = backlog'[j] => i = j
      BY <1>2 DEF Control, Waiting, Accept, TypeOK
    <2>4. \A d \in Client : peer'[d] = "away" => mem'[d] = "none"
      BY <1>1, <1>4, <1>5 DEF Control, Waiting
    <2> QED
      BY <2>2, <2>3, <2>4 DEF Waiting
  <1>10. Life'
    BY <1>1, <1>3, <1>4, <1>5 DEF Control, Life
  <1>11. Accepting'
    BY <1>1, <1>3, <1>4, <1>5, <1>8 DEF Accepting, MainLabel
  <1>12. Enrolled'
    BY <1>3 DEF Enrolled, Joining
  <1>13. Alive'
    <2>1. ASSUME NEW d \in Listed' PROVE mem'[d] = "live"
      <3>1. d \in Listed /\ mem[d] = "live"
        BY <1>5, <2>1 DEF Control, Alive
      <3>2. d \in Client
        BY <3>1 DEF Listed, Shape
      <3>3. d # c
        BY <1>1, <3>1
      <3> QED
        BY <1>4, <3>1, <3>2, <3>3
    <2>2. ASSUME NEW t \in Caller, Leaving(t)' PROVE Subject(t)' \notin Listed'
      <3>1. t \in Client /\ Leaving(t) /\ Subject(t) = t /\ Subject(t)' = t
        BY <1>6, <1>7, <2>2, Threads DEF Caller, Subject
      <3> QED
        BY <1>5, <3>1 DEF Control, Alive, Caller
    <2> QED
      BY <2>1, <2>2 DEF Alive
  <1>14. RosterComplete'
    BY <1>3, <1>5, <1>6 DEF Control, RosterComplete, Served
  <1> QED
    BY <1>9, <1>10, <1>11, <1>12, <1>13, <1>14 DEF Control

\* init_client, on a free entry and on a full table.
LEMMA RegisterControl ==
  ASSUME TypeOK, Shape, Control, ~crashed, Register
  PROVE  Control' /\ Shape'
  <1>1. cur \in Client /\ cur \notin Listed /\ mem[cur] = "live" /\ pc[cur] = "idle"
                       /\ name[cur] = "unset"
    BY DEF Register, Control, Accepting
  <1>2. pc'[Main] = "grant" /\ pc[Main] = "register" /\ \A d \in Client : pc'[d] = pc[d]
    BY Threads DEF Register, Goto, TypeOK, Thread, Caller
  <1>3. UNCHANGED <<out, cur, mem, peer, backlog, crashed>>
    BY DEF Register, locals, net
  <1>4. /\ Shape'
        /\ \/ Listed' = Listed /\ name' = name
           \/ Listed' = Listed \cup {cur} /\ name' = [name EXCEPT ![cur] = "set"]
    <2>1. CASE Full
      BY <2>1 DEF Register, roster, Listed, Shape
    <2>2. CASE ~Full
      BY <1>1, <2>2, RegisterShape DEF Register
    <2> QED
      BY <2>1, <2>2
  <1>5. \A d \in Client : Leaving(d)' <=> Leaving(d)
    BY <1>2, <1>3 DEF Leaving
  <1>6. ~Leaving(Main)'
    BY <1>2 DEF Leaving
  <1>7. Waiting'
    BY <1>3 DEF Control, Waiting
  <1>8. \A d \in Client : d # cur => name'[d] = name[d]
    BY <1>4 DEF TypeOK
  <1>9. Life'
    BY <1>1, <1>2, <1>3, <1>8 DEF Control, Life
  <1>10. Accepting'
    BY <1>1, <1>2, <1>3 DEF Accepting, MainLabel
  <1>11. Enrolled'
    BY <1>1, <1>2, <1>3, <1>4 DEF Enrolled, Joining
  <1>12. Alive'
    <2>1. \A c \in Listed' : mem'[c] = "live"
      BY <1>1, <1>3, <1>4 DEF Control, Alive
    <2>2. ASSUME NEW t \in Caller, Leaving(t)' PROVE Subject(t)' \notin Listed'
      <3>1. t \in Client /\ Leaving(t) /\ Subject(t) = t /\ Subject(t)' = t
        BY <1>5, <1>6, <2>2, Threads DEF Caller, Subject
      <3>2. t # cur
        BY <1>1, <3>1 DEF Leaving
      <3> QED
        BY <1>4, <3>1, <3>2 DEF Control, Alive, Caller
    <2> QED
      BY <2>1, <2>2 DEF Alive
  <1>13. RosterComplete'
    BY <1>2, <1>4, <1>5 DEF Control, RosterComplete, Served
  <1> QED
    BY <1>4, <1>7, <1>9, <1>10, <1>11, <1>12, <1>13 DEF Control

\* The thread of the client takes over from Main.
LEMMA SpawnControl ==
  ASSUME TypeOK, Control, ~crashed, Spawn
  PROVE  Control'
  <1>1. /\ cur \in Client /\ mem[cur] = "live" /\ pc[cur] = "idle" /\ cur \in Listed
    BY DEF Spawn, Control, Accepting, Enrolled, Joining
  <1>2. /\ pc'[Main] = "accept" /\ pc'[cur] = "recv"
        /\ \A d \in Client : d # cur => pc'[d] = pc[d]
    BY <1>1, Threads DEF Spawn, TypeOK, Thread, Caller
  <1>3. UNCHANGED <<cur, mem, name, peer, backlog, crashed>> /\ Listed' = Listed
    BY DEF Spawn, heap, net, roster, Listed
  <1>4. \A d \in Client : out'[d] = out[d]
    BY Threads DEF Spawn, TypeOK, Caller
  <1>5. \A d \in Client : Leaving(d)' => Leaving(d) /\ d # cur
    BY <1>2, <1>4 DEF Leaving
  <1>6. ~Leaving(Main)'
    BY <1>2 DEF Leaving
  <1>7. Waiting'
    BY <1>3 DEF Control, Waiting
  <1>8. Life'
    BY <1>1, <1>2, <1>3, <1>4 DEF Control, Life, ClientLabel
  <1>9. Accepting' /\ Enrolled'
    BY <1>2 DEF Accepting, Enrolled, Joining, MainLabel
  <1>10. Alive'
    BY <1>3, <1>5, <1>6, Threads DEF Control, Alive, Caller, Subject
  <1>11. RosterComplete'
    <2>1. ASSUME NEW d \in Client, d # cur, Served(d)' PROVE Served(d)
      BY <1>2, <1>4, <2>1 DEF Served, Leaving
    <2> QED
      BY <1>1, <1>3, <2>1 DEF Control, RosterComplete
  <1> QED
    BY <1>7, <1>8, <1>9, <1>10, <1>11 DEF Control

LEMMA PeerControl ==
  ASSUME TypeOK, Control, ~crashed, NEW c \in Client, PeerStep(c)
  PROVE  Control'
  <1>1. CASE PeerConnect(c)
    <2>1. /\ UNCHANGED <<clients, client_n, cur, mem, name, out, pc, crashed>>
          /\ Listed' = Listed
      BY <1>1 DEF PeerConnect, roster, locals, heap, Listed
    <2>2. /\ backlog \in Seq(Client) /\ backlog' = Append(backlog, c) /\ mem[c] = "none"
          /\ peer[c] = "away" /\ peer' = [peer EXCEPT ![c] = "open"]
      BY <1>1 DEF PeerConnect, TypeOK, Control, Waiting
    <2>3. \A i \in 1..Len(backlog') : \/ i \in 1..Len(backlog) /\ backlog'[i] = backlog[i]
                                      \/ i = Len(backlog) + 1 /\ backlog'[i] = c
      <3>1. Len(backlog) \in Nat /\ Len(backlog') = Len(backlog) + 1
        BY <2>2
      <3>2. backlog'[Len(backlog) + 1] = c
        BY <2>2
      <3>3. \A i \in 1..Len(backlog) : backlog'[i] = backlog[i]
        BY <2>2
      <3>4. ASSUME NEW i \in 1..Len(backlog') PROVE i \in 1..Len(backlog) \/ i = Len(backlog) + 1
        BY <3>1, <3>4
      <3> QED
        BY <3>2, <3>3, <3>4
    <2>4. \A i \in 1..Len(backlog) : backlog[i] \in Client /\ backlog[i] # c
      BY <2>2 DEF Control, Waiting
    <2>5. \A d \in Client : d # c => peer'[d] = peer[d]
      BY <2>2 DEF TypeOK
    <2>6. peer'[c] = "open"
      BY <2>2 DEF TypeOK
    <2>7. Waiting'
      <3>1. \A i \in 1..Len(backlog') : mem'[backlog'[i]] = "none" /\ peer'[backlog'[i]] # "away"
        BY <2>1, <2>2, <2>3, <2>4, <2>5, <2>6 DEF Control, Waiting
      <3>2. \A i, j \in 1..Len(backlog') : backlog'[i] = backlog'[j] => i = j
        BY <2>3, <2>4 DEF Control, Waiting
      <3>3. \A d \in Client : peer'[d] = "away" => mem'[d] = "none"
        BY <2>1, <2>5, <2>6 DEF Control, Waiting
      <3> QED
        BY <3>1, <3>2, <3>3 DEF Waiting
    <2>8. Life' /\ Accepting'
      BY <2>1 DEF Control, Life, Accepting
    <2>9. Enrolled' /\ Alive' /\ RosterComplete'
      BY <2>1 DEF Control, Enrolled, Joining, Alive, RosterComplete, Served, Leaving, Subject
    <2> QED
      BY <2>7, <2>8, <2>9 DEF Control
  <1>2. CASE PeerRead(c)
    BY <1>2, IdleFrame DEF PeerRead, roster, locals, heap
  <1>3. CASE PeerClose(c)
    <2>1. /\ UNCHANGED <<clients, client_n, cur, mem, name, out, pc, backlog, crashed>>
          /\ Listed' = Listed
      BY <1>3 DEF PeerClose, roster, locals, heap, Listed
    <2>2. \A d \in Client : peer'[d] = "away" => peer[d] = "away"
      BY <1>3 DEF PeerClose, TypeOK
    <2>3. backlog \in Seq(Client)
      BY DEF TypeOK
    <2>4. \A i \in 1..Len(backlog) : backlog[i] \in Client
      BY <2>3
    <2>5. Waiting'
      BY <2>1, <2>2, <2>4 DEF Control, Waiting
    <2>6. Life' /\ Accepting'
      BY <2>1 DEF Control, Life, Accepting
    <2>7. Enrolled' /\ Alive' /\ RosterComplete'
      BY <2>1 DEF Control, Enrolled, Joining, Alive, RosterComplete, Served, Leaving, Subject
    <2> QED
      BY <2>5, <2>6, <2>7 DEF Control
  <1> QED
    BY <1>1, <1>2, <1>3 DEF PeerStep

LEMMA RefillControl ==
  ASSUME TypeOK, Control, RefillStep
  PROVE  Control'
  <1>1. \A t \in Caller : t # Refill
    BY Threads DEF Caller
  <1>2. \A t \in Caller : pc'[t] = pc[t]
    BY <1>1 DEF RefillStep, RefillLock, RefillScan, RefillLoad, RefillAdd, RefillUnlock, Goto,
                TypeOK, Thread
  <1> QED
    BY <1>2, IdleFrame
    DEF RefillStep, RefillLock, RefillScan, RefillLoad, RefillAdd, RefillUnlock, roster, locals, heap, net

-----------------------------------------------------------------------------
(* The round of refill_messages, seen from the other threads.              *)
LEMMA RoundKept ==
  ASSUME TypeOK, LockInv, Control, Next, ~RefillStep
  PROVE  /\ pc'[Refill] = pc[Refill] /\ reg'[Refill] = reg[Refill]
         /\ mutex' = Refill => mutex = Refill
         /\ mutex = Refill => UNCHANGED <<clients, client_n, cursor, mutex>>
  <1> USE DEF roster, lock, locals, heap, net
  <1>1. TypeOK /\ Refill \in Thread /\ Main # Refill /\ Refill \notin Client /\ Refill # Null
    BY Threads DEF Thread, Caller
  <1>2. ASSUME NEW t \in Caller, NEW l, Goto(t, l) PROVE pc'[Refill] = pc[Refill]
    BY <1>1, <1>2 DEF Goto, TypeOK, Caller
  <1>3. Main \in Caller /\ Client \subseteq Caller /\ \A t \in Caller : t # Refill /\ t \in Thread
    BY <1>1 DEF Caller, Thread
  <1>4. ASSUME NEW t \in Caller, Call(t)
        PROVE  /\ pc'[Refill] = pc[Refill] /\ reg'[Refill] = reg[Refill]
               /\ mutex' = Refill => mutex = Refill
               /\ mutex = Refill => UNCHANGED <<clients, client_n, cursor, mutex>>
    <2>1. pc[t] = "send" => mutex # Refill
      BY <1>3 DEF LockInv, Holds
    <2>2. CASE BeginBroadcast(t)
      BY <1>1, <1>2, <1>3, <2>2 DEF BeginBroadcast
    <2>3. CASE SendNext(t)
      BY <2>1, <2>3 DEF SendNext
    <2>4. CASE EndBroadcast(t)
      BY <1>1, <1>2, <2>1, <2>4 DEF EndBroadcast
    <2>5. CASE Remove(t)
      BY <1>1, <1>2, <2>5 DEF Remove, Announce
    <2>6. CASE Close(t)
      BY <1>2, <2>6 DEF Close
    <2> QED
      BY <1>4, <2>2, <2>3, <2>4, <2>5, <2>6 DEF Call
  <1>50. CASE AcceptFails
    BY <1>50 DEF AcceptFails
  <1>5. CASE Accept \/ Register \/ Grant \/ CheckAbusive \/ Handshake
    BY <1>1, <1>2, <1>3, <1>5
    DEF Accept, Register, Grant, CheckAbusive, Handshake, SendPk, RecvPk, Push, SendHdr,
        RecvHdr, Announce
  <1>6. CASE Spawn
    <2>1. cur # Refill
      BY <1>1, <1>6 DEF Spawn, Control, Accepting
    <2> QED
      BY <1>1, <1>6, <2>1 DEF Spawn, TypeOK
  <1>7. ASSUME NEW c \in Client, ManageStep(c), ~Call(c)
        PROVE  /\ pc'[Refill] = pc[Refill] /\ reg'[Refill] = reg[Refill]
               /\ mutex' = Refill => mutex = Refill
               /\ mutex = Refill => UNCHANGED <<clients, client_n, cursor, mutex>>
    <2>1. pc[c] = "compare" => mutex # Refill
      BY <1>1, <1>3 DEF LockInv, Holds
    <2>2. c \in Caller /\ c # Refill
      BY <1>3
    <2>3. pc'[Refill] = pc[Refill]
      BY <1>2, <1>7, <2>2
      DEF ManageStep, RecvFailed, RecvIgnored, RecvChat, RecvRename, UniqueLock, Compare,
          UniqueUnlock, Load, Store, FreeName, DupName, Announce
    <2>4. reg'[Refill] = reg[Refill]
      BY <1>1, <1>7, <2>2
      DEF ManageStep, RecvFailed, RecvIgnored, RecvChat, RecvRename, UniqueLock, Compare,
          UniqueUnlock, Load, Store, FreeName, DupName, TypeOK
    <2>5. /\ mutex' = Refill => mutex = Refill
          /\ mutex = Refill => UNCHANGED <<clients, client_n, cursor, mutex>>
      BY <1>1, <1>7, <2>1, <2>2
      DEF ManageStep, RecvFailed, RecvIgnored, RecvChat, RecvRename, UniqueLock, Compare,
          UniqueUnlock, Load, Store, FreeName, DupName
    <2> QED
      BY <2>3, <2>4, <2>5
  <1>8. ASSUME NEW c \in Client, PeerStep(c)
        PROVE  UNCHANGED <<pc, reg, mutex, clients, client_n, cursor>>
    BY <1>8 DEF PeerStep, PeerConnect, PeerRead, PeerClose
  <1> QED
    BY <1>3, <1>4, <1>5, <1>50, <1>6, <1>7, <1>8 DEF Next, MainStep

LEMMA StepEntry ==
  ASSUME TypeOK, LockInv, AtEntry, Control, Next
  PROVE  AtEntry'
  <1>1. Refill \in Thread /\ Refill # Null
    BY Threads DEF Thread
  <1>2. CASE RefillStep
    <2>1. ASSUME NEW l, Goto(Refill, l) PROVE pc'[Refill] = l
      BY <1>1, <2>1 DEF Goto, TypeOK
    <2>2. CASE RefillLock \/ RefillAdd \/ RefillUnlock
      BY <2>1, <2>2 DEF RefillLock, RefillAdd, RefillUnlock, AtEntry
    <2>3. CASE RefillScan
      BY <2>3 DEF RefillScan, AtEntry, roster
    <2>4. CASE RefillLoad
      BY <2>4 DEF RefillLoad, AtEntry, roster, lock
    <2> QED
      BY <1>2, <2>2, <2>3, <2>4 DEF RefillStep
  <1>3. CASE ~RefillStep
    <2>1. pc[Refill] \in {"incr", "add"} => mutex = Refill
      BY <1>1 DEF LockInv, Holds
    <2> QED
      BY <1>3, <2>1, RoundKept DEF AtEntry
  <1> QED
    BY <1>2, <1>3

-----------------------------------------------------------------------------
(* The invariant holds initially, and every step preserves it.             *)

LEMMA InvInit == Init => Inv
  <1> SUFFICES ASSUME Init PROVE Inv
    OBVIOUS
  <1>1. TypeOK
    BY InitType
  <1>2. \A t \in Thread : pc[t] = IF t = Main THEN "accept"
                                  ELSE IF t = Refill THEN "sleep" ELSE "idle"
    BY DEF Init
  <1>3. pc[Main] = "accept" /\ \A c \in Client : pc[c] = "idle"
    BY <1>2, Threads DEF Thread, Caller
  <1>4. LockInv
    BY <1>2 DEF Init, LockInv, Holds
  <1>40. AtEntry
    BY <1>2, Threads DEF AtEntry, Thread
  <1>5. Listed = {} /\ Shape
    BY Numbers DEF Init, Listed, Shape
  <1>6. Waiting
    BY DEF Init, Waiting
  <1>7. Life /\ Accepting /\ Enrolled
    BY <1>3 DEF Init, Life, Accepting, Enrolled, Joining, ClientLabel, MainLabel
  <1>8. \A t \in Caller : ~Leaving(t)
    BY <1>3 DEF Leaving, Caller
  <1>9. Alive /\ RosterComplete
    BY <1>3, <1>5, <1>8 DEF Alive, RosterComplete, Served
  <1> QED
    BY <1>1, <1>4, <1>40, <1>5, <1>6, <1>7, <1>9 DEF Inv, Control

LEMMA InvStep == Inv /\ [Next]_vars => Inv'
  <1> SUFFICES ASSUME Inv, [Next]_vars PROVE Inv'
    OBVIOUS
  <1>1. TypeOK /\ LockInv /\ AtEntry /\ Shape /\ Control
    BY DEF Inv
  <1>2. TypeOK'
    BY <1>1, StepType
  <1>3. CASE UNCHANGED vars
    BY <1>1, <1>2, <1>3
    DEF Inv, vars, roster, lock, locals, heap, net, LockInv, Holds, AtEntry, Shape, Control, Waiting,
        Life, Accepting, Enrolled, Joining, Alive, RosterComplete, Served, Leaving, Subject, Listed
  <1>4. CASE Next
    <2>1. LockInv' /\ AtEntry' /\ ~crashed
      BY <1>1, <1>4, StepLock, StepEntry DEF Next
    <2>2. CASE \E t \in Caller : Remove(t)
      BY <1>1, <2>1, <2>2, RemoveControl, <1>2 DEF Inv
    <2>3. CASE Register
      BY <1>1, <2>1, <2>3, RegisterControl, <1>2 DEF Inv
    <2>4. ASSUME ~(\E t \in Caller : Remove(t)), ~Register
          PROVE  Shape'
      <3> SUFFICES UNCHANGED <<clients, client_n>>
        BY <1>1 DEF Shape
      <3>1. ASSUME NEW t \in Caller, Call(t) PROVE UNCHANGED <<clients, client_n>>
        BY <2>4, <3>1 DEF Call, BeginBroadcast, SendNext, EndBroadcast, Close, roster
      <3>2. CASE MainStep
        BY <2>4, <3>1, <3>2
        DEF MainStep, Caller, Accept, AcceptFails, Grant, CheckAbusive, Handshake, SendPk, RecvPk, Push,
            SendHdr, RecvHdr, Spawn, roster
      <3>3. ASSUME NEW c \in Client, ManageStep(c) PROVE UNCHANGED <<clients, client_n>>
        BY <3>1, <3>3
        DEF ManageStep, Caller, RecvFailed, RecvIgnored, RecvChat, RecvRename, UniqueLock,
            Compare, UniqueUnlock, Load, Store, FreeName, DupName, roster
      <3>4. CASE RefillStep
        BY <3>4 DEF RefillStep, RefillLock, RefillScan, RefillLoad, RefillAdd, RefillUnlock, roster
      <3>5. ASSUME NEW c \in Client, PeerStep(c) PROVE UNCHANGED <<clients, client_n>>
        BY <3>5 DEF PeerStep, PeerConnect, PeerRead, PeerClose, roster
      <3> QED
        BY <1>4, <3>2, <3>3, <3>4, <3>5 DEF Next
    <2>5. ASSUME ~(\E t \in Caller : Remove(t)), ~Register
          PROVE  Control'
      <3>1. ASSUME NEW t \in Caller, Call(t) PROVE Control'
        BY <1>1, <2>1, <2>5, <3>1, BroadcastControl, CloseControl DEF Call
      <3>20. CASE AcceptFails
        BY <1>1, <3>20 DEF AcceptFails, roster, locals, heap, net, Control, Waiting, Life, Accepting,
           Enrolled, Joining, Alive, RosterComplete, Served, Leaving, Subject, Listed
      <3>2. CASE MainStep
        BY <1>1, <2>1, <2>5, <3>1, <3>2, <3>20, AcceptControl, HandshakeControl, SpawnControl
        DEF MainStep, Caller
      <3>3. ASSUME NEW c \in Client, ManageStep(c) PROVE Control'
        BY <1>1, <2>1, <3>1, <3>3, ManageControl DEF Caller
      <3>4. CASE RefillStep
        BY <1>1, <3>4, RefillControl
      <3>5. ASSUME NEW c \in Client, PeerStep(c) PROVE Control'
        BY <1>1, <2>1, <3>5, PeerControl
      <3> QED
        BY <1>4, <3>2, <3>3, <3>4, <3>5 DEF Next
    <2> QED
      BY <1>2, <2>1, <2>2, <2>3, <2>4, <2>5 DEF Inv
  <1> QED
    BY <1>3, <1>4

LEMMA Invariance == Spec => []Inv
  BY InvInit, InvStep, PTL DEF Spec

-----------------------------------------------------------------------------
(* Every variable of the server keeps its type, with client_n within the   *)
(* table, in every execution up to a crash.                                *)
THEOREM TypeCorrect == Spec => []TypeOK
  <1>1. Inv => TypeOK
    BY DEF Inv
  <1> QED
    BY <1>1, Invariance, PTL

(* The swap removal of disconnect_client keeps clients[] an injective list *)
(* without holes of Clients that are not freed, however many threads come  *)
(* and go: nothing that is dereferenced under the lock has been freed.     *)
THEOREM RosterCorrect == Spec => []RosterSound
  <1>1. Inv => RosterSound
    <2> SUFFICES ASSUME Inv PROVE RosterSound
      OBVIOUS
    <2>1. \A i \in 1..client_n : clients[i] # Null /\ clients[i] \in Listed
      BY Threads DEF Inv, Shape, Listed
    <2> QED
      BY <2>1 DEF Inv, Shape, Control, Alive, RosterSound
  <1> QED
    BY <1>1, Invariance, PTL

(* Whoever is served is listed: no client is lost from the broadcasts      *)
(* because another one has left.                                           *)
THEOREM RosterCompleteCorrect == Spec => []RosterComplete
  <1>1. Inv => RosterComplete
    BY DEF Inv, Control
  <1> QED
    BY <1>1, Invariance, PTL

(* A Client struct belongs to one thread at a time, and no thread works on *)
(* one that disconnect_client has freed.                                   *)
THEOREM OwnerCorrect == Spec => []OneOwner
  <1>1. Inv => OneOwner
    <2> SUFFICES ASSUME Inv PROVE OneOwner
      OBVIOUS
    <2>1. \A c \in Client : Working(c) => mem[c] = "live"
      BY DEF Inv, Control, Life, Working
    <2>2. Working(Main) => cur \in Client /\ mem[cur] = "live" /\ ~Working(cur)
      BY DEF Inv, Control, Accepting, Working
    <2> QED
      BY <2>1, <2>2, Threads DEF OneOwner, Caller, Subject
  <1> QED
    BY <1>1, Invariance, PTL

-----------------------------------------------------------------------------
(***************************************************************************)
(* The connections of one address.  Main decides with its own connection   *)
(* counted; until it hands that one over, only other threads move, and     *)
(* they can only take served connections away.                             *)
(***************************************************************************)
\* Past is_client_abusive, and on the way to a thread of its own.
Admitted == pc[Main] \in {"sendpk", "recvpk", "push", "sendhdr", "recvhdr"} \/ Joining

Fellows(c) == {d \in Client : Served(d) /\ Addr[d] = Addr[c]}

FewServed == \A c \in Client : Cardinality(Fellows(c)) < MaxSame

Room == Admitted /\ cur \in Listed => Cardinality(Fellows(cur) \cup {cur}) < MaxSame

LEMMA Finite == IsFiniteSet(Client) /\ MaxSame \in Nat /\ MaxSame > 0
  BY ServerAssumption

LEMMA FellowsCount ==
  ASSUME NEW c \in Client, NEW S \in SUBSET (Fellows(c) \cup {c})
  PROVE  /\ IsFiniteSet(Fellows(c) \cup {c}) /\ IsFiniteSet(S)
         /\ Cardinality(S) <= Cardinality(Fellows(c) \cup {c})
         /\ Cardinality(S) \in Nat /\ Cardinality(Fellows(c) \cup {c}) \in Nat
  <1>1. Fellows(c) \cup {c} \subseteq Client
    BY DEF Fellows
  <1>2. IsFiniteSet(Fellows(c) \cup {c})
    BY <1>1, Finite, FS_Subset
  <1> QED
    BY <1>2, FS_Subset, FS_CardinalityType

\* Every listed connection of an address has an entry of its own to be counted.
LEMMA EachCounted ==
  ASSUME Inv, NEW c \in Client, c \in Listed
  PROVE  Cardinality(Fellows(c) \cup {c}) <= Cardinality(SameAddr(c))
  <1> DEFINE F == Fellows(c) \cup {c}
             E == SameAddr(c)
             at == [d \in F |-> CHOOSE i \in 1..client_n : clients[i] = d]
  <1>1. \A d \in F : d \in Listed /\ Addr[d] = Addr[c]
    BY DEF Inv, Control, RosterComplete, Fellows
  <1>2. \A d \in F : at[d] \in 1..client_n /\ clients[at[d]] = d
    BY <1>1 DEF Listed
  <1>3. at \in [F -> E]
    BY <1>1, <1>2 DEF SameAddr
  <1>4. \A d, e \in F : at[d] = at[e] => d = e
    BY <1>2
  <1>5. IsFiniteSet(E) /\ Cardinality(E) \in Nat
    <2>1. E \in SUBSET (1..client_n) /\ client_n \in Int /\ 1 \in Int
      BY DEF SameAddr, Inv, TypeOK
    <2>2. IsFiniteSet(1..client_n)
      BY <2>1, FS_Interval
    <2> QED
      BY <2>1, <2>2, FS_Subset, FS_CardinalityType
  <1>6. IsFiniteSet(F) /\ Cardinality(F) \in Nat
    BY FellowsCount
  <1>7. ~(Cardinality(E) < Cardinality(F))
    <2> SUFFICES ASSUME Cardinality(E) < Cardinality(F) PROVE FALSE
      OBVIOUS
    <2> HIDE DEF F, E, at
    <2> QED
      BY <1>3, <1>4, <1>5, <1>6, FS_PigeonHole
  <1> QED
    BY <1>5, <1>6, <1>7

\* Nobody becomes served but by being handed over.
LEMMA ServedKept ==
  ASSUME Inv, Next, NEW d \in Client, Served(d)'
  PROVE  Served(d) \/ (Spawn /\ d = cur)
  <1>1. TypeOK /\ Main \in Thread /\ Refill \in Thread /\ Client \subseteq Thread /\ d # Main
    BY Threads DEF Inv, Thread, Caller
  <1>2. Refill # d
    BY Threads
  <1>3. ASSUME UNCHANGED <<pc, out>> PROVE Served(d)
    BY <1>3 DEF Served, Leaving
  <1>4. ASSUME pc'[d] = pc[d], out'[d] = out[d] PROVE Served(d)
    BY <1>4 DEF Served, Leaving
  <1>5. ASSUME NEW t, NEW v, out' = [out EXCEPT ![t] = v], t # d PROVE out'[d] = out[d]
    BY <1>1, <1>5 DEF TypeOK, Caller
  <1>6. ASSUME NEW t, NEW v, pc' = [pc EXCEPT ![t] = v], t # d PROVE pc'[d] = pc[d]
    BY <1>1, <1>6 DEF TypeOK
  <1>7. CASE Spawn
    <2>1. CASE d # cur
      <3>1. pc'[d] = pc[d]
        BY <1>1, <1>7, <2>1 DEF Spawn, TypeOK
      <3>2. out'[d] = out[d]
        BY <1>1, <1>5, <1>7 DEF Spawn
      <3> QED
        BY <1>4, <3>1, <3>2
    <2> QED
      BY <1>7, <2>1
  <1>70. ASSUME NEW t, Call(t), t # d PROVE pc'[d] = pc[d] /\ out'[d] = out[d]
    <2>1. pc'[d] = pc[d]
      <3>1. ASSUME NEW l, Goto(t, l) PROVE pc'[d] = pc[d]
        BY <1>6, <1>70, <3>1 DEF Goto
      <3>2. CASE SendNext(t)
        BY <3>2 DEF SendNext
      <3>3. CASE ~SendNext(t)
        BY <1>70, <3>1, <3>3 DEF Call, BeginBroadcast, EndBroadcast, Remove, Close, Announce
      <3> QED
        BY <3>2, <3>3
    <2>2. out'[d] = out[d]
      BY <1>5, <1>70
      DEF Call, BeginBroadcast, SendNext, EndBroadcast, Remove, Close, Announce, locals, heap, net
    <2> QED
      BY <2>1, <2>2
  <1>8. CASE MainStep /\ ~Spawn
    <2>1. CASE Call(Main)
      BY <1>1, <1>4, <1>70, <2>1
    <2>2. CASE ~Call(Main)
      <3>1. pc'[d] = pc[d]
        BY <1>1, <1>6, <1>8, <2>2
        DEF MainStep, Accept, AcceptFails, Register, Grant, CheckAbusive, Handshake, SendPk, RecvPk, Push,
            SendHdr, RecvHdr, Goto, Announce
      <3>2. out'[d] = out[d]
        BY <1>1, <1>5, <1>8, <2>2
        DEF MainStep, Accept, AcceptFails, Register, Grant, CheckAbusive, Handshake, SendPk, RecvPk, Push,
            SendHdr, RecvHdr, Announce, locals, heap, net
      <3> QED
        BY <1>4, <3>1, <3>2
    <2> QED
      BY <2>1, <2>2
  <1>9. CASE RefillStep
    <2>1. pc'[d] = pc[d] /\ out'[d] = out[d]
      BY <1>1, <1>2, <1>6, <1>9
      DEF RefillStep, RefillLock, RefillScan, RefillLoad, RefillAdd, RefillUnlock, Goto, locals
    <2> QED
      BY <1>4, <2>1
  <1>10. ASSUME NEW c \in Client, PeerStep(c) PROVE Served(d)
    BY <1>3, <1>10 DEF PeerStep, PeerConnect, PeerRead, PeerClose, locals
  <1>11. ASSUME NEW c \in Client, ManageStep(c), c # d PROVE Served(d)
    <2>1. CASE Call(c)
      BY <1>4, <1>11, <1>70, <2>1
    <2>2. CASE ~Call(c)
      <3>1. pc'[d] = pc[d]
        BY <1>6, <1>11, <2>2
        DEF ManageStep, RecvFailed, RecvIgnored, RecvChat, RecvRename, UniqueLock, Compare,
            UniqueUnlock, Load, Store, FreeName, DupName, Goto, Announce
      <3>2. out'[d] = out[d]
        BY <1>5, <1>11, <2>2
        DEF ManageStep, RecvFailed, RecvIgnored, RecvChat, RecvRename, UniqueLock, Compare,
            UniqueUnlock, Load, Store, FreeName, DupName, Announce, locals, heap, net
      <3> QED
        BY <1>4, <3>1, <3>2
    <2> QED
      BY <2>1, <2>2
  <1>12. CASE ManageStep(d)
    <2> SUFFICES ASSUME Leaving(d) PROVE FALSE
      BY <1>12
      DEF Served, ManageStep, RecvFailed, RecvIgnored, RecvChat, RecvRename, UniqueLock,
          Compare, UniqueUnlock, Load, Store, FreeName, DupName, Call, BeginBroadcast,
          SendNext, EndBroadcast, Remove, Close
    <2>1. ASSUME NEW l, Goto(d, l) PROVE pc'[d] = l
      BY <1>1, <2>1 DEF Goto, TypeOK
    <2>2. BeginBroadcast(d) \/ SendNext(d) \/ EndBroadcast(d) \/ Close(d)
      BY <1>12
      DEF Leaving, ManageStep, RecvFailed, RecvIgnored, RecvChat, RecvRename, UniqueLock,
          Compare, UniqueUnlock, Load, Store, FreeName, DupName, Call, Remove
    <2>3. CASE BeginBroadcast(d) \/ SendNext(d)
      BY <2>1, <2>3 DEF BeginBroadcast, SendNext, Leaving, Served, locals
    <2>4. CASE EndBroadcast(d)
      <3>1. out[d].kind = "left"
        BY <2>4 DEF EndBroadcast, Leaving
      <3>2. CASE out' = [out EXCEPT ![d] = [kind |-> out[d].kind, part |-> "body"]]
                  /\ Goto(d, "bcast")
        <4>1. out'[d].kind = "left" /\ pc'[d] = "bcast"
          BY <1>1, <2>1, <3>1, <3>2 DEF TypeOK, Caller
        <4> QED
          BY <4>1 DEF Leaving, Served
      <3>3. CASE Goto(d, AfterNotice(out[d].kind))
        BY <2>1, <3>1, <3>3 DEF AfterNotice, Leaving, Served
      <3> QED
        BY <2>4, <3>2, <3>3 DEF EndBroadcast
    <2>5. CASE Close(d)
      BY <1>1, <2>1, <2>5 DEF Close, AfterClose, Served
    <2> QED
      BY <2>2, <2>3, <2>4, <2>5
  <1> QED
    BY <1>7, <1>8, <1>9, <1>10, <1>11, <1>12 DEF Next

\* A connection is admitted by CheckAbusive alone.
LEMMA AdmittedKept ==
  ASSUME Inv, Next, ~CheckAbusive, Admitted', cur' \in Listed'
  PROVE  Admitted /\ cur' = cur /\ cur \in Listed
  <1> USE DEF Inv
  <1>1. TypeOK /\ Main \in Thread /\ Main \in Caller /\ Client \subseteq Caller
    BY DEF Thread, Caller
  <1>2. ASSUME NEW l, Goto(Main, l) PROVE pc'[Main] = l
    BY <1>1, <1>2 DEF Goto, TypeOK
  <1>3. ASSUME NEW l, NEW t, Goto(t, l), t # Main PROVE pc'[Main] = pc[Main]
    BY <1>1, <1>3 DEF Goto, TypeOK
  <1>4. ASSUME NEW v, NEW t, out' = [out EXCEPT ![t] = v], t # Main PROVE out'[Main] = out[Main]
    BY <1>1, <1>4 DEF TypeOK
  <1>5. ASSUME NEW v, out' = [out EXCEPT ![Main] = v] PROVE out'[Main] = v
    BY <1>1, <1>5 DEF TypeOK
  <1>6. ~Accept /\ ~Register /\ ~Grant /\ ~Spawn
    <2>1. ~Accept /\ ~Register /\ ~Grant
      BY <1>2 DEF Accept, Register, Grant, Admitted, Joining
    <2>2. ASSUME Spawn PROVE FALSE
      <3>1. pc'[Main] = "accept"
        BY <1>1, <2>2, Threads DEF Spawn, TypeOK, Control, Accepting
      <3> QED
        BY <3>1 DEF Admitted, Joining
    <2> QED
      BY <2>1, <2>2
  <1>7. \A t \in Caller : Remove(t) => Listed' \subseteq Listed
    BY UnlistShape DEF Remove, Listed
  <1>8. cur' = cur /\ Listed' \subseteq Listed
    <2>1. cur' = cur
      BY <1>6
      DEF Next, MainStep, AcceptFails, CheckAbusive, Handshake, SendPk, RecvPk, Push, SendHdr, RecvHdr,
          RefillStep, RefillLock, RefillScan, RefillLoad, RefillAdd, RefillUnlock,
          PeerStep, PeerConnect, PeerRead, PeerClose,
          ManageStep, RecvFailed, RecvIgnored, RecvChat, RecvRename, UniqueLock, Compare,
          UniqueUnlock, Load, Store, FreeName, DupName, Call, BeginBroadcast, SendNext,
          EndBroadcast, Remove, Close, locals
    <2>2. (\E t \in Caller : Remove(t)) \/ UNCHANGED <<clients, client_n>>
      BY <1>1, <1>6
      DEF Next, MainStep, AcceptFails, CheckAbusive, Handshake, SendPk, RecvPk, Push, SendHdr, RecvHdr,
          RefillStep, RefillLock, RefillScan, RefillLoad, RefillAdd, RefillUnlock,
          PeerStep, PeerConnect, PeerRead, PeerClose,
          ManageStep, RecvFailed, RecvIgnored, RecvChat, RecvRename, UniqueLock, Compare,
          UniqueUnlock, Load, Store, FreeName, DupName, Call, BeginBroadcast, SendNext,
          EndBroadcast, Close, roster
    <2> QED
      BY <1>7, <2>1, <2>2 DEF Listed
  <1>9. CASE pc'[Main] = pc[Main] /\ out'[Main] = out[Main]
    BY <1>8, <1>9 DEF Admitted, Joining
  <1>10. CASE Handshake
    BY <1>8, <1>10 DEF Handshake, SendPk, RecvPk, Push, SendHdr, RecvHdr, Admitted
  <1>11. CASE Call(Main)
    <2>1. ~Remove(Main) /\ ~Close(Main)
      BY <1>2, <1>5 DEF Remove, Close, AfterClose, Announce, Admitted, Joining
    <2>2. CASE BeginBroadcast(Main) \/ SendNext(Main)
      BY <1>2, <1>8, <2>2 DEF BeginBroadcast, SendNext, Admitted, Joining, locals
    <2>3. CASE EndBroadcast(Main)
      <3>1. out[Main].kind \in {"join", "left"}
        BY <2>3 DEF EndBroadcast, Control, Accepting
      <3>2. out[Main].kind = "join"
        <4>1. CASE out' = [out EXCEPT ![Main] = [kind |-> out[Main].kind, part |-> "body"]]
                    /\ Goto(Main, "bcast")
          BY <1>2, <1>5, <4>1 DEF Admitted, Joining
        <4>2. CASE Goto(Main, AfterNotice(out[Main].kind))
          BY <1>2, <3>1, <4>2 DEF AfterNotice, Admitted, Joining
        <4> QED
          BY <2>3, <4>1, <4>2 DEF EndBroadcast
      <3> QED
        BY <1>8, <2>3, <3>2 DEF EndBroadcast, Admitted, Joining
    <2> QED
      BY <1>11, <2>1, <2>2, <2>3 DEF Call
  <1>12. CASE RefillStep \/ \E c \in Client : PeerStep(c)
    BY <1>3, <1>9, <1>12, Threads
    DEF RefillStep, RefillLock, RefillScan, RefillLoad, RefillAdd, RefillUnlock, PeerStep, PeerConnect,
        PeerRead, PeerClose, locals
  <1>13. ASSUME NEW c \in Client, ManageStep(c)
         PROVE  pc'[Main] = pc[Main] /\ out'[Main] = out[Main]
    <2>1. c # Main
      BY Threads
    <2>2. pc'[Main] = pc[Main]
      BY <1>3, <1>13, <2>1
      DEF ManageStep, RecvFailed, RecvIgnored, RecvChat, RecvRename, UniqueLock, Compare,
          UniqueUnlock, Load, Store, FreeName, DupName, Call, BeginBroadcast, SendNext,
          EndBroadcast, Remove, Close, Announce
    <2>3. out'[Main] = out[Main]
      BY <1>4, <1>13, <2>1
      DEF ManageStep, RecvFailed, RecvIgnored, RecvChat, RecvRename, UniqueLock, Compare,
          UniqueUnlock, Load, Store, FreeName, DupName, Call, BeginBroadcast, SendNext,
          EndBroadcast, Remove, Close, Announce, locals, heap, net
    <2> QED
      BY <2>2, <2>3
  <1>14. CASE AcceptFails
    BY <1>9, <1>14 DEF AcceptFails, locals
  <1> QED
    BY <1>6, <1>9, <1>10, <1>11, <1>12, <1>13, <1>14 DEF Next, MainStep

LEMMA LimitStep ==
  ASSUME Inv, FewServed, Room, Next
  PROVE  FewServed' /\ Room'
  <1> USE DEF Inv
  <1>1. CASE Spawn
    <2>1. cur \in Client /\ cur \in Listed
      BY <1>1 DEF Spawn, Control, Accepting, Enrolled, Joining, Next
    <2>2. Cardinality(Fellows(cur) \cup {cur}) < MaxSame
      BY <1>1, <2>1 DEF Room, Admitted, Joining, Spawn
    <2>3. ASSUME NEW c \in Client PROVE Cardinality(Fellows(c)') < MaxSame
      <3>1. CASE Addr[c] = Addr[cur]
        <4>1. Fellows(c)' \in SUBSET (Fellows(cur) \cup {cur})
          BY <3>1, ServedKept DEF Fellows
        <4> QED
          BY <2>1, <2>2, <4>1, FellowsCount, Finite
      <3>2. CASE Addr[c] # Addr[cur]
        <4>1. Fellows(c)' \in SUBSET Fellows(c)
          BY <3>2, ServedKept DEF Fellows
        <4>2. Cardinality(Fellows(c)) < MaxSame
          BY DEF FewServed
        <4>3. IsFiniteSet(Fellows(c)) /\ Cardinality(Fellows(c)) \in Nat
          BY FellowsCount
        <4>4. Cardinality(Fellows(c)') <= Cardinality(Fellows(c)) /\ Cardinality(Fellows(c)') \in Nat
          BY <4>1, <4>3, FS_Subset, FS_CardinalityType
        <4> QED
          BY <4>2, <4>3, <4>4, Finite
      <3> QED
        BY <3>1, <3>2
    <2>4. ~Admitted'
      BY <1>1, <2>1, Threads DEF Spawn, TypeOK, Thread, Caller, Admitted, Joining
    <2> QED
      BY <2>3, <2>4 DEF FewServed, Room
  <1>2. CASE ~Spawn
    <2>1. \A c \in Client : Fellows(c)' \in SUBSET Fellows(c)
      BY <1>2, ServedKept DEF Fellows
    <2>2. ASSUME NEW c \in Client PROVE Cardinality(Fellows(c)') < MaxSame
      <3>1. Cardinality(Fellows(c)) < MaxSame
        BY DEF FewServed
      <3>2. IsFiniteSet(Fellows(c)) /\ Cardinality(Fellows(c)) \in Nat
        BY FellowsCount
      <3>3. Cardinality(Fellows(c)') <= Cardinality(Fellows(c)) /\ Cardinality(Fellows(c)') \in Nat
        BY <2>1, <3>2, FS_Subset, FS_CardinalityType
      <3> QED
        BY <3>1, <3>2, <3>3, Finite
    <2>3. ASSUME Admitted', cur' \in Listed'
          PROVE  Cardinality(Fellows(cur)' \cup {cur'}) < MaxSame
      <3>1. cur \in Client /\ cur' = cur /\ Cardinality(Fellows(cur) \cup {cur}) < MaxSame
        <4>1. CASE CheckAbusive
          <5>1. cur \in Client /\ cur' = cur /\ Listed' = Listed
            BY <4>1 DEF CheckAbusive, Control, Accepting, roster, locals, Listed
          <5>2. ~Abusive(cur)
            BY <2>3, <4>1 DEF CheckAbusive, Goto, TypeOK, Thread, Caller, Admitted, Joining
          <5>3. Cardinality(Fellows(cur) \cup {cur}) <= Cardinality(SameAddr(cur))
            BY <2>3, <5>1, EachCounted
          <5>4. Cardinality(SameAddr(cur)) \in Nat
            <6>1. SameAddr(cur) \in SUBSET (1..client_n) /\ client_n \in Int /\ 1 \in Int
              BY DEF SameAddr, TypeOK
            <6>2. IsFiniteSet(1..client_n)
              BY <6>1, FS_Interval
            <6> QED
              BY <6>1, <6>2, FS_Subset, FS_CardinalityType
          <5>5. Cardinality(Fellows(cur) \cup {cur}) \in Nat
            <6>1. Fellows(cur) \cup {cur} \in SUBSET (Fellows(cur) \cup {cur})
              OBVIOUS
            <6> QED
              BY <5>1, <6>1, FellowsCount
          <5>6. Cardinality(SameAddr(cur)) < MaxSame
            BY <5>2, <5>4, Finite DEF Abusive
          <5>7. Cardinality(Fellows(cur) \cup {cur}) < MaxSame
            BY <5>3, <5>4, <5>5, <5>6, Finite
          <5> QED
            BY <5>1, <5>7
        <4>2. CASE ~CheckAbusive
          <5>1. Admitted /\ cur' = cur /\ cur \in Listed
            BY <2>3, <4>2, AdmittedKept
          <5>2. cur \in Client
            BY <5>1 DEF Admitted, Joining, Control, Accepting
          <5> QED
            BY <5>1, <5>2 DEF Room
        <4> QED
          BY <4>1, <4>2
      <3>2. Fellows(cur)' \in SUBSET Fellows(cur)
        BY <1>2, <3>1, ServedKept DEF Fellows
      <3>3. Fellows(cur)' \cup {cur'} \in SUBSET (Fellows(cur) \cup {cur})
        BY <3>1, <3>2
      <3> QED
        BY <3>1, <3>3, FellowsCount, Finite
    <2>4. FewServed'
      BY <2>2 DEF FewServed
    <2>5. Room'
      BY <2>3 DEF Room
    <2> QED
      BY <2>4, <2>5
  <1> QED
    BY <1>1, <1>2

(* However connections come, go and are refused, and whatever the accept   *)
(* thread and the departures do in between, MAX_SAME_CLIENTS connections   *)
(* of one address are never exceeded (nor reached: is_client_abusive       *)
(* counts the connection it decides about).                                *)
THEOREM IpLimitCorrect == Spec => []IpLimit
  <1>1. Init => FewServed /\ Room
    <2> SUFFICES ASSUME Init PROVE FewServed /\ Room
      OBVIOUS
    <2>1. Main \in Thread /\ Client \subseteq Thread
      BY DEF Thread, Caller
    <2>2. pc[Main] = "accept" /\ \A c \in Client : pc[c] = "idle"
      BY <2>1, Threads DEF Init
    <2>3. \A c \in Client : Fellows(c) = {}
      BY <2>2 DEF Served, Fellows
    <2> QED
      BY <2>2, <2>3, FS_EmptySet, Finite DEF FewServed, Room, Admitted, Joining
  <1>2. Inv /\ FewServed /\ Room /\ [Next]_vars => FewServed' /\ Room'
    <2> SUFFICES ASSUME Inv, FewServed, Room, [Next]_vars PROVE FewServed' /\ Room'
      OBVIOUS
    <2>1. CASE UNCHANGED vars
      BY <2>1
      DEF vars, roster, locals, FewServed, Room, Admitted, Joining, Fellows, Served, Leaving, Listed
    <2>2. CASE Next
      BY <2>2, LimitStep
    <2> QED
      BY <2>1, <2>2
  <1>3. FewServed => IpLimit
    <2> SUFFICES ASSUME FewServed, NEW c \in Client
                 PROVE  Cardinality({d \in Client : Served(d) /\ Addr[d] = Addr[c]}) <= MaxSame
      BY DEF IpLimit
    <2>1. Cardinality(Fellows(c)) < MaxSame
      BY DEF FewServed
    <2>2. Fellows(c) \in SUBSET (Fellows(c) \cup {c})
      OBVIOUS
    <2>3. Cardinality(Fellows(c)) \in Nat
      BY <2>2, FellowsCount
    <2>4. Cardinality(Fellows(c)) <= MaxSame
      BY <2>1, <2>3, Finite
    <2> QED
      BY <2>4 DEF Fellows
  <1> QED
    BY <1>1, <1>2, <1>3, Invariance, PTL DEF Spec
=============================================================================
