---------------------------- MODULE OrderProofs ----------------------------
(***************************************************************************)
(* Proofs about the record of what the server broadcasts, for any number   *)
(* of connections and any length of the record: nobody is heard of before  *)
(* it has been announced nor after it has left, and the array under its    *)
(* mutex is a totally ordered multicast.  The record changes nothing of    *)
(* the server, so all that is proved of the server is at hand.             *)
(***************************************************************************)
EXTENDS Order, ServerProofs

-----------------------------------------------------------------------------
(* The server under the record.                                            *)

LEMMA ServerInvariance == OSpec => []Inv
  <1>1. OInit => Init
    BY DEF OInit
  <1>2. [ONext]_ovars => [Next]_vars
    BY DEF ONext, ovars
  <1> QED
    BY <1>1, <1>2, InvInit, InvStep, PTL DEF OSpec

\* A step of broadcast_clients or disconnect_client moves the thread it is of.
LEMMA CallMoves ==
  ASSUME NEW t, Call(t)
  PROVE  pc' = pc \/ \E l : pc' = [pc EXCEPT ![t] = l]
  <1>1. ASSUME NEW l, Goto(t, l) PROVE pc' = [pc EXCEPT ![t] = l]
    BY <1>1 DEF Goto
  <1>2. CASE BeginBroadcast(t)
    BY <1>1, <1>2 DEF BeginBroadcast
  <1>3. CASE SendNext(t)
    BY <1>3 DEF SendNext
  <1>4. CASE EndBroadcast(t)
    BY <1>1, <1>4 DEF EndBroadcast
  <1>5. CASE Remove(t)
    BY <1>1, <1>5 DEF Remove, Announce
  <1>6. CASE Close(t)
    BY <1>1, <1>6 DEF Close
  <1> QED
    BY <1>2, <1>3, <1>4, <1>5, <1>6 DEF Call

\* The client_manage thread of a connection moves by its own steps, once Main
\* has handed the connection over.
LEMMA ClientStill ==
  ASSUME TypeOK, Next, NEW d \in Client, ~ManageStep(d), ~(Spawn /\ d = cur)
  PROVE  pc'[d] = pc[d] /\ out'[d] = out[d]
  <1>1. /\ d \in Thread /\ d \in Caller /\ d # Main /\ d # Refill
        /\ pc \in [Thread -> Label] /\ out \in [Caller -> Notice]
    BY Threads DEF TypeOK, Thread, Caller
  <1>2. ASSUME NEW t, NEW v, pc' = [pc EXCEPT ![t] = v], t # d PROVE pc'[d] = pc[d]
    BY <1>1, <1>2
  <1>3. ASSUME NEW t, NEW v, out' = [out EXCEPT ![t] = v], t # d PROVE out'[d] = out[d]
    BY <1>1, <1>3
  <1>4. ASSUME NEW t, Call(t), t # d PROVE pc'[d] = pc[d] /\ out'[d] = out[d]
    <2>1. pc'[d] = pc[d]
      BY <1>2, <1>4, CallMoves
    <2>2. out'[d] = out[d]
      BY <1>3, <1>4
      DEF Call, BeginBroadcast, SendNext, EndBroadcast, Remove, Close, Announce, locals
    <2> QED
      BY <2>1, <2>2
  <1>5. CASE Spawn
    <2>1. d # cur
      BY <1>5
    <2> QED
      BY <1>1, <1>5, <2>1 DEF Spawn
  <1>6. CASE MainStep /\ ~Spawn /\ ~Call(Main)
    <2>1. pc'[d] = pc[d]
      BY <1>1, <1>2, <1>6
      DEF MainStep, AcceptFails, Accept, Register, Grant, CheckAbusive, Handshake, SendPk, RecvPk, Push,
          SendHdr, RecvHdr, Goto, Announce
    <2>2. out'[d] = out[d]
      BY <1>1, <1>3, <1>6
      DEF MainStep, AcceptFails, Accept, Register, Grant, CheckAbusive, Handshake, SendPk, RecvPk, Push,
          SendHdr, RecvHdr, Announce, locals
    <2> QED
      BY <2>1, <2>2
  <1>7. ASSUME NEW c \in Client, ManageStep(c), ~Call(c)
        PROVE  pc'[d] = pc[d] /\ out'[d] = out[d]
    <2>1. c # d
      BY <1>7
    <2>2. pc'[d] = pc[d]
      BY <1>2, <1>7, <2>1
      DEF ManageStep, RecvFailed, RecvIgnored, RecvChat, RecvRename, UniqueLock, Compare,
          UniqueUnlock, Load, Store, FreeName, DupName, Goto, Announce
    <2>3. out'[d] = out[d]
      BY <1>3, <1>7, <2>1
      DEF ManageStep, RecvFailed, RecvIgnored, RecvChat, RecvRename, UniqueLock, Compare,
          UniqueUnlock, Load, Store, FreeName, DupName, Announce, locals
    <2> QED
      BY <2>2, <2>3
  <1>8. CASE RefillStep
    BY <1>1, <1>2, <1>8
    DEF RefillStep, RefillLock, RefillScan, RefillLoad, RefillAdd, RefillUnlock, Goto, locals
  <1>9. ASSUME NEW c \in Client, PeerStep(c) PROVE pc'[d] = pc[d] /\ out'[d] = out[d]
    BY <1>9 DEF PeerStep, PeerConnect, PeerRead, PeerClose, locals
  <1>10. ASSUME NEW c \in Client, Call(c) PROVE pc'[d] = pc[d] /\ out'[d] = out[d]
    BY <1>4, <1>10 DEF ManageStep
  <1> QED
    BY <1>1, <1>4, <1>5, <1>6, <1>7, <1>8, <1>9, <1>10 DEF Next

\* The accept thread moves by its own steps.
LEMMA MainStill ==
  ASSUME TypeOK, Next, ~MainStep
  PROVE  pc'[Main] = pc[Main] /\ out'[Main] = out[Main] /\ cur' = cur
  <1>1. /\ Main \in Thread /\ Main \in Caller /\ Main \notin Client /\ Main # Refill
        /\ pc \in [Thread -> Label] /\ out \in [Caller -> Notice]
    BY Threads DEF TypeOK, Thread, Caller
  <1>2. ASSUME NEW t, NEW v, pc' = [pc EXCEPT ![t] = v], t # Main PROVE pc'[Main] = pc[Main]
    BY <1>1, <1>2
  <1>3. ASSUME NEW t, NEW v, out' = [out EXCEPT ![t] = v], t # Main PROVE out'[Main] = out[Main]
    BY <1>1, <1>3
  <1>4. ASSUME NEW c \in Client, ManageStep(c)
        PROVE  pc'[Main] = pc[Main] /\ out'[Main] = out[Main] /\ cur' = cur
    <2>1. c # Main
      BY <1>1
    <2>2. pc'[Main] = pc[Main]
      <3>1. CASE Call(c)
        BY <1>2, <2>1, <3>1, CallMoves
      <3>2. CASE ~Call(c)
        BY <1>2, <1>4, <2>1, <3>2
        DEF ManageStep, RecvFailed, RecvIgnored, RecvChat, RecvRename, UniqueLock, Compare,
            UniqueUnlock, Load, Store, FreeName, DupName, Goto, Announce
      <3> QED
        BY <3>1, <3>2
    <2>3. out'[Main] = out[Main]
      BY <1>3, <1>4, <2>1
      DEF ManageStep, RecvFailed, RecvIgnored, RecvChat, RecvRename, UniqueLock, Compare,
          UniqueUnlock, Load, Store, FreeName, DupName, Announce, locals,
          Call, BeginBroadcast, SendNext, EndBroadcast, Remove, Close
    <2>4. cur' = cur
      BY <1>4
      DEF ManageStep, RecvFailed, RecvIgnored, RecvChat, RecvRename, UniqueLock, Compare,
          UniqueUnlock, Load, Store, FreeName, DupName, locals,
          Call, BeginBroadcast, SendNext, EndBroadcast, Remove, Close
    <2> QED
      BY <2>2, <2>3, <2>4
  <1>5. CASE RefillStep
    BY <1>1, <1>2, <1>5
    DEF RefillStep, RefillLock, RefillScan, RefillLoad, RefillAdd, RefillUnlock, Goto, locals
  <1>6. ASSUME NEW c \in Client, PeerStep(c)
        PROVE  pc'[Main] = pc[Main] /\ out'[Main] = out[Main] /\ cur' = cur
    BY <1>6 DEF PeerStep, PeerConnect, PeerRead, PeerClose, locals
  <1> QED
    BY <1>4, <1>5, <1>6 DEF Next

\* A connection that is not accepted yet was not accepted before.
LEMMA UnusedKept ==
  ASSUME Inv, Next, NEW c \in Client, mem'[c] = "none"
  PROVE  mem[c] = "none"
  <1>1. ASSUME NEW d, NEW v, mem' = [mem EXCEPT ![d] = v], v # "none"
        PROVE  mem[c] = "none"
    BY <1>1 DEF Inv, TypeOK
  <1>2. CASE UNCHANGED mem
    BY <1>2
  <1>3. ASSUME NEW t, Close(t) PROVE mem' = [mem EXCEPT ![Subject(t)] = "freed"]
    BY <1>3 DEF Close
  <1>4. CASE Accept \/ \E t \in Caller : Close(t)
    BY <1>1, <1>3, <1>4 DEF Accept
  <1>5. CASE ~Accept /\ ~\E t \in Caller : Close(t)
    <2>1. ASSUME NEW t \in Caller, Call(t) PROVE UNCHANGED mem
      BY <1>5, <2>1 DEF Call, BeginBroadcast, SendNext, EndBroadcast, Remove, heap
    <2>2. CASE MainStep
      BY <1>5, <2>1, <2>2
      DEF Caller, MainStep, AcceptFails, Register, Grant, CheckAbusive, Handshake, SendPk, RecvPk, Push,
          SendHdr, RecvHdr, Spawn, heap
    <2>3. ASSUME NEW d \in Client, ManageStep(d) PROVE UNCHANGED mem
      BY <2>1, <2>3
      DEF Caller, ManageStep, RecvFailed, RecvIgnored, RecvChat, RecvRename, UniqueLock,
          Compare, UniqueUnlock, Load, Store, FreeName, DupName, heap
    <2>4. CASE RefillStep
      BY <2>4 DEF RefillStep, RefillLock, RefillScan, RefillLoad, RefillAdd, RefillUnlock, heap
    <2>5. ASSUME NEW d \in Client, PeerStep(d) PROVE UNCHANGED mem
      BY <2>5 DEF PeerStep, PeerConnect, PeerRead, PeerClose, heap
    <2> QED
      BY <1>2, <2>2, <2>3, <2>4, <2>5 DEF Next
  <1> QED
    BY <1>4, <1>5

\* A thread runs because it ran, or because Main has just handed over to it.
LEMMA RunningKept ==
  ASSUME TypeOK, Next, NEW d \in Client, pc'[d] \notin {"idle", "done"}
  PROVE  pc[d] \notin {"idle", "done"} \/ (Spawn /\ d = cur)
  <1>1. CASE ManageStep(d)
    BY <1>1
    DEF ManageStep, RecvFailed, RecvIgnored, RecvChat, RecvRename, UniqueLock, Compare,
        UniqueUnlock, Load, Store, FreeName, DupName,
        Call, BeginBroadcast, SendNext, EndBroadcast, Remove, Close
  <1>2. CASE ~ManageStep(d)
    BY <1>2, ClientStill
  <1> QED
    BY <1>1, <1>2

-----------------------------------------------------------------------------
(* What a step adds to the record.                                         *)

LEMMA HalfFields ==
  ASSUME NEW t
  PROVE  HalfOf(t).kind = out[t].kind /\ HalfOf(t).part = out[t].part /\ HalfOf(t).of = Subject(t)
  BY DEF HalfOf

\* Who announces has something to announce, on behalf of a connection.
LEMMA HalfType ==
  ASSUME Inv, NEW t \in Caller, pc[t] \in {"bcast", "send"}
  PROVE  HalfOf(t) \in Half
  <1>1. out[t] \in Notice
    BY DEF Inv, TypeOK
  <1>2. CASE t \in Client
    <2>1. out[t].kind \in {"chat", "rename", "left"}
      BY <1>2 DEF Inv, Control, Life
    <2>2. Subject(t) \in Client
      BY <1>2, Threads DEF Subject
    <2> QED
      BY <1>1, <2>1, <2>2 DEF HalfOf, Half, Notice
  <1>3. CASE t = Main
    <2>1. out[t].kind \in {"join", "left"} /\ cur \in Client
      BY <1>3 DEF Inv, Control, Accepting
    <2>2. Subject(t) \in Client
      BY <1>3, <2>1 DEF Subject
    <2> QED
      BY <1>1, <2>1, <2>2 DEF HalfOf, Half, Notice
  <1> QED
    BY <1>2, <1>3 DEF Caller

\* The loop of broadcast_clients is entered at its beginning.
LEMMA EntersSend ==
  ASSUME TypeOK, Next, NEW u \in Caller, pc'[u] = "send", pc[u] # "send"
  PROVE  BeginBroadcast(u)
  <1>1. u \in Thread /\ pc \in [Thread -> Label]
    BY DEF TypeOK, Thread
  <1>2. pc'[u] = "send" /\ pc[u] # "send"
    OBVIOUS
  <1>3. ASSUME NEW t, NEW l, Goto(t, l) PROVE l = "send" /\ t = u
    BY <1>1, <1>2, <1>3 DEF Goto
  <1>4. ~UNCHANGED pc
    BY <1>2
  <1>5. ASSUME NEW t, Call(t) PROVE BeginBroadcast(u)
    <2>1. ~SendNext(t)
      BY <1>4 DEF SendNext
    <2>2. ~EndBroadcast(t)
      <3>1. AfterNotice(out[t].kind) # "send"
        BY DEF AfterNotice
      <3> QED
        BY <1>3, <3>1 DEF EndBroadcast
    <2>3. ~Remove(t)
      BY <1>3 DEF Remove, Announce
    <2>4. ~Close(t)
      <3>1. AfterClose(t) # "send"
        BY DEF AfterClose
      <3> QED
        BY <1>3, <3>1 DEF Close
    <2> QED
      BY <1>3, <1>5, <2>1, <2>2, <2>3, <2>4 DEF Call, BeginBroadcast
  <1>6. ~Spawn
    BY <1>1, <1>2 DEF Spawn
  <1>7. CASE MainStep
    BY <1>3, <1>5, <1>6, <1>7
    DEF MainStep, AcceptFails, Accept, Register, Grant, CheckAbusive, Handshake, SendPk, RecvPk, Push,
        SendHdr, RecvHdr, Announce
  <1>8. ASSUME NEW c \in Client, ManageStep(c) PROVE BeginBroadcast(u)
    <2>1. ~Store(c)
      BY <1>3 DEF Store
    <2>2. ~RecvIgnored(c) /\ ~Compare(c)
      BY <1>4 DEF RecvIgnored, Compare
    <2> QED
      BY <1>3, <1>5, <1>8, <2>1, <2>2
      DEF ManageStep, RecvFailed, RecvChat, RecvRename, UniqueLock, UniqueUnlock, Load,
          FreeName, DupName, Announce
  <1>9. ~RefillStep
    <2>1. u # Refill
      BY Threads DEF Caller
    <2> QED
      BY <1>3, <1>4, <2>1 DEF RefillStep, RefillLock, RefillScan, RefillLoad, RefillAdd, RefillUnlock
  <1>10. ASSUME NEW c \in Client PROVE ~PeerStep(c)
    BY <1>4 DEF PeerStep, PeerConnect, PeerRead, PeerClose
  <1> QED
    BY <1>7, <1>8, <1>9, <1>10 DEF Next

\* The steps that the record takes for a broadcast are those of broadcast_clients.
LEMMA BroadcastingIsBegin ==
  ASSUME TypeOK, Next, NEW u \in Caller
  PROVE  Broadcasting(u) <=> BeginBroadcast(u)
  <1>1. u \in Thread /\ pc \in [Thread -> Label]
    BY DEF TypeOK, Thread
  <1>2. BeginBroadcast(u) => Broadcasting(u)
    BY <1>1 DEF BeginBroadcast, Broadcasting, Goto
  <1>3. Broadcasting(u) => BeginBroadcast(u)
    BY EntersSend DEF Broadcasting
  <1> QED
    BY <1>2, <1>3

\* One thread at most begins a broadcast, and its chunk is what is recorded.
LEMMA LogStep ==
  ASSUME TypeOK, ONext
  PROVE  \/ \E t \in Caller : BeginBroadcast(t) /\ log' = Append(log, HalfOf(t))
         \/ log' = log /\ \A t \in Caller : ~BeginBroadcast(t)
  <1>1. \A t \in Caller : Broadcasting(t) <=> BeginBroadcast(t)
    BY BroadcastingIsBegin DEF ONext
  <1>2. CASE \E t \in Caller : Broadcasting(t)
    <2> DEFINE t == CHOOSE t \in Caller : Broadcasting(t)
    <2>1. t \in Caller /\ Broadcasting(t)
      BY <1>2
    <2>2. log' = Append(log, HalfOf(t))
      BY <1>2 DEF ONext, Record
    <2> QED
      BY <1>1, <2>1, <2>2
  <1>3. CASE ~\E t \in Caller : Broadcasting(t)
    BY <1>1, <1>3 DEF ONext, Record
  <1> QED
    BY <1>2, <1>3

LEMMA Appended ==
  ASSUME NEW S, NEW l \in Seq(S), NEW h \in S
  PROVE  /\ Append(l, h) \in Seq(S) /\ Len(l) \in Nat /\ Len(Append(l, h)) = Len(l) + 1
         /\ \A i \in 1..Len(l) : Append(l, h)[i] = l[i]
         /\ Append(l, h)[Len(l) + 1] = h
  OBVIOUS
-----------------------------------------------------------------------------
(***************************************************************************)
(* The life of a connection on the record.  What has been said of a        *)
(* connection so far follows the phase it is in.                           *)
(***************************************************************************)
SaysOnly(l, c, kinds) == \A i \in 1..Len(l) : l[i].of = c => l[i].kind \in kinds

Announced(l, c) == \E i \in 1..Len(l) : l[i].of = c /\ l[i].kind = "join"

Running(c) == pc[c] \notin {"idle", "done"}

\* Main works on a connection that it has not begun to announce.
Unannounced == {"register", "grant", "abusive", "sendpk", "recvpk", "push", "sendhdr",
                "recvhdr", "remove"}

VoiceOf(c) ==
  /\ mem[c] = "none" => SaysOnly(log, c, {})
  /\ Running(c) => Announced(log, c)
  /\ Served(c) => SaysOnly(log, c, {"join", "chat", "rename"})

VoiceOfMain ==
  /\ pc[Main] \in Unannounced => SaysOnly(log, cur, {})
  /\ Joining => SaysOnly(log, cur, {"join"})
  /\ Leaving(Main) => SaysOnly(log, cur, {"left"})
  /\ Joining /\ (pc[Main] # "bcast" \/ out[Main].part = "body") => Announced(log, cur)

\* Whoever has been heard of was announced first, or was refused.
Introduced ==
  \A i \in 1..Len(log) :
    log[i].kind = "left" \/ \E k \in 1..i : log[k].of = log[i].of /\ log[k].kind = "join"

Voice ==
  /\ log \in Seq(Half)
  /\ \A c \in Client : VoiceOf(c)
  /\ VoiceOfMain
  /\ Introduced
  /\ LifeInOrder

LEMMA AppendSays ==
  ASSUME NEW l \in Seq(Half), NEW h \in Half, NEW c, NEW kinds,
         SaysOnly(l, c, kinds), h.of = c => h.kind \in kinds
  PROVE  SaysOnly(Append(l, h), c, kinds)
  <1>1. /\ Len(l) \in Nat /\ Len(Append(l, h)) = Len(l) + 1
        /\ \A i \in 1..Len(l) : Append(l, h)[i] = l[i]
        /\ Append(l, h)[Len(l) + 1] = h
    BY Appended
  <1>2. ASSUME NEW i \in 1..Len(Append(l, h)), Append(l, h)[i].of = c
        PROVE  Append(l, h)[i].kind \in kinds
    <2>1. i \in 1..Len(l) \/ i = Len(l) + 1
      BY <1>1
    <2> QED
      BY <1>1, <1>2, <2>1 DEF SaysOnly
  <1> QED
    BY <1>2 DEF SaysOnly

LEMMA AppendAnnounced ==
  ASSUME NEW l \in Seq(Half), NEW h \in Half, NEW c,
         Announced(l, c) \/ (h.of = c /\ h.kind = "join")
  PROVE  Announced(Append(l, h), c)
  <1>1. /\ Len(l) \in Nat /\ Len(Append(l, h)) = Len(l) + 1
        /\ \A i \in 1..Len(l) : Append(l, h)[i] = l[i]
        /\ Append(l, h)[Len(l) + 1] = h
    BY Appended
  <1>2. CASE Announced(l, c)
    <2>1. PICK i \in 1..Len(l) : l[i].of = c /\ l[i].kind = "join"
      BY <1>2 DEF Announced
    <2>2. i \in 1..Len(Append(l, h)) /\ Append(l, h)[i] = l[i]
      BY <1>1
    <2> QED
      BY <2>1, <2>2 DEF Announced
  <1>3. CASE h.of = c /\ h.kind = "join"
    <2>1. Len(l) + 1 \in 1..Len(Append(l, h))
      BY <1>1
    <2> QED
      BY <1>1, <1>3, <2>1 DEF Announced
  <1> QED
    BY <1>2, <1>3

\* What may be added to a record in order: "join" to nothing but "join", what a
\* client says after its "join" and before its "left", and "left" always.
LEMMA LifeAppend ==
  ASSUME log \in Seq(Half), NEW h \in Half, log' = Append(log, h), Introduced, LifeInOrder,
         h.kind = "join" => SaysOnly(log, h.of, {"join"}),
         h.kind \in {"chat", "rename"} =>
           Announced(log, h.of) /\ SaysOnly(log, h.of, {"join", "chat", "rename"})
  PROVE  Introduced' /\ LifeInOrder'
  <1> DEFINE n == Len(log) + 1
  <1>1. /\ Len(log) \in Nat /\ Len(log') = n
        /\ \A i \in 1..Len(log) : log'[i] = log[i]
        /\ log'[n] = h
    BY Appended
  <1>2. n \in 1..n /\ n > Len(log) /\ \A i \in 1..n : i # n => i \in 1..Len(log)
    BY <1>1
  <1>3. \A i \in 1..n : i # n => \A k \in 1..i : k \in 1..Len(log) /\ log'[k] = log[k]
    BY <1>1
  <1>4. h.kind \in {"join", "chat", "rename", "left"}
    BY DEF Half
  <1> HIDE DEF n
  <1>5. ASSUME NEW i \in 1..n
        PROVE  log'[i].kind = "left"
                 \/ \E k \in 1..i : log'[k].of = log'[i].of /\ log'[k].kind = "join"
    <2>1. CASE i # n
      <3>1. i \in 1..Len(log) /\ log'[i] = log[i]
        BY <1>1, <1>2, <2>1
      <3>2. log[i].kind = "left"
              \/ \E k \in 1..i : log[k].of = log[i].of /\ log[k].kind = "join"
        BY <3>1 DEF Introduced
      <3> QED
        BY <1>3, <2>1, <3>1, <3>2
    <2>2. CASE i = n /\ h.kind = "join"
      BY <1>1, <1>2, <2>2
    <2>3. CASE i = n /\ h.kind \in {"chat", "rename"}
      <3>1. PICK k \in 1..Len(log) : log[k].of = h.of /\ log[k].kind = "join"
        BY <2>3 DEF Announced
      <3>2. k \in 1..n
        BY <1>1 DEF n
      <3> QED
        BY <1>1, <2>3, <3>1, <3>2
    <2> QED
      BY <1>1, <1>4, <2>1, <2>2, <2>3
  <1>6. Introduced'
    BY <1>1, <1>5 DEF Introduced
  <1>7. ASSUME NEW i \in 1..n, NEW j \in 1..n, i < j, log'[i].of = log'[j].of
        PROVE  /\ log'[j].kind = "join" => log'[i].kind = "join"
               /\ log'[i].kind = "left" => log'[j].kind = "left"
    <2>1. i # n
      BY <1>1, <1>7 DEF n
    <2>2. i \in 1..Len(log) /\ log'[i] = log[i]
      BY <1>1, <1>2, <2>1
    <2>3. CASE j # n
      <3>1. j \in 1..Len(log) /\ log'[j] = log[j]
        BY <1>1, <1>2, <2>3
      <3> QED
        BY <1>7, <2>2, <3>1 DEF LifeInOrder
    <2>4. CASE j = n
      <3>1. log[i].of = h.of /\ log'[j] = h
        BY <1>1, <1>7, <2>2, <2>4
      <3>2. h.kind = "join" => log[i].kind = "join"
        BY <2>2, <3>1 DEF SaysOnly
      <3>3. log[i].kind = "left" => h.kind = "left"
        BY <1>4, <2>2, <3>1 DEF SaysOnly
      <3> QED
        BY <2>2, <3>1, <3>2, <3>3
    <2> QED
      BY <2>3, <2>4
  <1>8. LifeInOrder'
    <2>1. \A i \in 1..n : log'[i].kind = "join" \/ log'[i].kind = "left"
             \/ \E k \in 1..i : log'[k].of = log'[i].of /\ log'[k].kind = "join"
      BY <1>5
    <2>2. \A i \in 1..n, j \in 1..n : i < j /\ log'[i].of = log'[j].of =>
            /\ log'[j].kind = "join" => log'[i].kind = "join"
            /\ log'[i].kind = "left" => log'[j].kind = "left"
      BY <1>7
    <2>3. Len(log') = n
      BY <1>1
    <2> HIDE DEF n
    <2> QED
      BY <2>1, <2>2, <2>3 DEF LifeInOrder
  <1> QED
    BY <1>6, <1>8

\* A chunk is broadcast: what is added to the record suits the phase.
LEMMA VoiceBroadcast ==
  ASSUME Inv, Voice, NEW t \in Caller, BeginBroadcast(t), log' = Append(log, HalfOf(t))
  PROVE  Voice'
  <1> DEFINE h == HalfOf(t)
  <1>1. /\ pc[t] = "bcast" /\ pc'[t] = "send" /\ \A u \in Thread : u # t => pc'[u] = pc[u]
        /\ UNCHANGED <<out, cur, mem>>
    BY DEF BeginBroadcast, Goto, Inv, TypeOK, Thread, locals, heap
  <1>2. h \in Half /\ log \in Seq(Half) /\ log' = Append(log, h) /\ log' \in Seq(Half)
    BY <1>1, HalfType, Appended DEF Voice
  <1>3. h.kind = out[t].kind /\ h.of = Subject(t)
    BY HalfFields
  <1>4. Main \in Thread /\ Main \in Caller /\ Main \notin Client /\ Client \subseteq Thread
    BY Threads DEF Thread, Caller
  <1>5. pc[Main] # "accept" => cur \in Client /\ mem[cur] = "live" /\ pc[cur] = "idle"
    BY DEF Inv, Control, Accepting
  <1>6. t \in Client => /\ h.of = t /\ mem[t] = "live" /\ Running(t)
                        /\ h.kind \in {"chat", "rename", "left"}
                        /\ h.kind # "left" => Served(t)
                        /\ pc[Main] # "accept" => t # cur
    BY <1>1, <1>3, <1>4, <1>5 DEF Subject, Inv, Control, Life, Running, Served, Leaving
  <1>7. t = Main => /\ h.of = cur /\ cur \in Client /\ mem[cur] = "live" /\ pc[cur] = "idle"
                    /\ h.kind \in {"join", "left"}
                    /\ (h.kind = "join" <=> Joining) /\ (h.kind = "left" <=> Leaving(Main))
    BY <1>1, <1>3, <1>5 DEF Subject, Inv, Control, Accepting, Joining, Leaving
  <1>8. t \in Client \/ t = Main
    BY DEF Caller
  <1>9. /\ \A c \in Client : (Running(c)' <=> Running(c)) /\ (Served(c)' <=> Served(c))
        /\ (Leaving(Main)' <=> Leaving(Main)) /\ (Joining' <=> Joining)
        /\ pc'[Main] \notin Unannounced \/ pc'[Main] = pc[Main]
        /\ t # Main => pc'[Main] = pc[Main]
    BY <1>1, <1>4 DEF Running, Served, Leaving, Joining, Unannounced
  <1> HIDE DEF h
  <1>10. ASSUME NEW c \in Client PROVE VoiceOf(c)'
    <2>1. VoiceOf(c)
      BY DEF Voice
    <2>2. mem'[c] = "none" => SaysOnly(log', c, {})
      BY <1>1, <1>2, <1>6, <1>7, <1>8, <2>1, AppendSays DEF VoiceOf
    <2>3. Running(c)' => Announced(log', c)
      BY <1>2, <1>9, <2>1, AppendAnnounced DEF VoiceOf
    <2>4. ASSUME Served(c)' PROVE SaysOnly(log', c, {"join", "chat", "rename"})
      <3>1. Served(c) /\ pc[c] # "idle" /\ ~Leaving(c)
        BY <1>9, <2>4 DEF Served
      <3>2. h.of = c => h.kind \in {"join", "chat", "rename"}
        BY <1>1, <1>3, <1>6, <1>7, <1>8, <3>1 DEF Leaving
      <3> QED
        BY <1>2, <2>1, <3>1, <3>2, AppendSays DEF VoiceOf
    <2> QED
      BY <2>2, <2>3, <2>4 DEF VoiceOf
  <1>11. VoiceOfMain'
    <2>1. VoiceOfMain
      BY DEF Voice
    <2>2. CASE t = Main
      <3>1. pc'[Main] = "send" /\ pc'[Main] \notin Unannounced
        BY <1>1, <2>2 DEF Unannounced
      <3>2. Joining' => SaysOnly(log', cur, {"join"})
        BY <1>2, <1>7, <1>9, <2>1, <2>2, AppendSays DEF VoiceOfMain
      <3>3. Leaving(Main)' => SaysOnly(log', cur, {"left"})
        BY <1>2, <1>7, <1>9, <2>1, <2>2, AppendSays DEF VoiceOfMain
      <3>4. Joining' => Announced(log', cur)
        BY <1>2, <1>7, <1>9, <2>2, AppendAnnounced
      <3> QED
        BY <1>1, <3>1, <3>2, <3>3, <3>4 DEF VoiceOfMain
    <2>3. CASE t \in Client /\ pc[Main] # "accept"
      <3>1. h.of # cur
        BY <1>6, <2>3
      <3>2. pc'[Main] = pc[Main] /\ UNCHANGED <<out, cur>>
        BY <1>1, <1>4, <2>3
      <3>3. \A kinds : SaysOnly(log, cur, kinds) => SaysOnly(log', cur, kinds)
        BY <1>2, <3>1, AppendSays
      <3>4. Announced(log, cur) => Announced(log', cur)
        BY <1>2, AppendAnnounced
      <3> QED
        BY <1>9, <2>1, <3>2, <3>3, <3>4 DEF VoiceOfMain
    <2>4. CASE pc[Main] = "accept" /\ t # Main
      BY <1>9, <2>4 DEF VoiceOfMain, Unannounced, Joining, Leaving
    <2> QED
      BY <1>8, <2>2, <2>3, <2>4
  <1>12. h.kind = "join" => SaysOnly(log, h.of, {"join"})
    BY <1>6, <1>7, <1>8 DEF Voice, VoiceOfMain
  <1>13. h.kind \in {"chat", "rename"} =>
           Announced(log, h.of) /\ SaysOnly(log, h.of, {"join", "chat", "rename"})
    BY <1>6, <1>7, <1>8 DEF Voice, VoiceOf
  <1>14. Introduced' /\ LifeInOrder'
    BY <1>2, <1>12, <1>13, LifeAppend DEF Voice
  <1> QED
    BY <1>2, <1>10, <1>11, <1>14 DEF Voice

\* Nothing is broadcast: the phases change as far as the record allows.
LEMMA VoiceKept ==
  ASSUME Inv, Voice, Next, log' = log, \A t \in Caller : ~BeginBroadcast(t)
  PROVE  Voice'
  <1> USE DEF Inv
  <1>1. Main \in Thread /\ Main \in Caller /\ Main \notin Client /\ Client \subseteq Thread
    BY Threads DEF Thread, Caller
  <1>2. ASSUME NEW c \in Client PROVE VoiceOf(c)'
    <2>1. VoiceOf(c)
      BY DEF Voice
    <2>2. mem'[c] = "none" => mem[c] = "none"
      BY UnusedKept
    <2>3. CASE Spawn /\ c = cur
      <3>1. mem[c] = "live" /\ SaysOnly(log, c, {"join"}) /\ Announced(log, c)
        BY <2>3 DEF Spawn, Voice, VoiceOfMain, Joining, Control, Accepting
      <3>2. SaysOnly(log, c, {"join", "chat", "rename"})
        BY <3>1 DEF SaysOnly
      <3> QED
        BY <2>2, <3>1, <3>2 DEF VoiceOf
    <2>4. CASE ~(Spawn /\ c = cur)
      <3>1. Running(c)' => Running(c)
        BY <2>4, RunningKept DEF Running
      <3>2. Served(c)' => Served(c)
        BY <2>4, ServedKept
      <3> QED
        BY <2>1, <2>2, <3>1, <3>2 DEF VoiceOf
    <2> QED
      BY <2>3, <2>4
  <1>3. VoiceOfMain
    BY DEF Voice
  <1>4. ASSUME NEW l, Goto(Main, l) PROVE pc'[Main] = l
    BY <1>1, <1>4 DEF Goto, TypeOK
  <1>5. ASSUME NEW l \in Unannounced, Goto(Main, l), cur' = cur, SaysOnly(log, cur, {})
        PROVE  VoiceOfMain'
    BY <1>4, <1>5 DEF VoiceOfMain, Unannounced, Joining, Leaving
  <1>6. ASSUME MainStep PROVE VoiceOfMain'
    <2>1. CASE Accept
      <3>1. cur' \in Client /\ mem[cur'] = "none"
        <4>1. backlog \in Seq(Client) /\ backlog # <<>> /\ cur' = backlog[1]
          BY <2>1 DEF Accept, TypeOK
        <4> QED
          BY <4>1 DEF Control, Waiting
      <3>2. SaysOnly(log, cur', {}) /\ pc'[Main] = "register"
        BY <1>4, <2>1, <3>1 DEF Accept, Voice, VoiceOf
      <3> QED
        BY <3>2 DEF VoiceOfMain, Unannounced, Joining, Leaving
    <2>2. CASE Register \/ Grant \/ CheckAbusive \/ SendPk \/ RecvPk \/ Push \/ SendHdr
      <3>1. SaysOnly(log, cur, {}) /\ cur' = cur
        BY <1>3, <2>2
        DEF Register, Grant, CheckAbusive, SendPk, RecvPk, Push, SendHdr, VoiceOfMain,
            Unannounced, locals
      <3>2. \E l \in Unannounced : Goto(Main, l)
        BY <2>2
        DEF Register, Grant, CheckAbusive, SendPk, RecvPk, Push, SendHdr, Unannounced
      <3> QED
        BY <1>5, <3>1, <3>2
    <2>3. CASE RecvHdr \/ Remove(Main)
      <3>1. SaysOnly(log, cur, {}) /\ cur' = cur
        BY <1>3, <2>3 DEF RecvHdr, Remove, VoiceOfMain, Unannounced
      <3>2. \A kinds : SaysOnly(log, cur, kinds)
        BY <3>1 DEF SaysOnly
      <3>3. pc'[Main] = "bcast" /\ out'[Main].part = "len"
        BY <1>1, <1>4, <2>3 DEF RecvHdr, Remove, Announce, TypeOK
      <3> QED
        BY <3>1, <3>2, <3>3 DEF VoiceOfMain, Unannounced, Joining
    <2>4. CASE SendNext(Main)
      BY <1>3, <2>4 DEF SendNext, locals, VoiceOfMain, Joining, Leaving
    <2>5. CASE EndBroadcast(Main)
      <3>1. pc[Main] = "send" /\ cur' = cur /\ out[Main].kind \in {"join", "left"}
        BY <2>5 DEF EndBroadcast, Control, Accepting
      <3>2. pc'[Main] \in {"bcast", "spawn", "close"} /\ pc'[Main] \notin Unannounced
        BY <1>4, <2>5, <3>1 DEF EndBroadcast, AfterNotice, Unannounced
      <3>3. (Joining' => Joining) /\ (Leaving(Main)' => Leaving(Main))
        <4>1. CASE pc'[Main] = "bcast"
          <5>1. out'[Main].kind = out[Main].kind
            BY <1>1, <1>4, <2>5, <3>1, <4>1 DEF EndBroadcast, AfterNotice, TypeOK
          <5> QED
            BY <3>1, <4>1, <5>1 DEF Joining, Leaving
        <4>2. CASE pc'[Main] # "bcast"
          <5>1. pc'[Main] = AfterNotice(out[Main].kind)
            BY <1>4, <2>5, <4>2 DEF EndBroadcast
          <5> QED
            BY <3>1, <5>1 DEF Joining, Leaving, AfterNotice
        <4> QED
          BY <4>1, <4>2
      <3> QED
        BY <1>3, <3>1, <3>2, <3>3 DEF VoiceOfMain
    <2>6. CASE Close(Main) \/ Spawn
      <3>1. pc'[Main] = "accept"
        BY <1>1, <1>4, <2>6 DEF Close, AfterClose, Spawn, TypeOK
      <3> QED
        BY <3>1 DEF VoiceOfMain, Unannounced, Joining, Leaving
    <2>7. CASE AcceptFails
      BY <1>3, <2>7 DEF AcceptFails, locals, VoiceOfMain, Unannounced, Joining, Leaving
    <2> QED
      BY <1>1, <1>6, <2>1, <2>2, <2>3, <2>4, <2>5, <2>6, <2>7 DEF MainStep, Handshake, Call
  <1>7. ASSUME ~MainStep PROVE VoiceOfMain'
    <2>1. pc'[Main] = pc[Main] /\ out'[Main] = out[Main] /\ cur' = cur
      BY <1>7, MainStill
    <2> QED
      BY <1>3, <2>1 DEF VoiceOfMain, Joining, Leaving
  <1> QED
    BY <1>2, <1>6, <1>7 DEF Voice, Introduced, LifeInOrder

LEMMA VoiceInvariance == OSpec => [](Inv /\ Voice)
  <1>1. OInit => Voice
    <2> SUFFICES ASSUME OInit PROVE Voice
      OBVIOUS
    <2>1. log = <<>> /\ log \in Seq(Half) /\ Len(log) = 0
      BY DEF OInit
    <2>2. \A c : ~Running(c) \/ c \notin Client
      BY Threads DEF OInit, Init, Running, Thread, Caller
    <2>3. pc[Main] = "accept"
      BY Threads DEF OInit, Init, Thread, Caller
    <2>4. \A c, kinds : SaysOnly(log, c, kinds)
      BY <2>1 DEF SaysOnly
    <2>5. \A c \in Client : VoiceOf(c)
      BY <2>2, <2>4 DEF VoiceOf
    <2>6. VoiceOfMain
      BY <2>3 DEF VoiceOfMain, Unannounced, Joining, Leaving
    <2>7. Introduced /\ LifeInOrder
      BY <2>1 DEF Introduced, LifeInOrder
    <2> QED
      BY <2>1, <2>5, <2>6, <2>7 DEF Voice
  <1>2. Inv /\ Voice /\ [ONext]_ovars => Voice'
    <2> SUFFICES ASSUME Inv, Voice, [ONext]_ovars PROVE Voice'
      OBVIOUS
    <2>1. CASE ONext
      BY <2>1, LogStep, VoiceBroadcast, VoiceKept DEF Inv, ONext
    <2>2. CASE UNCHANGED ovars
      BY <2>2
      DEF ovars, vars, locals, heap, Voice, VoiceOf, VoiceOfMain, Running, Served, Leaving,
          Joining, Introduced, LifeInOrder
    <2> QED
      BY <2>1, <2>2
  <1> QED
    BY <1>1, <1>2, ServerInvariance, PTL DEF OSpec

(* On what broadcast_clients sends out, the "joined" of a connection comes *)
(* before everything else of it and its "left" after everything else,      *)
(* whichever of Main and client_manage threads announce, leave or are      *)
(* refused meanwhile.                                                      *)
THEOREM LifeInOrderCorrect == OSpec => []LifeInOrder
  <1>1. Voice => LifeInOrder
    BY DEF Voice
  <1> QED
    BY <1>1, VoiceInvariance, PTL

-----------------------------------------------------------------------------
(***************************************************************************)
(* The implementation of a totally ordered multicast.  Between two         *)
(* broadcasts every member has heard the whole record since it joined;     *)
(* while a thread is inside the loop of broadcast_clients, those at the    *)
(* cursor and behind it lack the last chunk, which is that thread's.       *)
(***************************************************************************)
Calm == \A t \in Caller : pc[t] # "send"

UnderWay(t) ==
  /\ Len(log) > 0 /\ log[Len(log)] = HalfOf(t)
  /\ \A i \in 1..client_n : clients[i] \in Members =>
       MC!Heard(clients[i]) = IF i >= cursor THEN Len(log) - 1 ELSE Len(log)

ReachType ==
  /\ log \in Seq(Half)
  /\ start \in [Client -> Nat]
  /\ heard \in [Client -> Seq(Half)]

\* Who has not been listed yet has heard nothing.
Fresh ==
  /\ \A c \in Client : mem[c] = "none" => heard[c] = <<>>
  /\ pc[Main] = "register" => heard[cur] = <<>>

Reach ==
  /\ ReachType
  /\ Fresh
  /\ Calm => MC!Quiet
  /\ \A t \in Caller : pc[t] = "send" => UnderWay(t)

\* While a thread is in the loop nobody else moves the cursor or the table.
LEMMA SenderAlone ==
  ASSUME Inv, NEW t \in Caller, pc[t] = "send"
  PROVE  mutex = t /\ mutex # Null /\ \A u \in Thread : u # t => ~Holds(u)
  <1>1. mutex = t
    BY DEF Inv, LockInv, Holds, Thread
  <1>2. t # Null
    BY Threads DEF Caller
  <1> QED
    BY <1>1, <1>2 DEF Inv, LockInv

LEMMA SenderKept ==
  ASSUME Inv, Next, NEW t \in Caller, pc[t] = "send", ~SendNext(t), ~EndBroadcast(t)
  PROVE  /\ UNCHANGED <<mutex, cursor, clients, client_n>> /\ pc'[t] = "send"
         /\ HalfOf(t)' = HalfOf(t)
  <1>1. mutex # Null /\ Main \in Thread /\ Refill \in Thread /\ Client \subseteq Thread
                     /\ Caller \subseteq Thread /\ t # Refill
    BY SenderAlone, Threads DEF Thread, Caller
  <1>2. \A u \in Thread : u # t => pc[u] \notin {"send", "compare", "scan", "incr", "add"}
    BY SenderAlone DEF Holds
  <1>3. ASSUME NEW u \in Caller, Call(u)
        PROVE  UNCHANGED <<mutex, cursor, clients, client_n>>
    <2>1. ~SendNext(u) /\ ~EndBroadcast(u)
      BY <1>1, <1>2 DEF SendNext, EndBroadcast
    <2> QED
      BY <1>1, <1>3, <2>1 DEF Call, BeginBroadcast, Remove, Close, roster, lock
  <1>4. CASE MainStep
    <2>1. UNCHANGED <<mutex, cursor, clients, client_n>>
      BY <1>1, <1>3, <1>4
      DEF Caller, MainStep, AcceptFails, Accept, Register, Grant, CheckAbusive, Handshake, SendPk, RecvPk,
          Push, SendHdr, RecvHdr, Spawn, roster, lock
    <2>2. t # Main
      BY <1>4
      DEF MainStep, AcceptFails, Accept, Register, Grant, CheckAbusive, Handshake, SendPk, RecvPk,
          Push, SendHdr, RecvHdr, Spawn, Call, BeginBroadcast, Remove, Close
    <2>3. t \in Client /\ ~ManageStep(t)
      BY <2>2
      DEF Caller, ManageStep, RecvFailed, RecvIgnored, RecvChat, RecvRename, UniqueLock,
          Compare, UniqueUnlock, Load, Store, FreeName, DupName, Call, BeginBroadcast, Remove,
          Close
    <2>4. ~(Spawn /\ t = cur)
      BY DEF Spawn, Inv, Control, Accepting
    <2>5. pc'[t] = "send" /\ out'[t] = out[t]
      BY <2>3, <2>4, ClientStill DEF Inv
    <2> QED
      BY <2>1, <2>2, <2>5 DEF HalfOf, Subject
  <1>5. CASE ~MainStep
    <2>1. UNCHANGED <<mutex, cursor, clients, client_n>>
      <3>1. ASSUME NEW c \in Client, ManageStep(c)
            PROVE  UNCHANGED <<mutex, cursor, clients, client_n>>
        <4>1. ~Compare(c) /\ ~UniqueUnlock(c)
          BY <1>1, <1>2 DEF Compare, UniqueUnlock
        <4> QED
          BY <1>1, <1>3, <3>1, <4>1
          DEF Caller, ManageStep, RecvFailed, RecvIgnored, RecvChat, RecvRename, UniqueLock,
              Load, Store, FreeName, DupName, roster, lock
      <3>2. ~RefillStep
        BY <1>1, <1>2 DEF RefillStep, RefillLock, RefillScan, RefillLoad, RefillAdd, RefillUnlock
      <3>3. ASSUME NEW c \in Client, PeerStep(c)
            PROVE  UNCHANGED <<mutex, cursor, clients, client_n>>
        BY <3>3 DEF PeerStep, PeerConnect, PeerRead, PeerClose, roster, lock
      <3> QED
        BY <1>5, <3>1, <3>2, <3>3 DEF Next
    <2>2. pc'[Main] = pc[Main] /\ out'[Main] = out[Main] /\ cur' = cur
      BY <1>5, MainStill DEF Inv
    <2>3. CASE t = Main
      BY <2>1, <2>2, <2>3 DEF HalfOf, Subject
    <2>4. CASE t \in Client
      <3>1. ~ManageStep(t)
        BY <2>4
        DEF ManageStep, RecvFailed, RecvIgnored, RecvChat, RecvRename, UniqueLock,
            Compare, UniqueUnlock, Load, Store, FreeName, DupName, Call, BeginBroadcast, Remove,
            Close
      <3>2. ~Spawn
        BY <1>5 DEF MainStep
      <3>3. pc'[t] = "send" /\ out'[t] = out[t]
        BY <2>4, <3>1, <3>2, ClientStill DEF Inv
      <3> QED
        BY <2>1, <2>2, <3>3 DEF HalfOf, Subject
    <2> QED
      BY <2>3, <2>4 DEF Caller
  <1> QED
    BY <1>4, <1>5

\* Only the loop of broadcast_clients both moves the cursor and writes.
LEMMA OnlySendNextWrites ==
  ASSUME Next, \A t \in Caller : ~SendNext(t)
  PROVE  cursor' = cursor \/ sock' = sock
  <1>1. ASSUME NEW t \in Caller, Call(t) PROVE cursor' = cursor \/ sock' = sock
    BY <1>1 DEF Call, BeginBroadcast, EndBroadcast, Remove, Close, lock, net
  <1>2. CASE MainStep
    BY <1>1, <1>2
    DEF Caller, MainStep, AcceptFails, Accept, Register, Grant, CheckAbusive, Handshake, SendPk, RecvPk,
        Push, SendHdr, RecvHdr, Spawn, lock
  <1>3. ASSUME NEW c \in Client, ManageStep(c) PROVE cursor' = cursor \/ sock' = sock
    BY <1>1, <1>3
    DEF Caller, ManageStep, RecvFailed, RecvIgnored, RecvChat, RecvRename, UniqueLock, Compare,
        UniqueUnlock, Load, Store, FreeName, DupName, net
  <1>4. CASE RefillStep
    BY <1>4 DEF RefillStep, RefillLock, RefillScan, RefillLoad, RefillAdd, RefillUnlock, net
  <1>5. ASSUME NEW c \in Client, PeerStep(c) PROVE cursor' = cursor \/ sock' = sock
    BY <1>5 DEF PeerStep, PeerConnect, PeerRead, PeerClose, lock
  <1> QED
    BY <1>2, <1>3, <1>4, <1>5 DEF Next

LEMMA HeardKept ==
  ASSUME ReachType, ONext, Inv, \A t \in Caller : ~SendNext(t)
  PROVE  heard' = heard
  <1>1. cursor' = cursor \/ sock' = sock
    BY OnlySendNextWrites DEF ONext
  <1>2. \A c \in Client : ~(Gets(c) /\ ByBroadcast)
    <2>1. \A c \in Client : sock[c] \in Nat
      BY DEF Inv, TypeOK
    <2> QED
      BY <1>1, <2>1 DEF Gets, ByBroadcast
  <1>3. heard' = [c \in Client |-> heard[c]]
    BY <1>2 DEF ONext, Record
  <1> QED
    BY <1>3 DEF ReachType

\* Members leave one by one, and join by init_client alone.
LEMMA MembersKept ==
  ASSUME Inv, Next, ~Register
  PROVE  Members' = Members \/ \E m \in Members : Members' = Members \ {m}
  <1> USE DEF Inv
  <1>1. Listed \subseteq Client
    BY DEF Listed, Shape
  <1>2. ASSUME UNCHANGED <<clients, client_n, peer>> PROVE Members' = Members
    BY <1>2 DEF Members, Listed
  <1>3. ASSUME NEW t \in Caller, Call(t)
        PROVE  Members' = Members \/ \E m \in Members : Members' = Members \ {m}
    <2>1. CASE Close(t)
      <3>1. Listed' = Listed /\ peer' = [peer EXCEPT ![Subject(t)] = "closed"]
        BY <2>1 DEF Close, roster, Listed
      <3>2. Subject(t) \notin Listed
        BY <2>1 DEF Close, Control, Alive, Leaving
      <3>3. \A c \in Listed : peer'[c] = peer[c]
        BY <1>1, <3>1, <3>2 DEF TypeOK
      <3>4. Members' = Members
        BY <3>1, <3>3 DEF Members
      <3> QED
        BY <3>4
    <2>2. CASE Remove(t)
      <3>1. peer' = peer
        BY <2>2 DEF Remove, net
      <3>2. Listed' = Listed \/ Listed' = Listed \ {Subject(t)}
        <4>1. CASE Unlist(Subject(t))
          BY <4>1, UnlistShape
        <4>2. CASE UNCHANGED <<clients, client_n>>
          BY <4>2 DEF Listed
        <4> QED
          BY <2>2, <4>1, <4>2 DEF Remove
      <3>3. Members' = Members \/ Members' = Members \ {Subject(t)}
        BY <3>1, <3>2 DEF Members
      <3> QED
        BY <3>3
    <2>3. CASE BeginBroadcast(t) \/ SendNext(t) \/ EndBroadcast(t)
      BY <1>2, <2>3 DEF BeginBroadcast, SendNext, EndBroadcast, roster, net
    <2> QED
      BY <1>3, <2>1, <2>2, <2>3 DEF Call
  <1>4. CASE MainStep
    BY <1>2, <1>3, <1>4
    DEF Caller, MainStep, AcceptFails, Accept, Grant, CheckAbusive, Handshake, SendPk, RecvPk,
        Push, SendHdr, RecvHdr, Spawn, roster, net
  <1>5. ASSUME NEW c \in Client, ManageStep(c)
        PROVE  Members' = Members \/ \E m \in Members : Members' = Members \ {m}
    BY <1>2, <1>3, <1>5
    DEF Caller, ManageStep, RecvFailed, RecvIgnored, RecvChat, RecvRename, UniqueLock, Compare,
        UniqueUnlock, Load, Store, FreeName, DupName, roster, net
  <1>6. CASE RefillStep
    BY <1>2, <1>6 DEF RefillStep, RefillLock, RefillScan, RefillLoad, RefillAdd, RefillUnlock, roster, net
  <1>7. ASSUME NEW c \in Client, PeerStep(c)
        PROVE  Members' = Members \/ \E m \in Members : Members' = Members \ {m}
    <2>1. Listed' = Listed
      BY <1>7 DEF PeerStep, PeerConnect, PeerRead, PeerClose, roster, Listed
    <2>2. CASE PeerConnect(c)
      <3>1. c \notin Listed
        BY <2>2 DEF PeerConnect, Control, Waiting, Alive
      <3>2. \A d \in Listed : peer'[d] = peer[d]
        BY <1>1, <2>2, <3>1 DEF PeerConnect, TypeOK
      <3>3. Members' = Members
        BY <2>1, <3>2 DEF Members
      <3> QED
        BY <3>3
    <2>3. CASE PeerRead(c)
      BY <1>2, <2>3 DEF PeerRead, roster
    <2>4. CASE PeerClose(c)
      <3>1. \A d \in Listed : peer'[d] = IF d = c THEN "closed" ELSE peer[d]
        BY <1>1, <2>4 DEF PeerClose, TypeOK
      <3>2. Members' = Members \ {c}
        BY <2>1, <3>1 DEF Members
      <3>3. CASE c \in Members
        BY <3>2, <3>3
      <3>4. CASE c \notin Members
        BY <3>2, <3>4
      <3> QED
        BY <3>3, <3>4
    <2> QED
      BY <1>7, <2>2, <2>3, <2>4 DEF PeerStep
  <1> QED
    BY <1>4, <1>5, <1>6, <1>7 DEF Next

LEMMA MembersJoin ==
  ASSUME Inv, Register
  PROVE  /\ cur \in Client /\ cur \notin Members
         /\ Members' = Members \/ Members' = Members \cup {cur}
  <1> USE DEF Inv
  <1>1. cur \in Client /\ cur \notin Listed /\ peer' = peer
    BY DEF Register, Control, Accepting, net
  <1>2. Listed' = Listed \/ Listed' = Listed \cup {cur}
    <2>1. CASE Full
      BY <2>1 DEF Register, roster, Listed
    <2>2. CASE ~Full
      BY <1>1, <2>2, RegisterShape
    <2> QED
      BY <2>1, <2>2
  <1> QED
    BY <1>1, <1>2 DEF Members

\* start changes for who joins, and for nobody else.
LEMMA StartStep ==
  ASSUME ReachType, Inv, ONext
  PROVE  /\ start' \in [Client -> Nat]
         /\ Members' \subseteq Members => start' = start
         /\ \A m \in Client : Members' \ Members = {m} =>
              start' = [start EXCEPT ![m] = Len(log)]
  <1>1. start' = [c \in Client |-> IF c \in Members' \ Members THEN Len(log) ELSE start[c]]
    BY DEF ONext, Record
  <1>2. Len(log) \in Nat
    BY DEF ReachType
  <1>3. start' \in [Client -> Nat]
    BY <1>1, <1>2 DEF ReachType
  <1>4. ASSUME Members' \subseteq Members PROVE start' = start
    BY <1>1, <1>4 DEF ReachType
  <1>5. ASSUME NEW m \in Client, Members' \ Members = {m}
        PROVE  start' = [start EXCEPT ![m] = Len(log)]
    BY <1>1, <1>5 DEF ReachType
  <1> QED
    BY <1>3, <1>4, <1>5

\* Main has the connection at hand that it is about to register.
LEMMA RegisterKept ==
  ASSUME Inv, Next, pc'[Main] = "register"
  PROVE  \/ Accept /\ cur' \in Client /\ mem[cur'] = "none"
         \/ pc[Main] = "register" /\ cur' = cur
  <1> USE DEF Inv
  <1>1. CASE ~MainStep
    BY <1>1, MainStill
  <1>2. CASE Accept
    <2>1. backlog \in Seq(Client) /\ backlog # <<>> /\ cur' = backlog[1]
      BY <1>2 DEF Accept, TypeOK
    <2>2. cur' \in Client /\ mem[cur'] = "none"
      BY <2>1 DEF Control, Waiting
    <2> QED
      BY <1>2, <2>2
  <1>3. CASE MainStep /\ ~Accept
    <2>1. Main \in Thread /\ Main \in Caller
      BY DEF Thread, Caller
    <2>2. ASSUME NEW l, Goto(Main, l) PROVE l = "register"
      BY <2>1, <2>2 DEF Goto, TypeOK
    <2>3. ~Spawn
      BY <2>1 DEF Spawn, TypeOK
    <2>4. ASSUME Call(Main) PROVE FALSE
      <3>1. AfterNotice(out[Main].kind) # "register" /\ AfterClose(Main) # "register"
        BY DEF AfterNotice, AfterClose
      <3>2. ~SendNext(Main)
        BY DEF SendNext
      <3> QED
        BY <2>2, <2>4, <3>1, <3>2 DEF Call, BeginBroadcast, EndBroadcast, Remove, Close, Announce
    <2> QED
      BY <1>3, <2>2, <2>3, <2>4
      DEF MainStep, AcceptFails, Register, Grant, CheckAbusive, Handshake, SendPk, RecvPk,
          Push, SendHdr, RecvHdr, Announce
  <1> QED
    BY <1>1, <1>2, <1>3

\* Whoever is not listed yet is not written to by the loop.
LEMMA FreshKept ==
  ASSUME Inv, Fresh, Next, NEW d, d \in Listed, \A c \in Client : c # d => heard'[c] = heard[c]
  PROVE  Fresh'
  <1>1. d \in Client /\ mem[d] # "none"
    BY DEF Inv, Control, Alive, Listed, Shape
  <1>2. ASSUME NEW c \in Client, mem'[c] = "none" PROVE heard'[c] = <<>>
    BY <1>1, <1>2, UnusedKept DEF Fresh
  <1>3. ASSUME pc'[Main] = "register" PROVE heard'[cur'] = <<>>
    <2>1. CASE Accept /\ cur' \in Client /\ mem[cur'] = "none"
      BY <1>1, <2>1 DEF Fresh
    <2>2. CASE pc[Main] = "register" /\ cur' = cur
      <3>1. cur \in Client /\ cur \notin Listed
        BY <2>2 DEF Inv, Control, Accepting
      <3> QED
        BY <2>2, <3>1 DEF Fresh
    <2> QED
      BY <1>3, <2>1, <2>2, RegisterKept
  <1> QED
    BY <1>2, <1>3 DEF Fresh

LEMMA FreshSame ==
  ASSUME Inv, Fresh, Next, heard' = heard
  PROVE  Fresh'
  <1>1. ASSUME NEW c \in Client, mem'[c] = "none" PROVE heard'[c] = <<>>
    BY <1>1, UnusedKept DEF Fresh
  <1>2. ASSUME pc'[Main] = "register" PROVE heard'[cur'] = <<>>
    BY <1>2, RegisterKept DEF Fresh
  <1> QED
    BY <1>1, <1>2 DEF Fresh

\* BeginBroadcast issues a chunk: everybody has heard all that came before.
LEMMA BeginReach ==
  ASSUME Inv, Reach, ONext, NEW t \in Caller, BeginBroadcast(t)
  PROVE  Reach' /\ MC!Issue(HalfOf(t)) /\ HalfOf(t) \in Half
  <1>1. mutex = Null /\ pc[t] = "bcast" /\ pc'[t] = "send" /\ cursor' = 1
                     /\ (\A u \in Thread : u # t => pc'[u] = pc[u])
                     /\ UNCHANGED <<clients, client_n, peer, out, cur>>
    BY DEF BeginBroadcast, Goto, Inv, TypeOK, Thread, roster, locals, net
  <1>2. Calm
    BY <1>1, SenderAlone DEF Calm
  <1>3. \A u \in Caller : pc'[u] = "send" => u = t
    BY <1>1, <1>2 DEF Calm, Thread
  <1>4. log' = Append(log, HalfOf(t))
    <2>1. PICK u \in Caller : BeginBroadcast(u) /\ log' = Append(log, HalfOf(u))
      BY LogStep DEF Inv
    <2>2. u = t
      BY <2>1 DEF BeginBroadcast
    <2> QED
      BY <2>1, <2>2
  <1>5. HalfOf(t) \in Half
    BY <1>1, HalfType
  <1>6. heard' = heard
    <2>1. \A u \in Caller : ~SendNext(u)
      BY <1>2 DEF SendNext, Calm
    <2> QED
      BY <2>1, HeardKept DEF Reach
  <1>7. Members' = Members
    BY <1>1 DEF Members, Listed
  <1>8. start' = start
    BY <1>7, StartStep DEF Reach
  <1>9. MC!Quiet
    BY <1>2 DEF Reach
  <1>10. MC!Issue(HalfOf(t))
    BY <1>4, <1>6, <1>7, <1>8, <1>9 DEF MC!Issue
  <1>11. ReachType'
    BY <1>4, <1>5, <1>6, <1>8, Appended DEF Reach, ReachType
  <1>12. Fresh'
    BY <1>6, FreshSame DEF Reach, ONext
  <1>13. UnderWay(t)'
    <2>1. /\ Len(log) \in Nat /\ Len(log') = Len(log) + 1
          /\ log'[Len(log')] = HalfOf(t)
      BY <1>4, <1>5, Appended DEF Reach, ReachType
    <2>2. HalfOf(t)' = HalfOf(t)
      BY <1>1 DEF HalfOf, Subject
    <2>3. ASSUME NEW k \in 1..client_n, clients[k] \in Members
          PROVE  start'[clients[k]] + Len(heard'[clients[k]]) = Len(log') - 1
      BY <1>6, <1>8, <1>9, <2>1, <2>3 DEF MC!Quiet, MC!Heard
    <2>4. \A k \in 1..client_n : k >= cursor'
      BY <1>1
    <2>5. ASSUME NEW k \in 1..client_n', clients'[k] \in Members'
          PROVE  MC!Heard(clients[k])' = IF k >= cursor' THEN Len(log') - 1 ELSE Len(log')
      BY <1>1, <1>7, <2>3, <2>4, <2>5 DEF MC!Heard
    <2> QED
      BY <1>1, <2>1, <2>2, <2>5 DEF UnderWay, MC!Heard
  <1>14. ~Calm'
    BY <1>1 DEF Calm
  <1> QED
    BY <1>3, <1>5, <1>10, <1>11, <1>12, <1>13, <1>14 DEF Reach

\* SendNext lets one member hear, or passes over a connection that is gone.
LEMMA SendReach ==
  ASSUME Inv, Reach, ONext, NEW t \in Caller, SendNext(t)
  PROVE  Reach' /\ (UNCHANGED <<log, Members, start, heard>> \/ \E m \in Client : MC!Hear(m))
  <1> DEFINE d == clients[cursor]
  <1>1. /\ pc[t] = "send" /\ cursor \in 1..client_n /\ cursor' = cursor + 1
        /\ UNCHANGED <<clients, client_n, mutex, pc, out, cur, mem, peer>>
        /\ mutex = t /\ cursor \in Nat /\ client_n \in Nat
    <2>1. mutex = t /\ mutex # Null
      BY SenderAlone DEF SendNext
    <2>2. cursor \in Nat /\ cursor >= 1 /\ client_n \in Nat
      BY <2>1, Numbers DEF Inv, TypeOK, LockInv
    <2> QED
      BY <2>1, <2>2 DEF SendNext, roster, locals, heap
  <1>2. d \in Client /\ d \in Listed
    BY <1>1 DEF Inv, Shape, Listed
  <1>3. \A k \in 1..client_n : clients[k] = d => k = cursor
    BY <1>1 DEF Inv, Shape
  <1>4. Members' = Members /\ Members \subseteq Client
    BY <1>1 DEF Members, Listed, Inv, Shape
  <1>5. start' = start
    BY <1>4, StartStep DEF Reach
  <1>6. log' = log
    <2>1. \A u \in Caller : ~BeginBroadcast(u)
      BY <1>1, SenderAlone DEF BeginBroadcast
    <2> QED
      BY <2>1, LogStep DEF Inv
  <1>7. UnderWay(t) /\ Len(log) \in Nat
    BY <1>1 DEF Reach, ReachType
  <1>8. HalfOf(t)' = HalfOf(t) /\ HalfOf(t) \in Half
    BY <1>1, HalfType DEF HalfOf, Subject
  <1>9. sock \in [Client -> Nat] /\ Deliver(d)
    BY DEF SendNext, Inv, TypeOK
  <1>10. \A u \in Caller : pc'[u] = "send" => u = t
    BY <1>1, SenderAlone DEF Holds, Thread
  <1>11. ~Calm'
    BY <1>1 DEF Calm
  <1>12. heard' = [c \in Client |->
           IF Gets(c) /\ ByBroadcast THEN Append(heard[c], HalfOf(t)) ELSE heard[c]]
    BY <1>1 DEF ONext, Record
  <1>13. ByBroadcast
    BY <1>1 DEF ByBroadcast
  <1> HIDE DEF d
  <1>14. \A c \in Client : Gets(c) <=> c = d /\ peer[d] = "open"
    <2>1. CASE peer[d] = "closed" /\ sock' = sock
      BY <1>9, <2>1 DEF Gets
    <2>2. CASE peer[d] = "open" /\ sock' = [sock EXCEPT ![d] = sock[d] + 1]
      BY <1>2, <1>9, <2>2 DEF Gets
    <2> QED
      BY <1>9, <2>1, <2>2 DEF Deliver
  <1>15. heard \in [Client -> Seq(Half)]
    BY DEF Reach, ReachType
  <1>16. CASE d \notin Members
    <2>1. \A c \in Client : ~Gets(c)
      BY <1>2, <1>14, <1>16 DEF Members
    <2>2. heard' = heard
      BY <1>12, <1>15, <2>1
    <2>3. ReachType' /\ Fresh'
      BY <1>5, <1>6, <2>2, FreshSame DEF Reach, ReachType, ONext
    <2>4. UnderWay(t)'
      <3>1. ASSUME NEW k \in 1..client_n, clients[k] \in Members
            PROVE  MC!Heard(clients[k]) = IF k >= cursor' THEN Len(log) - 1 ELSE Len(log)
        <4>1. k # cursor
          BY <1>16, <3>1 DEF d
        <4> QED
          BY <1>1, <1>7, <3>1, <4>1 DEF UnderWay
      <3> QED
        BY <1>1, <1>4, <1>5, <1>6, <1>7, <1>8, <2>2, <3>1 DEF UnderWay, MC!Heard
    <2> QED
      BY <1>4, <1>5, <1>6, <1>10, <1>11, <2>2, <2>3, <2>4 DEF Reach
  <1>17. CASE d \in Members
    <2>1. \A c \in Client : Gets(c) <=> c = d
      BY <1>14, <1>17 DEF Members
    <2>2. heard' = [heard EXCEPT ![d] = Append(heard[d], HalfOf(t))]
      BY <1>2, <1>12, <1>13, <1>15, <2>1
    <2>3. heard[d] \in Seq(Half) /\ Len(heard[d]) \in Nat
      BY <1>2, <1>15
    <2>4. /\ heard'[d] \in Seq(Half) /\ Len(heard'[d]) = Len(heard[d]) + 1
          /\ \A c \in Client : c # d => heard'[c] = heard[c]
          /\ heard' \in [Client -> Seq(Half)]
      BY <1>2, <1>8, <1>15, <2>2, <2>3, Appended
    <2>5. ReachType'
      BY <1>5, <1>6, <2>4 DEF Reach, ReachType
    <2>6. Fresh'
      BY <1>2, <2>4, FreshKept DEF Reach, ONext
    <2>7. start[d] \in Nat /\ start[d] + Len(heard[d]) = Len(log) - 1
      BY <1>1, <1>2, <1>7, <1>17 DEF d, UnderWay, MC!Heard, Reach, ReachType
    <2>8. UnderWay(t)'
      <3>1. ASSUME NEW k \in 1..client_n, clients[k] \in Members
            PROVE  start[clients[k]] + Len(heard'[clients[k]])
                     = IF k >= cursor' THEN Len(log) - 1 ELSE Len(log)
        <4>1. CASE k # cursor
          <5>1. clients[k] # d /\ clients[k] \in Client
            BY <1>3, <1>4, <3>1, <4>1
          <5>2. heard'[clients[k]] = heard[clients[k]]
            BY <2>4, <5>1
          <5>3. k >= cursor' <=> k >= cursor
            BY <1>1, <4>1
          <5> QED
            BY <1>7, <3>1, <5>2, <5>3 DEF UnderWay, MC!Heard
        <4>2. CASE k = cursor
          <5>1. clients[k] = d /\ ~(k >= cursor')
            BY <1>1, <4>2 DEF d
          <5>2. start[d] + Len(heard'[d]) = Len(log)
            <6>1. Len(heard'[d]) = Len(heard[d]) + 1 /\ Len(heard[d]) \in Nat
              BY <2>3, <2>4
            <6>2. start[d] \in Nat /\ start[d] + Len(heard[d]) = Len(log) - 1 /\ Len(log) \in Nat
              BY <1>7, <2>7
            <6> QED
              BY <6>1, <6>2
          <5> QED
            BY <5>1, <5>2
        <4> QED
          BY <4>1, <4>2
      <3> QED
        BY <1>1, <1>4, <1>5, <1>6, <1>7, <1>8, <3>1 DEF UnderWay, MC!Heard
    <2>9. MC!Hear(d)
      <3>1. MC!Heard(d) = Len(log) - 1
        BY <2>7 DEF MC!Heard
      <3>2. MC!Heard(d) < Len(log) /\ MC!Heard(d) + 1 = Len(log)
        BY <1>7, <3>1
      <3>3. log[MC!Heard(d) + 1] = HalfOf(t)
        BY <1>7, <3>2 DEF UnderWay
      <3> QED
        BY <1>4, <1>5, <1>6, <1>17, <2>2, <3>2, <3>3 DEF MC!Hear
    <2> QED
      BY <1>2, <1>10, <1>11, <2>5, <2>6, <2>8, <2>9 DEF Reach
  <1> QED
    BY <1>16, <1>17

\* Every other step writes nothing that a broadcast has to account for; a member
\* joins or leaves, or nothing at all is to be seen of it.
LEMMA OtherReach ==
  ASSUME Inv, Reach, ONext, \A t \in Caller : ~BeginBroadcast(t) /\ ~SendNext(t)
  PROVE  /\ Reach'
         /\ UNCHANGED <<log, Members, start, heard>> \/ \E m \in Client : MC!Join(m) \/ MC!Leave(m)
  <1>1. log' = log /\ heard' = heard
    BY LogStep, HeardKept DEF Inv, Reach
  <1>2. start' \in [Client -> Nat] /\ ReachType' /\ Fresh'
    BY <1>1, StartStep, FreshSame DEF Reach, ReachType, ONext
  <1>3. Members \subseteq Client /\ \A m \in Members : \E k \in 1..client_n : clients[k] = m
    BY DEF Members, Listed, Inv, Shape
  <1>4. \A t \in Caller : pc'[t] = "send" => pc[t] = "send"
    BY EntersSend DEF ONext, Inv
  <1>5. ASSUME NEW t \in Caller, pc'[t] = "send"
        PROVE  /\ pc[t] = "send" /\ UNCHANGED <<mutex, cursor, clients, client_n>>
               /\ HalfOf(t)' = HalfOf(t)
    <2>1. pc[t] = "send" /\ ~SendNext(t)
      BY <1>4, <1>5
    <2>2. ~EndBroadcast(t)
      <3>1. AfterNotice(out[t].kind) # "send" /\ t \in Thread
        BY DEF AfterNotice, Thread
      <3> QED
        BY <1>5, <3>1 DEF EndBroadcast, Goto, Inv, TypeOK
    <2> QED
      BY <2>1, <2>2, SenderKept DEF ONext
  <1>6. CASE Register
    <2>1. mutex = Null /\ Calm
      BY <1>6, SenderAlone DEF Register, Calm
    <2>2. Calm' /\ MC!Quiet
      BY <1>4, <2>1 DEF Calm, Reach
    <2>3. /\ cur \in Client /\ cur \notin Members
          /\ Members' = Members \/ Members' = Members \cup {cur}
      BY <1>6, MembersJoin
    <2>4. CASE Members' = Members
      <3>1. start' = start
        BY <2>4, StartStep DEF Reach
      <3>2. MC!Quiet'
        BY <1>1, <2>2, <2>4, <3>1 DEF MC!Quiet, MC!Heard
      <3> QED
        BY <1>1, <1>2, <2>2, <2>4, <3>1, <3>2 DEF Reach, Calm
    <2>5. CASE Members' = Members \cup {cur}
      <3>1. Members' \ Members = {cur}
        BY <2>3, <2>5
      <3>2. start' = [start EXCEPT ![cur] = Len(log)]
        BY <2>3, <3>1, StartStep DEF Reach
      <3>3. heard[cur] = <<>> /\ Len(heard[cur]) = 0 /\ Len(log) \in Nat
        BY <1>6 DEF Register, Reach, Fresh, ReachType
      <3>4. MC!Join(cur)
        BY <1>1, <2>2, <2>3, <2>5, <3>2, <3>3 DEF MC!Join
      <3>5. ASSUME NEW m \in Members' PROVE start'[m] + Len(heard'[m]) = Len(log')
        <4>1. CASE m = cur
          BY <1>1, <2>3, <3>2, <3>3, <4>1 DEF Reach, ReachType
        <4>2. CASE m # cur
          <5>1. m \in Members /\ start'[m] = start[m]
            BY <1>3, <2>5, <3>2, <3>5, <4>2 DEF Reach, ReachType
          <5> QED
            BY <1>1, <2>2, <5>1 DEF MC!Quiet, MC!Heard
        <4> QED
          BY <4>1, <4>2
      <3>6. MC!Quiet'
        BY <3>5 DEF MC!Quiet, MC!Heard
      <3> QED
        BY <1>1, <1>2, <2>2, <2>3, <3>4, <3>6 DEF Reach, Calm
    <2> QED
      BY <2>3, <2>4, <2>5
  <1>7. CASE ~Register
    <2>1. Members' = Members \/ \E m \in Members : Members' = Members \ {m}
      BY <1>7, MembersKept DEF ONext
    <2>2. Members' \subseteq Members
      BY <2>1
    <2>3. start' = start
      BY <2>2, StartStep DEF Reach
    <2>4. UNCHANGED <<log, Members, start, heard>> \/ \E m \in Client : MC!Leave(m)
      BY <1>1, <1>3, <2>1, <2>3 DEF MC!Leave
    <2>5. ASSUME Calm' PROVE MC!Quiet'
      <3>1. \A m \in Members : start[m] + Len(heard[m]) = Len(log)
        <4>1. CASE Calm
          BY <4>1 DEF Reach, MC!Quiet, MC!Heard
        <4>2. CASE ~Calm
          <5>1. PICK t \in Caller : pc[t] = "send"
            BY <4>2 DEF Calm
          <5>2. EndBroadcast(t)
            BY <2>5, <5>1, SenderKept DEF Calm, ONext
          <5>3. UnderWay(t) /\ cursor > client_n
            BY <5>1, <5>2 DEF Reach, EndBroadcast
          <5>4. ASSUME NEW m \in Members PROVE start[m] + Len(heard[m]) = Len(log)
            <6>1. PICK k \in 1..client_n : clients[k] = m
              BY <1>3, <5>4
            <6>2. ~(k >= cursor)
              BY <5>3, <6>1 DEF Inv, TypeOK
            <6> QED
              BY <5>3, <5>4, <6>1, <6>2 DEF UnderWay, MC!Heard
          <5> QED
            BY <5>4
        <4> QED
          BY <4>1, <4>2
      <3> QED
        BY <1>1, <2>2, <2>3, <3>1 DEF MC!Quiet, MC!Heard
    <2>6. ASSUME NEW t \in Caller, pc'[t] = "send" PROVE UnderWay(t)'
      <3>1. /\ pc[t] = "send" /\ UNCHANGED <<mutex, cursor, clients, client_n>>
            /\ HalfOf(t)' = HalfOf(t)
        BY <1>5, <2>6
      <3>2. UnderWay(t)
        BY <3>1 DEF Reach
      <3> QED
        BY <1>1, <2>2, <2>3, <3>1, <3>2 DEF UnderWay, MC!Heard
    <2> QED
      BY <1>2, <2>4, <2>5, <2>6 DEF Reach
  <1> QED
    BY <1>6, <1>7

LEMMA ReachInit == OInit => Reach /\ MC!MInit
  <1> SUFFICES ASSUME OInit PROVE Reach /\ MC!MInit
    OBVIOUS
  <1>1. Listed = {} /\ Members = {}
    BY DEF OInit, Init, Listed, Members
  <1>2. ReachType /\ log = <<>>
    BY DEF OInit, ReachType
  <1>3. \A t \in Caller : pc[t] # "send"
    BY Threads DEF OInit, Init, Thread, Caller
  <1>4. Fresh
    BY Threads DEF OInit, Init, Fresh, Thread, Caller
  <1>5. MC!Quiet
    BY <1>1 DEF MC!Quiet
  <1>6. MC!MInit
    BY <1>1 DEF OInit, MC!MInit
  <1> QED
    BY <1>2, <1>3, <1>4, <1>5, <1>6 DEF Reach

LEMMA ReachStep == Inv /\ Reach /\ [ONext]_ovars => Reach' /\ [MC!MNext]_(MC!mvars)
  <1> SUFFICES ASSUME Inv, Reach, [ONext]_ovars PROVE Reach' /\ [MC!MNext]_(MC!mvars)
    OBVIOUS
  <1>1. CASE UNCHANGED ovars
    <2>1. UNCHANGED <<clients, client_n, mutex, cursor, pc, cur, out, mem, peer, log, start, heard>>
      BY <1>1 DEF ovars, vars, roster, lock, locals, heap, net
    <2>2. Members' = Members
      BY <2>1 DEF Members, Listed
    <2>3. \A t \in Caller : UnderWay(t)' <=> UnderWay(t)
      BY <2>1, <2>2 DEF UnderWay, HalfOf, Subject, MC!Heard
    <2>4. ReachType' /\ Fresh' /\ (Calm' <=> Calm) /\ (MC!Quiet' <=> MC!Quiet)
      BY <2>1, <2>2 DEF Reach, ReachType, Fresh, Calm, MC!Quiet, MC!Heard
    <2> QED
      BY <2>1, <2>2, <2>3, <2>4 DEF Reach, MC!mvars
  <1>2. ASSUME ONext, NEW t \in Caller, BeginBroadcast(t)
        PROVE  Reach' /\ [MC!MNext]_(MC!mvars)
    BY <1>2, BeginReach DEF MC!MNext
  <1>3. ASSUME ONext, NEW t \in Caller, SendNext(t)
        PROVE  Reach' /\ [MC!MNext]_(MC!mvars)
    BY <1>3, SendReach DEF MC!MNext, MC!mvars
  <1>4. ASSUME ONext, \A t \in Caller : ~BeginBroadcast(t) /\ ~SendNext(t)
        PROVE  Reach' /\ [MC!MNext]_(MC!mvars)
    BY <1>4, OtherReach DEF MC!MNext, MC!mvars
  <1> QED
    BY <1>1, <1>2, <1>3, <1>4

(* clients[] under clients_mutex implements a totally ordered multicast:   *)
(* whoever connects, is listed, is lost or leaves, every peer is written,  *)
(* in one order and without a gap, the chunks that were broadcast while it *)
(* was listed and connected, and no two broadcasts overlap.                *)
THEOREM TotalOrderCorrect == OSpec => TotalOrder
  BY ServerInvariance, ReachInit, ReachStep, PTL DEF OSpec, TotalOrder, MC!MSpec
=============================================================================
