------------------------------- MODULE Order -------------------------------
(***************************************************************************)
(* The server with a record of what it writes to its peers: the order of   *)
(* the broadcasts, what each peer is sent, and in which state of its       *)
(* stream.  The record never influences a step of the server.              *)
(***************************************************************************)
EXTENDS ServerProps

CONSTANT MaxLog    \* bound: broadcasts recorded

ASSUME OrderAssumption == MaxLog \in Nat

VARIABLES
  log,    \* the chunks passed to broadcast_clients, in order
  start,  \* start[c]: Len(log) when c became a member
  heard,  \* heard[c]: the chunks that broadcasts have put into the socket of c
  sent    \* sent[c]: everything written to the socket of c while it was open

ovars == <<vars, log, start, heard, sent>>

\* Whom a broadcast reaches: the listed, unless they are gone already.
Members == {c \in Listed : peer[c] = "open"}

\* A chunk: the length or the body of an announcement, or a raw handshake item.
Half == [kind : {"join", "chat", "rename", "left"}, part : {"len", "body"}, of : Client]
Raw(kind, c) == [kind |-> kind, part |-> "raw", of |-> c]

HalfOf(t) == [kind |-> out[t].kind, part |-> out[t].part, of |-> Subject(t)]

OInit ==
  /\ Init
  /\ log = <<>>
  /\ start = [c \in Client |-> 0]
  /\ heard = [c \in Client |-> <<>>]
  /\ sent = [c \in Client |-> <<>>]

Broadcasting(t) == pc[t] = "bcast" /\ pc'[t] = "send"

\* A step that puts a chunk into the socket of a client: broadcasts move the
\* cursor, the raw writes of the handshake do not.
Gets(c) == sock'[c] > sock[c]
ByBroadcast == cursor' # cursor

Written ==
  IF ByBroadcast
  THEN [chunk |-> HalfOf(mutex), tx |-> stream[clients[cursor]]]
  ELSE [chunk |-> Raw(IF pc[Main] = "sendpk" THEN "pk" ELSE "hdr", cur),
        tx |-> stream[cur]]

Record ==
  /\ log' = IF \E t \in Caller : Broadcasting(t)
            THEN Append(log, HalfOf(CHOOSE t \in Caller : Broadcasting(t)))
            ELSE log
  /\ Len(log') <= MaxLog
  /\ start' = [c \in Client |->
       IF c \in Members' \ Members THEN Len(log) ELSE start[c]]
  /\ heard' = [c \in Client |->
       IF Gets(c) /\ ByBroadcast THEN Append(heard[c], HalfOf(mutex)) ELSE heard[c]]
  /\ sent' = [c \in Client |->
       IF Gets(c) THEN Append(sent[c], Written) ELSE sent[c]]

ONext == Next /\ Record

OSpec == OInit /\ [][ONext]_ovars

-----------------------------------------------------------------------------
MC == INSTANCE Multicast WITH Member <- Client, Item <- Half, members <- Members

(* Each call of broadcast_clients is one atomic write to everybody listed: *)
(* clients[] under clients_mutex implements a totally ordered multicast of *)
(* chunks, across connections being listed, removed and lost in between.   *)
TotalOrder == MC!MSpec

(* On the record of broadcasts nobody speaks before having been announced  *)
(* as joined (by Main) and nobody speaks or joins after having left.       *)
LifeInOrder ==
  \A i, j \in 1..Len(log) : (i < j /\ log[i].of = log[j].of) =>
    /\ log[j].kind = "join" => log[i].kind = "join"
    /\ log[i].kind = "left" => log[j].kind = "left"
    /\ log[i].kind = "join" \/ log[i].kind = "left"
         \/ \E k \in 1..i : log[k].of = log[i].of /\ log[k].kind = "join"

\* What is announced on a stream on which the handshake is over.
Announcements(c) == SelectSeq(sent[c], LAMBDA w : w.chunk.part # "raw" /\ w.tx = "open")

(* The two halves of an announcement reach every peer that has finished    *)
(* its handshake next to each other.                                       *)
FrameIntact ==
  \A c \in Client : \A i \in 1..(Len(Announcements(c)) - 1) :
    Announcements(c)[i].chunk.part = "len" =>
      Announcements(c)[i + 1].chunk = [Announcements(c)[i].chunk EXCEPT !.part = "body"]

(* Nothing but the handshake is written to a peer before its stream is     *)
(* open, that is, before the header with which it can decrypt.             *)
HandshakeFirst ==
  \A c \in Client : \A i \in 1..Len(sent[c]) :
    sent[c][i].chunk.part # "raw" => sent[c][i].tx = "open"
=============================================================================
