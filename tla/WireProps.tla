----------------------------- MODULE WireProps -----------------------------
(* What the two ends of a connection can rely on, and what they cannot. *)
EXTENDS Wire

TypeOK ==
  /\ offered \in Seq(Message) /\ accepted \in Seq(Message)
  /\ announcing \in Seq(Message) /\ mixed \in BOOLEAN
  /\ todo \in Seq({Length(Size[m]) : m \in Message} \cup {Body(m) : m \in Message})
  /\ sealed \in Seq({Length(Size[m]) : m \in Message} \cup {Body(m) : m \in Message})
  /\ Len(pipe) <= PipeCap + MaxFaults
  /\ writing \in BOOLEAN /\ reading \in BOOLEAN /\ broken \in BOOLEAN
  /\ pc \in {"len", "body", "done"}
  /\ net_length \in Nat /\ rx \in 0..Len(sealed) /\ faults \in 0..MaxFaults
  /\ replayed \in BOOLEAN
  /\ Len(got) <= Wanted

-----------------------------------------------------------------------------
Whole == INSTANCE Stream WITH offered <- sent

(* Whatever is tampered with, left out for want of memory or cut off by    *)
(* the end of a process, either loop accepts messages of the peer only, in *)
(* order and without a gap: recv_all over recv_raw implements Stream.  A   *)
(* message counts as offered once send_all has sealed its body.            *)
InOrderWithoutGap == Whole!SSpec

(* As long as nothing is tampered with, both ends live and announcements   *)
(* come one at a time, the bytes that are received, on their way and still *)
(* to be sent are the chunks not yet decrypted, in order: however send and *)
(* recv cut them up, send_raw and recv_raw neither lose nor repeat a byte  *)
(* and never run into the next.                                            *)
LastPos(k) == sealed[k].size + ABytes
FirstByte(k) == [chunk |-> k, pos |-> 1, intact |-> TRUE]
LastByte(k) == [chunk |-> k, pos |-> LastPos(k), intact |-> TRUE]
NextByte(b) == IF b.pos < LastPos(b.chunk) THEN [b EXCEPT !.pos = @ + 1] ELSE FirstByte(b.chunk + 1)

Underway == got \o (pipe \o rest)

NothingLost ==
  (faults = 0 /\ writing /\ reading /\ ~mixed) =>
    IF rx = Len(sealed) THEN Underway = <<>>
    ELSE /\ Underway # <<>>
         /\ Underway[1] = FirstByte(rx + 1)
         /\ Underway[Len(Underway)] = LastByte(Len(sealed))
         /\ \A i \in 1..(Len(Underway) - 1) : Underway[i + 1] = NextByte(Underway[i])

(* One chunk that does not decrypt is the last one the connection is good *)
(* for, unless its very bytes are replayed: they are consumed, the nonces   *)
(* never meet again, and no later chunk is accepted, although the client's *)
(* loop goes on without a word.                                            *)
NeverResumes == [][broken /\ ~replayed => UNCHANGED <<rx, accepted>>]_vars

(* When the peer is gone, the thread client_manage ends, at whatever byte  *)
(* it was: recv_all turns the end of the stream into the -1 of a failure   *)
(* and not into the 0 that the comment of client_manage waits for.         *)
LetsGo == (loop = "client_manage" /\ ~writing) ~> (pc = "done")

(* While nothing fails, every message that is offered is accepted, unless  *)
(* an empty one or one above the limit makes the reader hang up, a length  *)
(* that was never received ends the client, or another thread's            *)
(* announcement comes between the two calls of broadcast_clients.          *)
Arrival ==
  \A k \in 1..MaxMessages :
    Len(offered) >= k ~>
      (Len(accepted) >= k \/ faults > 0 \/ ~writing \/ ~reading \/ mixed)

(* And then nothing more arrives.  Where a body does not follow its length *)
(* at once, the client takes other bytes for it: the chunk after such a    *)
(* length is never decrypted, nor any later one, although nothing was      *)
(* tampered with and both ends live.                                       *)
OverlapIsFatal ==
  faults = 0 =>
    \A k \in 1..(Len(sealed) - 1) :
      sealed[k].kind = "len" /\ sealed[k + 1].kind = "len" => rx <= k
=============================================================================
