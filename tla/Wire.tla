-------------------------------- MODULE Wire --------------------------------
(***************************************************************************)
(* One direction of a connection, byte by byte: send_raw and recv_raw over *)
(* a stream socket, send_all and recv_all with their secretstream state,   *)
(* and above them the two loops that receive: client_manage of the server  *)
(* and the loop of handle_client_choice.  A message is two chunks, its     *)
(* length and its body, each sealed under the next nonce.  The client has  *)
(* one thread that writes; in the server any number of threads announce by *)
(* two calls of broadcast_clients, and the mutex is free between them.     *)
(*                                                                         *)
(* The network may alter, drop or repeat a byte, malloc may fail, and the  *)
(* writer may go away in the middle of a chunk.  An interrupted send or    *)
(* recv (EINTR) is tried again and changes nothing.                        *)
(***************************************************************************)
EXTENDS Integers, Sequences, SequencesExt

CONSTANTS
  Message,     \* the texts that may be sent
  Size,        \* Size[m]: the length of text m
  LenSize,     \* length of a length (4 in the code)
  ABytes,      \* crypto_secretstream_xchacha20poly1305_ABYTES
  Limit,       \* the 1 MB of client_manage
  Wrap,        \* 2^32, where net_length+1 becomes 0
  Stale,       \* what an uninitialized net_length_u may hold
  PipeCap,     \* bound: bytes on their way
  MaxMessages, \* bound: messages offered
  MaxFaults    \* bound: bytes tampered with and allocations refused

(***************************************************************************)
(* No text is as long as a length: what polycomm sends is an object with a *)
(* member, of at least 13 bytes.                                           *)
(***************************************************************************)
ASSUME WireAssumption ==
  /\ Size \in [Message -> Nat] /\ \A m \in Message : Size[m] # LenSize
  /\ {LenSize, ABytes, Limit, Wrap} \subseteq Nat \ {0}
  /\ Stale \subseteq 0..(Wrap - 1)
  /\ {PipeCap, MaxMessages, MaxFaults} \subseteq Nat

VARIABLES
  offered,     \* messages whose announcement has begun
  announcing,  \* those of which the body is still due, by different threads
  mixed,       \* whether one has begun before the last was finished
  sealed,      \* plaintexts pushed, in order; its length is the nonce of tx
  sent,        \* the messages whose body is among them
  todo, rest,  \* plaintexts still to push, and bytes of the last one still to send
  pipe,        \* bytes on their way
  writing, reading,  \* whether each end has its socket open
  loop,        \* which of the two loops reads
  pc, got,     \* what it receives, and the bytes recv_raw has so far
  net_length,  \* the last length it knows
  rx,          \* chunks pulled; the nonce of rx
  accepted,    \* messages decrypted and parsed
  broken,      \* whether a chunk has failed to decrypt
  faults,      \* faults so far
  replayed     \* whether the network has repeated a byte

writer == <<offered, announcing, mixed, sealed, sent, todo, rest>>
reader == <<pc, got, net_length, rx, accepted, broken>>
vars   == <<writer, pipe, writing, reading, loop, reader, faults, replayed>>

Length(n) == [kind |-> "len", size |-> LenSize, says |-> n]
Body(m)   == [kind |-> "body", size |-> Size[m], says |-> m]

\* The ciphertext of the k-th chunk.
Cipher(k, plain) ==
  [i \in 1..(plain.size + ABytes) |-> [chunk |-> k, pos |-> i, intact |-> TRUE]]

Init ==
  /\ loop \in {"client_manage", "handle_client_choice"}
  /\ offered = <<>> /\ announcing = <<>> /\ mixed = FALSE
  /\ sealed = <<>> /\ sent = <<>> /\ todo = <<>> /\ rest = <<>>
  /\ pipe = <<>> /\ writing = TRUE /\ reading = TRUE
  /\ pc = "len" /\ got = <<>> /\ net_length \in Stale /\ rx = 0
  /\ accepted = <<>> /\ broken = FALSE /\ faults = 0 /\ replayed = FALSE

-----------------------------------------------------------------------------
(***************************************************************************)
(* The writers: handle_chat and handle_command, or whoever calls           *)
(* broadcast_clients, which holds the mutex for one chunk.  None of them   *)
(* looks at what send_all returns.                                         *)
(***************************************************************************)
Idle == writing /\ todo = <<>> /\ rest = <<>>

Offer(m) ==
  /\ Idle /\ Len(offered) < MaxMessages
  /\ loop = "client_manage" => announcing = <<>>
  /\ offered' = Append(offered, m)
  /\ announcing' = Append(announcing, m)
  /\ mixed' = (mixed \/ announcing # <<>>)
  /\ todo' = <<Length(Size[m])>>
  /\ UNCHANGED <<sealed, sent, rest, pipe, writing, reading, loop, reader, faults, replayed>>

\* The second call of one of the threads.
Finish(i) ==
  /\ Idle /\ i \in 1..Len(announcing)
  /\ todo' = <<Body(announcing[i])>>
  /\ announcing' = RemoveAt(announcing, i)
  /\ UNCHANGED <<offered, mixed, sealed, sent, rest, pipe, writing, reading, loop, reader, faults, replayed>>

Push ==
  /\ writing /\ rest = <<>> /\ todo # <<>>
  /\ sealed' = Append(sealed, Head(todo))
  /\ sent' = IF Head(todo).kind = "body" THEN Append(sent, Head(todo).says) ELSE sent
  /\ rest' = Cipher(Len(sealed) + 1, Head(todo))
  /\ todo' = Tail(todo)
  /\ UNCHANGED <<offered, announcing, mixed, pipe, writing, reading, loop, reader, faults, replayed>>

\* send_all without memory for the ciphertext: the chunk is left out.
PushNoMemory ==
  /\ writing /\ rest = <<>> /\ todo # <<>> /\ faults < MaxFaults
  /\ faults' = faults + 1
  /\ todo' = Tail(todo)
  /\ UNCHANGED <<offered, announcing, mixed, sealed, sent, rest, pipe, writing, reading, loop, reader, replayed>>

\* Mutant: a partial send is taken for the whole chunk.
UnsentForgotten(n) == <<>>
Unsent(n) == SubSeq(rest, n + 1, Len(rest))

Send(n) ==
  /\ writing /\ reading
  /\ n \in 1..Len(rest) /\ Len(pipe) + n <= PipeCap
  /\ pipe' = pipe \o SubSeq(rest, 1, n)
  /\ rest' = Unsent(n)
  /\ UNCHANGED <<offered, announcing, mixed, sealed, sent, todo, writing, reading, loop, reader, faults, replayed>>

SendFails ==
  /\ writing /\ ~reading /\ rest # <<>>
  /\ rest' = <<>>
  /\ UNCHANGED <<offered, announcing, mixed, sealed, sent, todo, pipe, writing, reading, loop, reader, faults, replayed>>

\* The writer's process ends; a reset loses the last k bytes on their way.
WriterGone(k) ==
  /\ writing /\ k \in 0..Len(pipe)
  /\ writing' = FALSE
  /\ pipe' = SubSeq(pipe, 1, Len(pipe) - k)
  /\ rest' = <<>> /\ todo' = <<>> /\ announcing' = <<>>
  /\ UNCHANGED <<offered, mixed, sealed, sent, reading, loop, reader, faults, replayed>>

Tamper(i) ==
  /\ i \in 1..Len(pipe) /\ faults < MaxFaults
  /\ faults' = faults + 1
  /\ \/ pipe' = [pipe EXCEPT ![i].intact = FALSE] /\ UNCHANGED replayed
     \/ pipe' = RemoveAt(pipe, i) /\ UNCHANGED replayed
     \/ pipe' = InsertAt(pipe, i, pipe[i]) /\ replayed' = TRUE
  /\ UNCHANGED <<writer, writing, reading, loop, reader>>

-----------------------------------------------------------------------------
(***************************************************************************)
(* recv_raw and recv_all.  A failed pull leaves the state of rx where it   *)
(* was, while its bytes are gone; the end of the stream and a missing      *)
(* buffer give -1 as well.                                                 *)
(***************************************************************************)
Wanted == ABytes + (IF pc = "len" THEN LenSize ELSE net_length)

\* Mutant: recv_raw forgets what it has when recv returns less than it asked for.
ReceivedAnew(n) == SubSeq(pipe, 1, n)
Received(n) == got \o SubSeq(pipe, 1, n)

\* Mutant: recv is asked for the whole chunk again.
StillRoomAnew(n) == n <= Wanted
StillRoom(n) == Len(got) + n <= Wanted

Recv(n) ==
  /\ reading /\ pc # "done"
  /\ n \in 1..Len(pipe) /\ StillRoom(n)
  /\ got' = Received(n)
  /\ pipe' = SubSeq(pipe, n + 1, Len(pipe))
  /\ UNCHANGED <<writer, writing, reading, loop, pc, net_length, rx, accepted, broken, faults, replayed>>

\* Mutant: a chunk is opened under whatever nonce it was sealed with.
OpensAny(k) == \E j \in 1..Len(sealed) : got = Cipher(j, sealed[j])
Opens(k) == k <= Len(sealed) /\ got = Cipher(k, sealed[k])

Full == Len(got) = Wanted

\* What a chunk that opens says.
Plain == sealed[Head(got).chunk]

Pulled == pc # "done" /\ Full /\ Opens(rx + 1)

Failing ==
  \/ /\ Full /\ ~Opens(rx + 1)
     /\ broken' = TRUE /\ UNCHANGED faults
  \/ /\ (~Full /\ ~writing /\ pipe = <<>>) \/ ~reading
     /\ UNCHANGED <<broken, faults>>
  \/ /\ got = <<>> /\ faults < MaxFaults
     /\ faults' = faults + 1 /\ UNCHANGED broken

Failed == pc # "done" /\ Failing /\ got' = <<>> /\ UNCHANGED <<rx, accepted, net_length>>

-----------------------------------------------------------------------------
(***************************************************************************)
(* client_manage.                                                          *)
(***************************************************************************)
Done == pc' = "done" /\ reading' = FALSE

GotLength ==
  /\ Pulled /\ pc = "len"
  /\ rx' = rx + 1 /\ got' = <<>>
  /\ net_length' = Plain.says
  /\ \/ /\ loop = "client_manage" /\ net_length' > Limit
        /\ Done
     \/ /\ loop = "client_manage" => net_length' <= Limit
        /\ pc' = "body" /\ UNCHANGED reading
  /\ UNCHANGED <<writer, pipe, writing, loop, accepted, broken, faults, replayed>>

\* Mutant: only a length of nothing ends the thread, as the comment has it.
LengthEndsOnZero(ret) == ret = 0
LengthEnds(ret) == ret <= 0

ServerNoLength ==
  /\ loop = "client_manage" /\ pc = "len"
  /\ Failed
  /\ IF LengthEnds(-1) THEN Done ELSE pc' = "body" /\ UNCHANGED reading
  /\ UNCHANGED <<writer, pipe, writing, loop, replayed>>

\* Bytes nobody has decrypted do not parse; a body of no bytes ends the loop.
ServerNoBody ==
  /\ loop = "client_manage" /\ pc = "body"
  /\ Failed
  /\ pc' = "len"
  /\ UNCHANGED <<writer, pipe, writing, reading, loop, replayed>>

\* A length that is pulled as a body, for want of the right length, does not
\* parse: up to 16 MB it begins with a zero byte.
GotBody ==
  /\ Pulled /\ pc = "body" /\ net_length > 0
  /\ rx' = rx + 1 /\ got' = <<>>
  /\ accepted' = IF Plain.kind = "body" THEN Append(accepted, Plain.says) ELSE accepted
  /\ pc' = "len"
  /\ UNCHANGED <<writer, pipe, writing, reading, loop, net_length, broken, faults, replayed>>

GotNothing ==
  /\ Pulled /\ pc = "body" /\ net_length = 0
  /\ rx' = rx + 1 /\ got' = <<>>
  /\ \/ loop = "client_manage" /\ Done
     \/ loop = "handle_client_choice" /\ pc' = "len" /\ reading' = FALSE
  /\ UNCHANGED <<writer, pipe, writing, loop, net_length, accepted, broken, faults, replayed>>

-----------------------------------------------------------------------------
(***************************************************************************)
(* The loop of handle_client_choice.  A length that has not been received  *)
(* is what the stack holds, that is the one before; a failed body is a     *)
(* size_t greater than 0 and is parsed, in vain; the loop ends only when   *)
(* there is no memory for the body.                                        *)
(***************************************************************************)
ClientNoLength ==
  /\ loop = "handle_client_choice" /\ pc = "len"
  /\ Failed
  /\ pc' = "body"
  /\ UNCHANGED <<writer, pipe, writing, reading, loop, replayed>>

ClientNoBuffer ==
  /\ loop = "handle_client_choice" /\ pc = "body" /\ got = <<>> /\ faults < MaxFaults
  /\ faults' = faults + 1
  /\ Done
  /\ UNCHANGED <<writer, pipe, writing, loop, got, net_length, rx, accepted, broken, replayed>>

\* net_length+1 is 0, and json[net_length] is not in the buffer: the process
\* ends, unless it survives the write and goes on.
ClientOverrun ==
  /\ loop = "handle_client_choice" /\ pc = "body" /\ got = <<>>
  /\ (net_length + 1) % Wrap = 0
  /\ Done
  /\ UNCHANGED <<writer, pipe, writing, loop, got, net_length, rx, accepted, broken, faults, replayed>>

ClientNoBody ==
  /\ loop = "handle_client_choice" /\ pc = "body"
  /\ Failed
  /\ pc' = "len"
  /\ UNCHANGED <<writer, pipe, writing, reading, loop, replayed>>

-----------------------------------------------------------------------------
Sending == (\E i \in 1..Len(announcing) : Finish(i)) \/ Push \/ (\E n \in 1..Len(rest) : Send(n)) \/ SendFails

Answer ==
  \/ GotLength \/ GotBody \/ GotNothing
  \/ ServerNoLength \/ ServerNoBody
  \/ ClientNoLength \/ ClientNoBuffer \/ ClientOverrun \/ ClientNoBody

Receiving == (\E n \in 1..Len(pipe) : Recv(n)) \/ Answer

Next ==
  \/ \E m \in Message : Offer(m)
  \/ Sending
  \/ Receiving
  \/ PushNoMemory
  \/ \E k \in 0..Len(pipe) : WriterGone(k)
  \/ \E i \in 1..Len(pipe) : Tamper(i)

Spec == Init /\ [][Next]_vars

\* The threads of both ends are scheduled; a blocking call returns when it can.
FairSpec == Spec /\ WF_vars(Sending) /\ WF_vars(Receiving)
=============================================================================
