# polycomm in TLA+

Models, model checks and proofs for polycomm, a chat program of about a thousand lines of C:
one executable that is either the server (one thread per client) or the client (ncurses), over
TCP, with libsodium for the transport and a vendored cJSON for the messages. Line numbers below
refer to the files of the repository.

## 1. The system

| component | code | state | operations | properties that make it correct |
|---|---|---|---|---|
| accept loop | server.c `handle_server_choice`, client.c `init_client`, server.c `is_client_abusive`, network.c `handshake_server` | the connection being accepted, `username_id` | accept, list, grant tokens, check the address, handshake, announce, spawn | everyone who connects is served or turned away; the address limit; nothing is written to a peer before the handshake |
| `clients[]` | client.c globals, server.c `broadcast_clients`, `disconnect_client` | `clients`, `client_n`, `clients_mutex` | append, broadcast, swap removal | no holes, duplicates, freed or lost entries; every broadcast reaches everybody listed, in one order |
| `client_manage` | server.c | one `Client` struct per connection | receive, chat, rename, disconnect | one owner per struct; a frame stays in one piece; a name is not freed under a reader |
| refill thread | server.c `refill_messages` | `messages_remaining` of every client | one token per second up to 5 | the rate limit, with an unlocked decrement racing the increment |
| transport | network.c `send_raw`, `recv_raw`, `send_all`, `recv_all` | socket buffers, `tx_state`, `rx_state` | whole-chunk send and receive, encryption | a chunk arrives whole, once and in order, or the connection is good for nothing more |
| handshake | network.c `handshake_server`, `handshake_client` | session keys | keys and headers both ways | both ends have keys before the first message |
| `server.key` | network.c:79-90 | a file | read or create | one identity per server; what a crash leaves |
| trust store | network.c `is_server_impostor`, `mark_server_safe` | `known_servers.json` | look up, ask, add | nobody in without a confirmation; a stored key is compared ever after |
| client | client.c `handle_client_choice`, `handle_chat`, `handle_command`, `display_chat_message` | the connection, windows, two threads | send, receive, display, leave | a line is sent once; texts are shown in order |
| message log | client.c:211-236, 266-270 | `.<ip>.json` | replay, append | what was shown is replayed, but for what an end in the middle loses |
| start-up | polycomm.c `main`, `check_updates`, `write_callback`, util.c `show_menu` | a 32-byte buffer | download, compare, prompt, choose | a doubtful version is acknowledged; the buffer keeps its terminator |
| terminal | util.c | windows | draw | none worth a model |
| cJSON | cJSON/ | linked items, a parse buffer, a print buffer | parse, add, print, delete | accepts its grammar, stays inside its buffers, leaks nothing, reads back what it prints |

How they interact. The server process has three kinds of threads: `Main` (the accept loop, which
also runs every handshake), `Refill`, and one `client_manage` per served connection. They share
`clients[]` under `clients_mutex`, and the fields of the `Client` structs without any lock. A
broadcast holds the mutex while it sends on blocking sockets, so a peer that does not read is
part of the server's scheduling. A client struct passes from `Main` to its thread at
`pthread_create` and is freed by whichever of them calls `disconnect_client`. The client process
has two threads, the receive loop and the chat thread; client processes of one directory
share `known_servers.json`. Both sides hand what they receive to cJSON and send what it prints.

What is hard here: announcements of two threads interleaving between their two halves; the
table seen by a broadcast in the middle of somebody's arrival or departure; data races on
`messages_remaining` and `username`; results of handshake, send and receive that are not looked
at; blocking while holding the mutex; the full table; chunks that fail to decrypt while their
bytes are gone; files that are truncated and rewritten without a lock; a chat thread that starts
before its windows; allocations refused half-way through a parse. `PROJECT.json` lists each
hazard at its line.

## 2. Modules

| module | what it is | code |
|---|---|---|
| `Server` | the whole server process and its peers, one action per shared access | server.c:21-300, client.c:73-95, network.c:8-24 and 74-109 |
| `ServerProps` | type invariant, safety, action and liveness properties of `Server` | |
| `Multicast` | abstract specification: a totally ordered multicast with members that come and go | |
| `Order` | `Server` with a record of what is broadcast and sent, shown to implement `Multicast` | server.c:21-28, network.c:44-53 |
| `ServerRate` | `Server` with counters of messages let through and of refills, and of first grants that fell into a refill | server.c:30-43, 130-149, 268 |
| `Stream` | abstract specification: messages accepted in the order they were offered, without a gap | |
| `Wire`, `WireProps` | one direction of a connection, byte by byte, under both receive loops; shown to implement `Stream` | network.c:8-72, server.c:95-126, client.c:238-282 |
| `Trust`, `TrustProps` | the client processes of a directory, `known_servers.json` and `server.key` | network.c:79-92, 111-238 |
| `Startup` | `main`, `check_updates`, `write_callback`, the menu | polycomm.c, util.c |
| `ChatClient` | the client's two threads and its log over several runs; EXTENDS `Startup` | client.c:27-71, 97-290 |
| `JsonText` | strings: escapes, UTF-16 literals, the printed form | cJSON.c: `parse_hex4`, `utf16_literal_to_utf8`, `parse_string`, `print_string_ptr` |
| `JsonTree` | items on the heap, adding, deleting | cJSON.c: `cJSON_New_Item`, `cJSON_Delete`, `add_item_to_object`, `cJSON_AddStringToObject` |
| `JsonParse` | the recursive descent, with its stack of open lists | cJSON.c: `cJSON_ParseWithLengthOpts`, `parse_value`, `parse_array`, `parse_object`, `parse_number` |
| `JsonPrint` | the calls and the writes of the printer, into its growing buffer | cJSON.c: `ensure`, `update_offset`, `print`, `print_value`, `print_array`, `print_object`, `print_number` |
| `Json` | build or parse, add, print, delete, parse again | server.c:121-190, network.c:195-201, cJSON.c |
| `JsonSafety` | what `Json` keeps at every step: places, buffer, strings, lists, heap | |
| `JsonProps` | what `Json` accepts and reads back, against a recursive grammar | |
| `ServerProofs`, `ServerRateProofs`, `OrderProofs`, `WireProofs`, `TrustProofs`, `ClientProofs`, `JsonTextProofs`, `JsonProofs` | the proofs | |
| `MC...` | values for TLC | |

### Server

A `Client` (a member of the constant `Client`) is a connection: its struct, its socket, the peer
behind it and the thread that serves it. `pc[t]` is where thread `t` is; one label stands
before each access to state that other threads see.

- `clients`, `client_n`, `username_id`, `mutex` are the globals of client.c:21-25. `cursor` is the loop
  index of whichever loop runs under the mutex. Critical sections that touch nothing but what the
  mutex protects are one step taken while the mutex is free (`Register`, `Remove`, `CheckAbusive`);
  the three loops that block or race inside it take several steps and hold it:
  `broadcast_clients` (`BeginBroadcast`, `SendNext`, `EndBroadcast`), `refill_messages` (`RefillLock`,
  `RefillScan`, `RefillLoad`, `RefillAdd`, `RefillUnlock`), the name comparison (`UniqueLock`, `Compare`,
  `UniqueUnlock`).
- `mem`, `name`, `username`, `messages_remaining` are the fields of the struct: whether it and its
  username are allocated, and their values. Names are numbers: `k` is the `user_k` of
  `init_client`. Reading an unset or freed username sets `crashed` and ends the process, since the
  Makefile builds with `-fsanitize=address`. `Fill` is what malloc leaves in `messages_remaining`.
- `out[t]` is the announcement a thread is making and which half (length or body) comes next.
  `disconnect_client` is `Remove`, two broadcasts, `Close`, for `Main` and for a client's thread
  alike (`Subject` is the client it is about).
- `messages_remaining--` is `Load` and `Store`. The refill reads the field twice: `RefillScan` is the check of
  server.c:37, `RefillLoad` and `RefillAdd` are the `++` of line 38; `Grant` (line 268) may fall between any two of them.
- `accept()` below 0 ends the process (`AcceptFails`, where the constant `AcceptErrors` allows it).
- `handshake_server` is `SendPk`, `RecvPk`, `Push`, `SendHdr`, `RecvHdr`, run by `Main` on a connection
  that is listed already. Its ignored results are modelled: with the peer gone, the steps go on,
  and the key exchange may or may not refuse what was never received.
- `sock[c]` counts the chunks that peer `c` has not read; a send to an open peer waits while there
  are `SockCap` of them, and fails without effect on a closed one (SIGPIPE is ignored in
  polycomm.c:83). What a peer sends is chosen by the receiving step.

Message texts, JSON, logging and the leaks of early returns are not modelled here, and peers
speak the protocol as the polycomm client does (string members, real keys).

`Order` adds a record that no step reads: `log` is every chunk passed to `broadcast_clients`, `start[c]` how
long it was when `c` became a member, `heard[c]` what broadcasts have put into the socket of `c`, `sent[c]`
all that was written to it, with the state of its stream. A member is who is listed and still
connected: a send to a socket whose peer has gone fails, and nobody looks.

### Wire

An announcement is two calls. `Offer` hands over the length and `Finish` the body; in between the writer is
free (`announcing` holds the bodies that are due). A polycomm client has one thread that sends, so
to `client_manage` they come one at a time; to the client's loop they come from the threads of the server,
which release the mutex between the halves (server.c:140-141, 181-182, 291-292), and several may overlap
in any way. `mixed` records that they have.

A byte is `[chunk, pos, intact]`: which ciphertext it belongs to, where in it, and whether it is as it
was sealed. `rest` is what `send_raw` has still to send of the current chunk, `pipe` what is on its way,
`got` what `recv_raw` has. `Send(n)` and `Recv(n)` move any part. A chunk opens (`Opens`) when all its bytes
are there, intact, in order, and it was sealed under the nonce the reader is at (`rx`); a failed
pull leaves `rx` where it is. `sent` is the messages whose body has been sealed, as against `offered`, those
that have been begun: one whose ciphertext gets no memory is left out without anybody
noticing, and that is the one way in which a message between two others may be missing.

`Failed` is every way in which `recv_all` gives -1: a pull that
fails, the end of the stream, no memory. The two loops are `client_manage` (`GotLength`, `GotBody`,
`GotNothing`, `ServerNoLength`, `ServerNoBody`) and `handle_client_choice` (the same first three, then
`ClientNoLength`, `ClientNoBody`, `ClientNoBuffer`, `ClientOverrun`): where the first leaves on a missing length, the second goes on
with the length it had, or with what the stack held (`Stale`), so that it may pull the next length as a
body; such a body does not parse. A length of all ones makes `net_length+1` wrap to 0, and the client writes
outside its buffer (client.c:244-250): `ClientOverrun`, after which the process ends or, as if nothing
had happened, goes on. The faults are those of the
environment (a byte altered, lost or repeated, a process that ends) and of malloc.
Assumption: no message is as long as a length; what polycomm sends has at least 13 bytes.

A client that is listed between the two halves of somebody's announcement gets a body without its length; that is not
in `Wire`, where the reader is there from the start, but in `Order`.

### Trust

`known` is `known_servers.json`: absent, torn (truncated, or not parsing) or a text with its members in
order. `is_server_impostor` is one step (`Check`); `mark_server_safe` is `Open`, `Create`, `Braces`, `Read`,
`Truncate`, `Write`, and a process may end before any of them, since what is written reaches the file
when it is closed. The server reads `server.key` or makes it (`MakeKey`, `KeepKey`), and may end in
between. What a client is shown is the server's key, a forged one, or, with a result of `recv_raw`
that nobody looks at, what the stack held (`Junk`). Each read of a file is one step: the files are
smaller than a page. One server process per directory; nobody edits the files by hand.

### Startup and ChatClient

`mpc` and `cpc` are where the main and the chat thread are. The published version arrives in any
pieces. The chat thread may read before `init_ncurses`, when `wgetnstr` fails and the line is
whatever the stack holds (`ReadGhost`): nothing, a message or a command.

The log is the sequence of the texts written to it. A text is `whole` unless a run has ended inside
`fprintf`. `fgets` reads pieces of 4095 bytes, and cJSON parses the first value of a piece; `begins` says
whether a piece begins with the text, which is so when the text stands on a line of its own, and may be so
or not when a run has ended before the end of the line and the text is behind another one. Only a whole, short text with which a piece begins
is replayed (`Parsed`); that no piece that begins elsewhere passes for a message is not assumed but a
property of `JsonProps` (`PiecesSilent`). `Exit` ends the process in any step of either thread. One client
process per log. What happens between the keys of one line, inside `wgetnstr`, is ncurses'.

### Json

The functions that polycomm calls and everything they call, byte by byte: `cJSON_Parse` as a
machine with an explicit stack of open lists, `cJSON_Print` and `cJSON_PrintUnformatted` as a
list of what is still to be done (`tasks`), `cJSON_AddStringToObject`, `cJSON_Delete`. A tree is deleted
after it has been parsed or printed; after a print that failed nobody deletes it: client.c:55 returns and leaks
it, network.c:198 and server.c:72 go on with the NULL text. A task is a write, with what
it asks `ensure` for, or a call that is replaced by the tasks of its body: one step is a write or a
call, so the list stands for the call stack of `print_value`. Items are
numbered in the order of their allocation and keep their `next`, `prev` and `child`. Any allocation may be
refused. Escapes, digits, siblings and deletion are recursive functions over the numbers they
count, which TLAPS can expand; the grammar of `JsonProps` is recursive over the text. Numbers are integers
(no fraction, no exponent); `\u` with letters that are no hexadecimal digits is 0, as in `parse_hex4`.

## 3. Runs

| run | instance | shows |
|---|---|---|
| `core` | 3 connections of one address, table of 2, limit 3, 1 token | `TypeOK`, `RosterSound`, `RosterComplete`, `OneOwner` |
| `rate` | up to 3 connections of one address, table of 3, limit 2, 2 tokens, up to 2 refills, negative fill, name 0 (that of the first) | `RateLimit`, `TokenRange`, `IpLimit` |
| `live` | 2 connections, `FairSpec` | `Admission`, `Cleanup` |
| `order` | 2 connections, 5 broadcasts recorded | `LifeInOrder`, and `Order` implements `Multicast` (`TotalOrder`) |
| `wire` | texts of 0, 2 and 3 bytes, lengths and overhead of 1 byte, limit 2, 2 messages, 2 faults, stale lengths 0, 1 and 4, lengths below 5, `FairSpec` | `TypeOK`, `NothingLost`, `OverlapIsFatal`, `NeverResumes`; `Wire` implements `Stream` (`InOrderWithoutGap`); `LetsGo`, `Arrival` |
| `client` | 2 clients, 2 addresses, 4 connections, 2 keys, 1 crash; and 2 runs of one client, 3 texts received, 2 lines typed, 1 line from the stack, buffer of 4 | `OnlyConfirmed`, `KeptInTurn`, `OneIdentity`, `TornStays`; `VersionAcknowledged`, `ScreenInOrder`, `AtMostTwoLost`, `SaidOnce` |
| `json` | some twenty thousand texts, up to 2 members added, 1 allocation refused | `Grammar`, `InBounds`, `ListShape`, `NoLeak`, `WithinBuffer`, `RoundTrip`, `Utf16Decoded`, `OutputFits`, `PiecesSilent` |
| `rename` | 2 connections | violated: a name is freed under another thread's comparison |
| `per_ip` | 2 connections, limit 2 | violated: the newcomer is counted against itself |
| `frames` | 2 connections | violated: two announcements interleave their halves, on streams whose handshake is over |
| `handshake` | 2 connections | violated: a broadcast reaches a peer in the middle of its handshake |
| `pins` | 2 clients, no crash | violated: two clients that store at once lose a pin |

What the passing runs say in words: the table and the ownership of the structs are sound under
every interleaving; the rate limit gives a client at most two tokens a tick where it should be
one, because the unlocked decrement can be overwritten; a connection that has lost its place in
the byte stream, by a fault or by two announcements that overlap, delivers nothing more, and delivers nothing wrong; a server's thread ends when its peer does,
while the client's loop does not; a torn `known_servers.json` or `server.key` stays torn for good; a
client that is killed loses two logged messages at the most; cJSON, as polycomm uses it, keeps
inside its buffers and leaks nothing whichever allocation fails, but the tree of a failed print, which its
callers leave.

`IpLimit` and `per_ip` are the two sides of README.md:62 ("5 users per IP limit"): no more than the limit
are ever served, and yet the last one that the limit allows is turned away, since `is_client_abusive`
counts the newcomer that `init_client` has listed already. `TokenRange` has an exception for the same
reason: a client is listed before its first grant (server.c:267-268), so the grant may fall into a refill of that
client, which then stores one token too many or loses the grant. A full table ends the process at
the first use of the unset username; `core` gets there, and `rename` has the other way in which
`KeepsRunning` fails.

**Bounds.** Three connections are the least for which the swap removal moves an entry that is
neither the leaver's nor about to leave. In `core` the table of 2 is full with the third, and `MaxSame` 3 lets two be
served; in `rate` the table has room for all and `MaxSame` 2 turns connections away, so that both ways of
being refused meet clients at work. `MaxSame` 2 and 3 stand for 5, and `MaxTokens` 1 or 2 for 5: `RateLimit` needs 2, because
a stale sum must find a bucket that is neither empty nor full. With `+ ticks` in place of `+ 2 * ticks`,
or with the bounds of `TokenRange` made tighter by one, TLC finds a violation within these
bounds. The more rounds of refill, the fewer connections in `rate` (`Bounded`): three meet the limit of connections, which has
nothing to do with refills, and one is enough for a race with the refill, two for its waiting on a broadcast.
`Fill` is 1 in `core` and negative in `rate`, as what malloc leaves may be on either side of the check in
server.c:37. Table sizes 1 to 3 stand for 5000. `SockCap` 1 makes every send able to block (2 in the two runs about what a peer finds in its socket).
`MaxLog` and `MaxTicks` stop the recorded runs; five broadcasts hold a whole arrival, half an
announcement of the other connection and its departure. A connection happens once: a peer that
comes back is another member of `Client`.

In `wire` a chunk has two bytes or more, so that every cut of it is inside a chunk or at its end;
texts of 0, of the limit and above it take all branches of `client_manage`, and two messages are four
chunks, enough to lose one and find the next two tried in its place, and enough for two announcements to overlap. A stale length of 1 is the one under
which a length is pulled as a body, 4 the one at which `net_length+1` wraps (`Wrap` is 5 for 2^32), 0 an empty body. Two faults allow a byte to be
lost and another repeated. `client` holds two models that share no variable, and explores each while
the other stays at its start. Its four connections are a first use, its confirmation by another
client, an impostor and a return; two keys show a server that makes a second one; its two runs hold one end in the middle of a write and a replay of what it left; the version
buffer of 4 is met by versions that fit, fill it and overflow it. In `json` the default buffer is 6
bytes instead of 256, `INT_MAX` 60 and the nesting limit 2 instead of 1000, so that growth, doubling,
the limit and refusals for depth all happen on texts of a few bytes; the texts are all sequences of up to
four tokens, whole texts with each piece left out or replaced, and the `\u` literals at the edges of
one, two, three and four bytes and of the surrogates.

Symmetry is used for invariants, for action properties and for the refinement of `order`, never with
liveness. Deadlock is not checked where the system may stop: when all peers have gone and the
refills are used up, the process has crashed, or a bound is reached. In `json` it is checked, and the
last state of a text repeats itself.

**Fairness.** In `live` every thread is scheduled, and one that waits for the mutex eventually gets
it: strong fairness per thread, as the mutex is free repeatedly and not continuously; glibc's mutex
does not promise this in every schedule, and the run assumes it. Nothing in the server makes an
open peer send, so steps that wait for one are excepted (`Awaits`); a peer that is gone has sent
finitely many messages, so its thread reaches the end of the stream. `FairSpec` adds what only
the peers can promise, that they read (`PeersRead`) and answer the handshake (`PeersAnswer`); without either
one TLC finds `Admission` or `Cleanup` violated, since `Main` waits in the handshake and the
broadcasts hold the mutex while they send. In `wire` the threads of both ends are scheduled, and a
blocking call returns when there is something to return: weak fairness of `Sending` and of `Receiving`;
nothing is assumed of the faults.

## 4. Proofs

All theorems hold for every value of the constants that the ASSUMEs of the modules allow.

`ServerProofs`, from `ServerAssumption` alone, for every set of connections, table size, limits and fill:
`TypeCorrect`, `RosterCorrect`, `RosterCompleteCorrect`, `OwnerCorrect`. None of these is inductive by itself:
whether an entry may be freed depends on where every thread is. The invariant `Inv` adds

- `LockInv`: who is in a loop under the mutex holds it. Without it, another thread could reset
  `cursor` and the refill would read `clients[0]`;
- `Shape`: the array is injective up to `client_n` and Null behind;
- `Waiting`, `Life`, `Accepting`: a connection is untouched until accepted, belongs to `Main` until
  `Spawn` and to its thread until freed;
- `Enrolled`: `Main` gets past the first use of a username only with a client that is listed; a
  client of a full table has none, and ends the process there;
- `Alive`: who is listed is not freed, and who is announced as left is not listed.

The array is reasoned about twice only, in `UnlistShape` (swap removal takes out exactly one) and
`RegisterShape`; everywhere else the table is the set `Listed`. Most steps move one thread on within
the same phase, and the frame lemmas (`ClientFrame`, `MainFrame`, `IdleFrame`) say once that this
preserves the whole of `Control`. `InvStep` puts the pieces together, and temporal logic
does the rest.

The second half of `ServerProofs` builds on `Inv`. `IpLimitCorrect`: a newcomer that passes the check has
fewer than the limit listed at its address, itself included, and nobody else is admitted before it
is served; that every listed connection has an entry of its own to be counted (`EachCounted`) relates the
loop over the array to the set.

`ServerRateProofs` proves `RateLimitCorrect` with an account (`Account`): what a client has spent and
still holds, and what the current round may yet give it, stays within `MaxTokens + 2 * ticks`. A round is
worth two: the token, and a decrement between the load and the store of the increment, which the
increment undoes. The same bound holds for the value a thread holds in its register between its
load and its store, since that value may become the count.

Its second half proves `TokensCorrect`. The purse of a client (`Purse`) is what it holds and every number that a thread has read of it
and will write back; all of them stay within the same bounds. A decrement that has passed the token check cannot
take the last token twice, whatever a refill with an old value writes over it, because the refill writes
at least one more than the least there can be. That `RefillScan` has found room says nothing of what `RefillLoad` reads if the first grant
falls between them; `raced` remembers for which clients that may have happened, and the bounds of those are
wider (`Floor`, `Ceil`).

`OrderProofs` is about the record of `Order`, on top of `Inv`. `LifeInOrderCorrect`: the property alone says
nothing of who may speak next, so `Voice` adds, for every connection and phase, which kinds of
announcement can be on the record (`SaysOnly`): none before it is registered, "joined" at most once Main
is announcing it, no "left" while its thread serves it, nothing but "left" of one that Main refuses; and
that who has a thread has been announced. `TotalOrderCorrect` is a refinement, with
`members`, `log`, `start` and `heard` as the mapping. Its invariant `Reach` says that between two broadcasts
every member has heard the whole record since it joined (`MC!Quiet`), and that while a thread is inside
the loop of `broadcast_clients` the members at `cursor` and behind lack exactly the last chunk, which is
that thread's (`UnderWay`). That a newcomer has heard nothing (`Fresh`) makes its listing a `Join`; that the
thread in the loop is alone with table and cursor (`SenderAlone`) comes from the mutex. Each step of the
server is then an `Issue`, a `Join`, a `Leave`, a `Hear` or a stutter of `Multicast`.

`WireProofs` proves `NeverResumesCorrect`. Bytes are ordered by chunk and position; until one is
repeated, received, travelling and unsent bytes together ascend, and all belong to chunks not yet
opened (`InOrder`). When a full chunk fails, its first byte is gone; everything left comes after it,
so the first byte of the chunk the reader waits for is not among what is left (`Astray`), and no chunk can be opened again.
Altering, losing and cutting bytes are one case: the new sequence is a thinned old one (`Thinned`).

The second half of `WireProofs` builds on it.

- `WireTypeCorrect`: `TInv` bounds the bytes in the pipe by the faults so far (a repeated byte goes into
  a full pipe), and says that a reader that has hung up holds nothing, since `Wanted` depends on `pc`.
- `InOrderWithoutGapCorrect`, that `Wire` implements `Stream`: the reader counts chunks, the writer messages.
  `Tally` is a function of how many of the first `i` chunks are bodies and which messages they carry, and
  `Counted` that the reader has accepted as many messages as it has pulled bodies; a pull, which opens
  chunk `rx + 1` or nothing, then accepts the next message or none. This holds under every fault.
- `NothingLostCorrect`: while all is well (`Calm`: no fault, both ends there, no two announcements overlapping), chunks alternate between a length and the body it announces
  (`Paired`, the body that `Finish` still owes included), the reader waits for the one that comes next and with its length (`Turn`), and all bytes under way
  run from the first byte not pulled to the last one sealed, each followed by its successor
  (`Run`). That a full `got` is then the next chunk and nothing else (`RunFirst`) is proved by a
  least counterexample; without `Turn` the reader could wait for the wrong number of bytes.

`TrustProofs` proves `OnlyConfirmedCorrect`, `OneIdentityCorrect`, `TornStaysCorrect`, `KeptInTurnCorrect`. The
invariant says where every pair in the file, in a parsed copy and in a client's hand comes
from; that `server.key` is whole once shown; and, while clients take turns, that the copy of the one
that writes holds all pins. That `cJSON_GetObjectItemCaseSensitive` finds the first member, and that
appending does not change what it finds, is proved from the least index.

`ClientProofs` is about the client process over any number of runs. Its versions are texts: that
`Local` and `Remotes` hold sequences of strings is part of `StartupAssumption`.

- `VersionAcknowledgedCorrect`: what has been downloaded and what is left make up the
  published text (`Fetched`), so the comparison is of all of it (`Judged`).
- `ScreenInOrderCorrect`: the texts of the log are in the order of their arrival, the part before what was in hand (`Filed`),
  and what is on the screen precedes what is still to be replayed or shown (`Drawn`). That what is replayed was shown by
  an earlier run needs more (`Seen`): every text of the log that can be replayed was shown before it was written.
- `AtMostTwoLostCorrect`: the bound is not inductive, since a line without an end will swallow the next
  text. `LInv` pays for it in advance: the texts lost, and one more while the last line is open, are at
  most two for every interrupted run. `ReplayedEverAfter` is the action property behind it: no step
  takes a text that can be replayed out of the log.
- `SaidOnceCorrect`: what has been sent was typed, in order and before the line in hand (`Said`, `Unsaid`).

`JsonTextProofs` is about the strings alone, `JsonProofs` about the machine; they assume
`TextsAssumption` (no 0 inside a text or a name) and `SizeAssumption` (the first buffer is not empty), and
nothing of `Texts`, `Members`, the nesting limit, `IntMax` or the number of refused allocations.

`JsonTextProofs` follows `parse_string` and `print_string_ptr` through their loops, by induction over the
position. Reading: the first scan stops at the closing quote or at the end, counting the bytes that
escapes will not produce, and what the second scan has written never exceeds what it has passed
less what is still to be skipped (`TakesCount`); a \u literal yields the shortest UTF-8 of its code point.
Writing: the room counted for the escapes is the room they take. `StringsReadBack` puts the
two together: written at any place of any text, every string is read back as it was,
escaped control characters included, and the reader ends behind its own quote.

`JsonProofs` has one inductive invariant, `IndInv`, of five parts:

- `PlaceOK`: types; the offset stands before the terminator or on it while a text is parsed; links go to
  items allocated later (`LinksOK`), frames to open lists (`FrameOK`), and what is current is
  there (`PhaseOK`, `FreshOK`). `InBounds` follows. That links go forward is what makes the
  functions over siblings and subtrees well founded, and all inductions over the tree run downwards from the
  last item;
- `KindOK`: in a finished tree every item has a type that prints, a string has its bytes and
  a member its name; without it the printer could meet an item of the type invalid, for which it has no
  text, or a member without a name;
- `PrintOK`: every pending write asks for at least what it writes, every pending call is for an
  item that is there, at the depth its tabulators need, and what comes last is the end of a
  value; so the buffer is terminated when the list is empty (`WithinBuffer`). `WithinBuffer` alone speaks only of the
  write at hand;
- `HeapOK`: every live item but the root has exactly one owner, a `next`, a `child` or an open
  frame; what a live item points to is live; the strings counted are those of live items
  (`Blocks`). `NoLeak` says only that nothing is left at the end; that `cJSON_Delete` reaches all and frees
  none twice is proved from the single owner;
- `ListOK`: there is a function `up`, the parent of every item, under which lists are linked in both
  directions and the head knows the last item, or the open frame does. `ListShape` says it with sequences of
  siblings; that every item is in exactly one of them needs the parent to be one for a whole list.

`JsonSafety`'s string properties (`OutputFits`, `Utf16Decoded`) follow from the lemmas of `JsonTextProofs` in
every state with a text. Most actions are first reduced to their effect (`AddStep`, `CommaStep`,
`CloseStep`, ...): which fields of which items change; each part of `IndInv` is then proved from effects
alone, and several actions share one.

Every invariant was checked by TLC before it was proved, the inductive ones included (`IndInv` on the
instance of `json`, all of its states). Left to TLC are `Grammar`, `RoundTrip` and `PiecesSilent`: they compare the
machine with a grammar that is recursive over whole texts, a RECURSIVE operator, which none of the installed
provers can expand, and an induction over all trees; of `RoundTrip` the part about strings is `StringsReadBack`. Left to TLC is
`OverlapIsFatal`, and liveness (`Admission`, `Cleanup`, `LetsGo`, `Arrival`), which is beyond TLAPS. Every other
property of a passing run is a theorem.

## 5. What is not modelled, and the plan

Not modelled:

- the set-up before the accept loop (socket, bind, listen), which runs once and alone, and
  failures of malloc and pthread_create in the server;
- drawing on the terminal (banner, windows, colours): no other state depends on it;
- in `Wire`, a client that is listed in the middle of an announcement (`Order` has it), and what a client does that survives
  the write of `ClientOverrun` with its memory damaged;
- polycomm's own leaks of parsed messages (client.c:55, 122; server.c's early returns): they change no other
  state. `NoLeak` is about what cJSON allocates and polycomm does delete;
- libsodium, ncurses and libcurl beyond what their callers see of them;
- the functions of cJSON that polycomm never calls, and its fractions and exponents;
- the length of a renamed name (server.c:188 stores all of it, README.md:64 promises 16 characters): a name
  is a value without a length here, and a property would restate one assignment.

Left to do:

1. A module of the names (server.c:157-188, client.c:88): with a history of who was between check and
   assignment at the same time, a name is shared only by such clients. It needs a table of two
   entries, and so a run of its own.
2. `RoundTrip` from `StringsReadBack`: that the parser, run over what the printer wrote, rebuilds the
   tree, with an invariant that relates the parser's stack to the printed tree. The grammar would have to be a
   function over positions, as the strings are.
