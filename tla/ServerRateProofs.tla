-------------------------- MODULE ServerRateProofs --------------------------
(***************************************************************************)
(* Proofs about the rate limit and the tokens a client holds, for any      *)
(* number of clients, any limit and any number of rounds of                *)
(* refill_messages.                                                        *)
(***************************************************************************)
EXTENDS ServerRate, ServerProofs

-----------------------------------------------------------------------------
Low == IF Fill < 0 THEN Fill ELSE 0

LEMMA Limits == Low \in Int /\ Low <= 0 /\ Low <= Fill /\ MaxTokens \in Int /\ MaxTokens > 0
  BY ServerAssumption DEF Low

\* From the first grant on, until Main has turned the client away.
Before == {"accept", "register", "grant"}
Granted(c) == pc[c] # "idle" \/ (c = cur /\ pc[Main] \notin Before)

\* Between the token check of client_manage and the load of its decrement.
Spends(c) ==
  \/ pc[c] \in {"unique", "compare", "load"}
  \/ pc[c] \in {"bcast", "send"} /\ out[c].kind # "left"

-----------------------------------------------------------------------------
(***************************************************************************)
(* The account of a client.  What it has spent and still holds, and what   *)
(* this round may yet give it, stays within its budget.  A round gives     *)
(* two: the token, and the one that a decrement between the load and the   *)
(* store of the increment loses.                                           *)
(***************************************************************************)
Budget == MaxTokens + 2 * ticks

\* A message that is let through is paid for by the store of the decrement.
Pending(c) == IF out[c].kind \in {"chat", "rename"} THEN 1 ELSE 0
Paid(c) == spent[c] - Pending(c)

\* Clients that this round has not come to yet.
Due(c) ==
  /\ mutex = Refill
  /\ \E i \in 1..client_n :
       clients[i] = c /\ i >= cursor /\ ~(pc[Refill] = "add" /\ i = cursor)
Gain(c) == IF Due(c) THEN 2 ELSE 0

\* A decrement that needs no mutex any more.
Loose(c) == IF pc[c] \in {"load", "store"} THEN 1 ELSE 0

Adding(c) == pc[Refill] = "add" /\ clients[cursor] = c

Calm == {"idle", "recv", "unique", "compare", "free", "dup", "remove"}

Account(c) ==
  /\ pc[c] \in Calm => out[c].kind = "none"
  /\ pc[c] \in {"load", "store"} => out[c].kind \in {"chat", "rename"}
  /\ pc[c] = "close" => out[c].kind = "left"
  /\ pc[c] = "idle" => spent[c] = 0
  /\ spent[c] <= Budget
  /\ pc[c] \in {"unique", "compare"} => spent[c] < Budget
  /\ Granted(c) => messages_remaining[c] + Paid(c) + Gain(c) <= Budget
  /\ pc[c] = "store" => reg[c] + Paid(c) + Gain(c) <= Budget
  /\ Adding(c) => reg[Refill] + 1 + Paid(c) + Loose(c) <= Budget

\* A refill between its check and its load.
Checked(c) == pc[Refill] = "incr" /\ clients[cursor] = c

\* A client whose grant is so recent that a refill may still hold the number
\* from before it: Main is yet to lock the mutex.
Fresh(c) == c = cur /\ pc[Main] = "abusive"

\* The bounds of what a client holds once it has been granted its tokens.
Floor(c) == IF raced[c] /\ Fill < 0 THEN Fill + 1 ELSE 0
Ceil(c)  == IF raced[c] THEN MaxTokens + 1 ELSE MaxTokens

\* What is left of the grant, however much has been refilled.
Kept(c) == MaxTokens - Paid(c)

Held(c) ==
  /\ messages_remaining[c] >= Floor(c) /\ messages_remaining[c] <= Ceil(c)
  /\ Spends(c) => messages_remaining[c] > Floor(c)
  /\ pc[c] = "store" => reg[c] > Floor(c) /\ reg[c] <= Ceil(c)
  /\ Checked(c) => messages_remaining[c] < Ceil(c)
  /\ Adding(c) => /\ reg[Refill] + 1 >= Floor(c) /\ reg[Refill] < Ceil(c)
                  /\ ~Fresh(c) => reg[Refill] >= Floor(c)
  /\ ~raced[c] => /\ messages_remaining[c] >= Kept(c)
                  /\ pc[c] = "store" => reg[c] >= Kept(c)
                  /\ Adding(c) => reg[Refill] + 1 >= Kept(c)

\* Before the grant, a field holds what malloc left and refills add to.
Unset(c) ==
  /\ messages_remaining[c] >= Low
  /\ Checked(c) => messages_remaining[c] < MaxTokens
  /\ Adding(c) => reg[Refill] >= Low /\ reg[Refill] < MaxTokens

Tokens ==
  /\ raced \in [Client -> BOOLEAN]
  /\ \A c \in Client : IF Granted(c) THEN Held(c) ELSE Unset(c)

Rate ==
  /\ spent \in [Client -> Nat] /\ ticks \in Nat
  /\ mutex = Refill => ticks >= 1
  /\ \A c \in Client : Account(c)

LEMMA Amounts ==
  ASSUME TypeOK, spent \in [Client -> Nat], ticks \in Nat, NEW c \in Client
  PROVE  /\ Budget \in Int /\ Pending(c) \in {0, 1} /\ Gain(c) \in {0, 2} /\ Loose(c) \in {0, 1}
         /\ Paid(c) \in Int /\ spent[c] \in Nat /\ Paid(c) + Pending(c) = spent[c]
         /\ messages_remaining[c] \in Int /\ reg[c] \in Int /\ reg[Refill] \in Int
         /\ pc[c] \notin {"load", "store"} => Loose(c) = 0
         /\ pc[c] \in {"load", "store"} => Loose(c) = 1
  <1>1. c \in Thread /\ Refill \in Thread
    BY DEF Thread, Caller
  <1>2. messages_remaining[c] \in Int /\ reg[c] \in Int /\ reg[Refill] \in Int
    BY <1>1 DEF TypeOK
  <1>3. Budget \in Int
    BY Limits DEF Budget
  <1>4. Pending(c) \in {0, 1} /\ Gain(c) \in {0, 2} /\ spent[c] \in Nat
    BY DEF Pending, Gain
  <1> QED
    BY <1>2, <1>3, <1>4 DEF Paid, Loose

-----------------------------------------------------------------------------
\* A step of another thread gives a round nothing more to give, and what it is
\* about to write stays.
LEMMA RoundGain ==
  ASSUME Inv, Next, ~RefillStep, NEW c \in Client
  PROVE  (Due(c)' => Due(c)) /\ (Adding(c)' => Adding(c)) /\ Gain(c)' <= Gain(c)
         /\ reg'[Refill] = reg[Refill]
  <1>1. Refill \in Thread
    BY DEF Thread
  <1>2. Due(c)' => Due(c)
    BY RoundKept DEF Inv, Due
  <1>3. Adding(c)' => Adding(c)
    <2>1. pc'[Refill] = "add" => pc[Refill] = "add" /\ mutex = Refill
      BY <1>1, RoundKept DEF Inv, LockInv, Holds
    <2> QED
      BY <2>1, RoundKept DEF Inv, Adding
  <1>4. Gain(c)' <= Gain(c)
    BY <1>2 DEF Gain
  <1> QED
    BY <1>2, <1>3, <1>4, RoundKept DEF Inv

\* The account of a client about which a step does nothing.
LEMMA AccountKept ==
  ASSUME TypeOK, TypeOK', Rate, spent' \in [Client -> Nat], ticks' \in Nat, NEW c \in Client,
         pc'[c] = pc[c], out'[c] = out[c], spent'[c] = spent[c], reg'[c] = reg[c],
         messages_remaining'[c] = messages_remaining[c], Granted(c)' => Granted(c),
         Budget <= Budget', Gain(c)' - Gain(c) <= Budget' - Budget,
         Adding(c)' => Adding(c) /\ reg'[Refill] = reg[Refill]
  PROVE  Account(c)'
  <1>1. Account(c) /\ spent \in [Client -> Nat] /\ ticks \in Nat
    BY DEF Rate
  <1>2. /\ Budget \in Int /\ Pending(c) \in {0, 1} /\ Gain(c) \in {0, 2} /\ Loose(c) \in {0, 1}
        /\ Paid(c) \in Int /\ spent[c] \in Nat
        /\ messages_remaining[c] \in Int /\ reg[c] \in Int /\ reg[Refill] \in Int
    BY <1>1, Amounts
  <1>3. Budget' \in Int /\ Gain(c)' \in {0, 2}
    <2>1. Budget' \in Int
      BY Limits DEF Budget
    <2> QED
      BY <2>1 DEF Gain
  <1>4. Paid(c)' = Paid(c) /\ Loose(c)' = Loose(c)
    BY DEF Paid, Pending, Loose
  <1>5. spent'[c] <= Budget'
    BY <1>1, <1>2, <1>3 DEF Account
  <1>6. pc[c] \in {"unique", "compare"} => spent'[c] < Budget'
    BY <1>1, <1>2, <1>3 DEF Account
  <1>7. Granted(c)' => messages_remaining'[c] + Paid(c)' + Gain(c)' <= Budget'
    BY <1>1, <1>2, <1>3, <1>4 DEF Account
  <1>8. pc[c] = "store" => reg'[c] + Paid(c)' + Gain(c)' <= Budget'
    BY <1>1, <1>2, <1>3, <1>4 DEF Account
  <1>9. Adding(c)' => reg'[Refill] + 1 + Paid(c)' + Loose(c)' <= Budget'
    BY <1>1, <1>2, <1>3, <1>4 DEF Account
  <1> QED
    BY <1>1, <1>5, <1>6, <1>7, <1>8, <1>9 DEF Account
-----------------------------------------------------------------------------
(* What the counters do in a step.                                         *)
LEMMA Counters ==
  ASSUME Inv, Rate, RNext
  PROVE  /\ spent' \in [Client -> Nat] /\ ticks' \in Nat /\ (mutex' = Refill => ticks' >= 1)
         /\ \A c \in Client : spent'[c] = IF LetThrough(c) THEN spent[c] + 1 ELSE spent[c]
         /\ \A c \in Client : out'[c] = out[c] => spent'[c] = spent[c]
  <1>1. \A c \in Client : spent'[c] = IF LetThrough(c) THEN spent[c] + 1 ELSE spent[c]
    BY DEF RNext
  <1>2. spent' \in [Client -> Nat]
    BY DEF Rate, RNext
  <1>3. ticks' \in Nat /\ (mutex' = Refill => ticks' >= 1)
    BY DEF Rate, RNext
  <1>4. \A c \in Client : out'[c] = out[c] => ~LetThrough(c)
    BY DEF LetThrough
  <1> QED
    BY <1>1, <1>2, <1>3, <1>4

LEMMA BudgetKept ==
  ASSUME Inv, Rate, RNext, ~RefillStep
  PROVE  Budget' = Budget /\ Budget \in Int
  <1>1. ticks' = ticks
    BY RoundKept DEF RNext, Inv
  <1> QED
    BY <1>1, Limits DEF Budget, Rate

LEMMA Bystander ==
  ASSUME Inv, TypeOK', Rate, RNext, ~RefillStep, NEW c \in Client,
         pc'[c] = pc[c], out'[c] = out[c], reg'[c] = reg[c],
         messages_remaining'[c] = messages_remaining[c], Granted(c)' => Granted(c)
  PROVE  Account(c)'
  <1>1. spent'[c] = spent[c] /\ spent' \in [Client -> Nat] /\ ticks' \in Nat
    BY Counters
  <1>2. Budget' = Budget /\ Budget \in Int
    BY BudgetKept
  <1>3. Gain(c)' <= Gain(c) /\ (Adding(c)' => Adding(c)) /\ reg'[Refill] = reg[Refill]
    BY RoundGain DEF RNext
  <1>4. Gain(c) \in {0, 2} /\ Gain(c)' \in {0, 2}
    BY DEF Gain
  <1>5. Gain(c)' - Gain(c) <= Budget' - Budget /\ Budget <= Budget'
    BY <1>2, <1>3, <1>4
  <1>6. TypeOK
    BY DEF Inv
  <1> QED
    BY <1>1, <1>3, <1>5, <1>6, AccountKept

\* A step of c itself that neither spends nor comes to the decrement.
LEMMA OwnKept ==
  ASSUME Inv, TypeOK', Rate, RNext, ~RefillStep, NEW c \in Client, pc[c] # "idle",
         reg'[c] = reg[c], messages_remaining'[c] = messages_remaining[c],
         spent'[c] - Pending(c)' = Paid(c),
         spent'[c] <= Budget,
         pc'[c] \notin {"idle", "load", "store"},
         pc'[c] \in Calm => out'[c].kind = "none",
         pc'[c] = "close" => out'[c].kind = "left",
         pc'[c] \in {"unique", "compare"} => spent'[c] < Budget
  PROVE  Account(c)'
  <1>1. TypeOK /\ Account(c) /\ spent \in [Client -> Nat] /\ ticks \in Nat
    BY DEF Inv, Rate
  <1>2. spent' \in [Client -> Nat] /\ ticks' \in Nat
    BY Counters
  <1>3. Budget' = Budget /\ Budget \in Int
    BY BudgetKept
  <1>4. Gain(c)' <= Gain(c) /\ (Adding(c)' => Adding(c)) /\ reg'[Refill] = reg[Refill]
    BY RoundGain DEF RNext
  <1>5. /\ Gain(c) \in {0, 2} /\ Loose(c) \in {0, 1} /\ Paid(c) \in Int
        /\ messages_remaining[c] \in Int /\ reg[c] \in Int /\ reg[Refill] \in Int
    BY <1>1, Amounts
  <1>6. Gain(c)' \in {0, 2} /\ Loose(c)' = 0 /\ Paid(c)' = Paid(c)
    BY DEF Gain, Loose, Paid
  <1>7. Granted(c)
    BY DEF Granted
  <1>8. messages_remaining'[c] + Paid(c)' + Gain(c)' <= Budget'
    BY <1>1, <1>3, <1>4, <1>5, <1>6, <1>7 DEF Account
  <1>9. Adding(c)' => reg'[Refill] + 1 + Paid(c)' + Loose(c)' <= Budget'
    BY <1>1, <1>3, <1>4, <1>5, <1>6 DEF Account
  <1> QED
    BY <1>3, <1>8, <1>9 DEF Account

\* A message that is let through is within the budget when it is counted.
LEMMA OwnSpends ==
  ASSUME Inv, TypeOK', Rate, RNext, ~RefillStep, NEW c \in Client, pc[c] # "idle",
         reg'[c] = reg[c], messages_remaining'[c] = messages_remaining[c],
         NEW kind \in {"chat", "rename"}, Announce(c, kind),
         out[c].kind = "none", spent[c] < Budget
  PROVE  Account(c)'
  <1>1. TypeOK /\ c \in Thread /\ c \in Caller /\ spent[c] \in Nat
    BY DEF Inv, Thread, Caller, Rate
  <1>2. pc'[c] = "bcast" /\ out'[c].kind = kind
    BY <1>1 DEF Announce, Goto, TypeOK
  <1>3. spent'[c] = spent[c] + 1
    BY <1>2, Counters DEF LetThrough
  <1>4. Paid(c) = spent[c] /\ Pending(c)' = 1
    BY <1>1, <1>2 DEF Paid, Pending
  <1>5. spent'[c] <= Budget
    BY <1>1, <1>3, BudgetKept
  <1> QED
    BY <1>1, <1>2, <1>3, <1>4, <1>5, OwnKept DEF Calm

LEMMA MainRate ==
  ASSUME Inv, TypeOK', Rate, RNext, MainStep, ~RefillStep
  PROVE  \A c \in Client : Account(c)'
  <1> USE DEF Inv, locals, heap, net
  <1>1. TypeOK /\ Main \in Thread /\ Main \in Caller /\ Client \subseteq Thread /\ Main \notin Client
    BY Threads DEF Thread, Caller
  <1>2. ASSUME NEW l, Goto(Main, l)
        PROVE  pc'[Main] = l /\ \A c \in Client : pc'[c] = pc[c]
    BY <1>1, <1>2 DEF Goto, TypeOK
  <1>3. ASSUME NEW v, out' = [out EXCEPT ![Main] = v]
        PROVE  \A c \in Client : out'[c] = out[c]
    BY <1>1, <1>3 DEF TypeOK, Caller
  <1>4. CASE Grant
    <2>1. cur' = cur /\ out' = out /\ reg' = reg /\ mutex' = mutex /\ \A c \in Client : pc'[c] = pc[c]
      BY <1>2, <1>4 DEF Grant, lock
    <2>2. cur \in Client /\ pc[cur] = "idle"
      BY <1>4 DEF Grant, Control, Accepting
    <2>3. /\ messages_remaining'[cur] = MaxTokens
          /\ \A c \in Client : c # cur => messages_remaining'[c] = messages_remaining[c]
      BY <1>4, <2>2 DEF Grant, TypeOK
    <2>4. ASSUME NEW c \in Client, c # cur PROVE Account(c)'
      <3>1. Granted(c)' => Granted(c)
        BY <2>1, <2>4 DEF Granted
      <3> QED
        BY <2>1, <2>3, <2>4, <3>1, Bystander
    <2>5. ASSUME NEW c \in Client, c = cur PROVE Account(c)'
      <3>1. Account(c) /\ spent \in [Client -> Nat] /\ ticks \in Nat
        BY <2>5, <2>2 DEF Rate
      <3>2. out'[c].kind = "none" /\ spent'[c] = 0 /\ pc'[c] = "idle"
        BY <2>5, <2>1, <2>2, <3>1, Counters DEF Account, Calm
      <3>3. Paid(c)' = 0 /\ Paid(c) = 0 /\ Loose(c)' = 0 /\ Loose(c) = 0
        <4>1. spent[c] = 0 /\ out[c].kind = "none" /\ pc[c] = "idle"
          BY <2>2, <2>5, <3>1 DEF Account, Calm
        <4>2. Pending(c) = 0 /\ Pending(c)' = 0
          BY <3>2, <4>1 DEF Pending
        <4> QED
          BY <3>2, <4>1, <4>2 DEF Paid, Loose
      <3>4. Budget' = Budget /\ Budget >= 0 /\ Budget \in Int
        BY <2>5, <3>1, BudgetKept, Limits DEF Budget
      <3>5. MaxTokens + Gain(c)' <= Budget
        <4>1. CASE mutex' = Refill
          <5>1. ticks >= 1
            BY <2>5, <2>1, <4>1 DEF Rate
          <5>2. Gain(c)' <= 2 /\ Gain(c)' \in Int
            BY <2>5 DEF Gain
          <5> QED
            BY <2>5, <3>1, <5>1, <5>2, Limits DEF Budget
        <4>2. CASE mutex' # Refill
          <5>1. Gain(c)' = 0
            BY <2>5, <4>2 DEF Gain, Due
          <5> QED
            BY <2>5, <3>1, <5>1, Limits DEF Budget
        <4> QED
          BY <2>5, <4>1, <4>2
      <3>6. Gain(c)' \in Int /\ MaxTokens \in Int
        BY <2>5, Limits DEF Gain
      <3>7. messages_remaining'[c] + Paid(c)' + Gain(c)' <= Budget'
        BY <2>5, <2>3, <3>3, <3>4, <3>5, <3>6
      <3>8. Adding(c)' => Adding(c) /\ reg'[Refill] = reg[Refill]
        BY <2>5, <2>2, RoundGain DEF RNext
      <3>9. Adding(c)' => reg'[Refill] + 1 + Paid(c)' + Loose(c)' <= Budget'
        BY <2>5, <3>1, <3>3, <3>4, <3>8 DEF Account
      <3> QED
        BY <2>5, <3>2, <3>4, <3>7, <3>9 DEF Account
    <2> QED
      BY <2>4, <2>5
  <1>5. CASE Spawn
    <2>1. cur \in Client /\ pc[cur] = "idle" /\ cur # Main
      BY <1>1, <1>5 DEF Spawn, Control, Accepting
    <2>2. pc'[cur] = "recv" /\ pc'[Main] = "accept" /\ \A c \in Client : c # cur => pc'[c] = pc[c]
      BY <1>1, <1>5, <2>1 DEF Spawn, TypeOK
    <2>3. UNCHANGED <<reg, messages_remaining, cur>> /\ \A c \in Client : out'[c] = out[c]
      BY <1>3, <1>5 DEF Spawn
    <2>4. ASSUME NEW c \in Client, c # cur PROVE Account(c)'
      <3>1. Granted(c)' => Granted(c)
        BY <2>2, <2>3, <2>4 DEF Granted
      <3> QED
        BY <2>2, <2>3, <2>4, <3>1, Bystander
    <2>5. ASSUME NEW c \in Client, c = cur PROVE Account(c)'
      <3>1. Account(c) /\ TypeOK /\ spent \in [Client -> Nat] /\ ticks \in Nat
        BY <2>5, <2>1 DEF Rate
      <3>2. spent'[c] = spent[c] /\ Pending(c)' = Pending(c) /\ out'[c].kind = "none"
        BY <2>5, <2>1, <2>3, <3>1, Counters DEF Pending, Account, Calm
      <3>3. Granted(c)
        BY <2>5, <1>5 DEF Granted, Spawn, Before
      <3>4. Budget' = Budget /\ Budget \in Int
        BY <2>5, BudgetKept
      <3>5. Gain(c)' <= Gain(c) /\ (Adding(c)' => Adding(c)) /\ reg'[Refill] = reg[Refill]
        BY <2>5, <2>1, RoundGain DEF RNext
      <3>6. /\ Gain(c) \in {0, 2} /\ Loose(c) = 0 /\ Paid(c) \in Int
            /\ messages_remaining[c] \in Int /\ reg[Refill] \in Int
        BY <2>5, <2>1, <3>1, Amounts
      <3>7. Gain(c)' \in {0, 2} /\ Loose(c)' = 0 /\ Paid(c)' = Paid(c)
        BY <2>5, <2>2, <3>2 DEF Gain, Loose, Paid
      <3>8. messages_remaining'[c] + Paid(c)' + Gain(c)' <= Budget'
        BY <2>5, <2>3, <3>1, <3>3, <3>4, <3>5, <3>6, <3>7 DEF Account
      <3>9. Adding(c)' => reg'[Refill] + 1 + Paid(c)' + Loose(c)' <= Budget'
        BY <2>5, <3>1, <3>4, <3>5, <3>6, <3>7 DEF Account
      <3>10. spent'[c] <= Budget'
        BY <2>5, <3>1, <3>2, <3>4 DEF Account
      <3> QED
        BY <2>5, <2>2, <3>2, <3>8, <3>9, <3>10 DEF Account
    <2> QED
      BY <2>4, <2>5
  <1>6. CASE MainStep /\ ~Grant /\ ~Spawn
    <2>1. \A c \in Client : pc'[c] = pc[c]
      BY <1>2, <1>6
      DEF MainStep, Accept, AcceptFails, Register, CheckAbusive, Handshake, SendPk, RecvPk, Push,
          SendHdr, RecvHdr, Call, BeginBroadcast, SendNext, EndBroadcast, Remove, Close,
          Announce
    <2>2. \A c \in Client : out'[c] = out[c]
      BY <1>3, <1>6
      DEF MainStep, Accept, AcceptFails, Register, CheckAbusive, Handshake, SendPk, RecvPk, Push,
          SendHdr, RecvHdr, Call, BeginBroadcast, SendNext, EndBroadcast, Remove, Close,
          Announce
    <2>3. UNCHANGED <<reg, messages_remaining>>
      BY <1>6
      DEF MainStep, Accept, AcceptFails, Register, CheckAbusive, Handshake, SendPk, RecvPk, Push,
          SendHdr, RecvHdr, Call, BeginBroadcast, SendNext, EndBroadcast, Remove, Close
    <2>4. \/ pc'[Main] \in Before
          \/ cur' = cur /\ pc[Main] \notin Before
          \/ cur' = cur /\ pc'[Main] = pc[Main]
      <3>1. CASE Accept \/ Register
        BY <1>2, <3>1 DEF Accept, Register, Before
      <3>2. CASE CheckAbusive \/ Handshake
        BY <3>2 DEF CheckAbusive, Handshake, SendPk, RecvPk, Push, SendHdr, RecvHdr, Before
      <3>3. CASE Call(Main)
        BY <3>3 DEF Call, BeginBroadcast, SendNext, EndBroadcast, Remove, Close, Before
      <3>4. CASE AcceptFails
        BY <3>4 DEF AcceptFails
      <3> QED
        BY <1>6, <3>1, <3>2, <3>3, <3>4 DEF MainStep
    <2>5. ASSUME NEW c \in Client PROVE Granted(c)' => Granted(c)
      BY <2>1, <2>4 DEF Granted
    <2> QED
      BY <2>1, <2>2, <2>3, <2>5, Bystander
  <1> QED
    BY <1>4, <1>5, <1>6

LEMMA PeerRate ==
  ASSUME Inv, TypeOK', Rate, RNext, NEW d \in Client, PeerStep(d), ~RefillStep
  PROVE  \A c \in Client : Account(c)'
  <1>1. UNCHANGED <<pc, out, reg, messages_remaining, cur>>
    BY DEF PeerStep, PeerConnect, PeerRead, PeerClose, locals, heap
  <1>2. \A c \in Client : Granted(c)' => Granted(c)
    BY <1>1 DEF Granted
  <1> QED
    BY <1>1, <1>2, Bystander

\* A client_manage thread keeps its hands off everything of other threads.
LEMMA ManageFrame ==
  ASSUME TypeOK, NEW c \in Client, ManageStep(c)
  PROVE  /\ cur' = cur /\ pc[c] # "idle" /\ pc[c] # "done" /\ pc'[c] # "idle"
         /\ \A t \in Thread : t # c => pc'[t] = pc[t]
         /\ \A d \in Client : d # c => out'[d] = out[d]
         /\ \A d \in Client : d # c => reg'[d] = reg[d] /\ messages_remaining'[d] = messages_remaining[d]
  <1> USE DEF locals, heap, net
  <1>1. /\ TypeOK /\ c \in Thread /\ c \in Caller /\ Client \subseteq Thread /\ Client \subseteq Caller
        /\ Main \in Thread /\ Main # c /\ Subject(c) = c
    BY Threads DEF Thread, Caller, Subject
  <1>2. ASSUME NEW l, Goto(c, l)
        PROVE  pc'[c] = l /\ \A t \in Thread : t # c => pc'[t] = pc[t]
    BY <1>1, <1>2 DEF Goto, TypeOK
  <1>3. ASSUME NEW v, out' = [out EXCEPT ![c] = v]
        PROVE  out'[c] = v /\ \A d \in Client : d # c => out'[d] = out[d]
    BY <1>1, <1>3 DEF TypeOK, Caller
  <1>4. cur' = cur /\ pc[c] # "idle" /\ pc[c] # "done"
    BY DEF ManageStep, RecvFailed, RecvIgnored, RecvChat, RecvRename, UniqueLock, Compare,
           UniqueUnlock, Load, Store, FreeName, DupName, Call, BeginBroadcast, SendNext,
           EndBroadcast, Remove, Close
  <1>5. \A t \in Thread : t # c => pc'[t] = pc[t]
    BY <1>2
    DEF ManageStep, RecvFailed, RecvIgnored, RecvChat, RecvRename, UniqueLock, Compare,
        UniqueUnlock, Load, Store, FreeName, DupName, Call, BeginBroadcast, SendNext,
        EndBroadcast, Remove, Close, Announce
  <1>6. \A d \in Client : d # c => out'[d] = out[d]
    BY <1>3
    DEF ManageStep, RecvFailed, RecvIgnored, RecvChat, RecvRename, UniqueLock, Compare,
        UniqueUnlock, Load, Store, FreeName, DupName, Call, BeginBroadcast, SendNext,
        EndBroadcast, Remove, Close, Announce
  <1>7. \A d \in Client : d # c => reg'[d] = reg[d] /\ messages_remaining'[d] = messages_remaining[d]
    <2>1. CASE Load(c)
      BY <1>1, <2>1 DEF Load, TypeOK
    <2>2. CASE Store(c)
      BY <1>1, <2>2 DEF Store, TypeOK
    <2>3. CASE ~Load(c) /\ ~Store(c)
      BY <2>3
      DEF ManageStep, RecvFailed, RecvIgnored, RecvChat, RecvRename, UniqueLock, Compare,
          UniqueUnlock, FreeName, DupName, Call, BeginBroadcast, SendNext, EndBroadcast,
          Remove, Close
    <2> QED
      BY <2>1, <2>2, <2>3
  <1>8. pc'[c] # "idle"
    <2>1. CASE EndBroadcast(c)
      BY <1>2, <2>1 DEF EndBroadcast, AfterNotice
    <2>2. CASE Close(c) \/ Store(c)
      BY <1>1, <1>2, <2>2 DEF Close, AfterClose, Store
    <2>3. CASE ~EndBroadcast(c) /\ ~Close(c) /\ ~Store(c)
      BY <1>2, <1>4, <2>3
      DEF ManageStep, RecvFailed, RecvIgnored, RecvChat, RecvRename, UniqueLock, Compare,
          UniqueUnlock, Load, FreeName, DupName, Call, BeginBroadcast, SendNext, Remove, Announce
    <2> QED
      BY <2>1, <2>2, <2>3
  <1> QED
    BY <1>4, <1>5, <1>6, <1>7, <1>8

LEMMA ManageRate ==
  ASSUME Inv, TypeOK', Rate, RNext, ~RefillStep, NEW c \in Client, ManageStep(c)
  PROVE  \A d \in Client : Account(d)'
  <1> USE DEF Inv, locals, heap, net
  <1>1. /\ TypeOK /\ c \in Thread /\ c \in Caller /\ Client \subseteq Thread /\ Client \subseteq Caller
        /\ Main \in Thread /\ Main # c /\ Subject(c) = c
    BY Threads DEF Thread, Caller, Subject
  <1>2. ASSUME NEW l, Goto(c, l)
        PROVE  pc'[c] = l /\ \A t \in Thread : t # c => pc'[t] = pc[t]
    BY <1>1, <1>2 DEF Goto, TypeOK
  <1>3. ASSUME NEW v, out' = [out EXCEPT ![c] = v]
        PROVE  out'[c] = v /\ \A d \in Client : d # c => out'[d] = out[d]
    BY <1>1, <1>3 DEF TypeOK, Caller
  <1>4. cur' = cur /\ pc[c] # "idle" /\ pc[c] # "done"
    BY ManageFrame
  <1>5. \A t \in Thread : t # c => pc'[t] = pc[t]
    BY ManageFrame
  <1>6. \A d \in Client : d # c => out'[d] = out[d]
    BY ManageFrame
  <1>7. \A d \in Client : d # c => reg'[d] = reg[d] /\ messages_remaining'[d] = messages_remaining[d]
    BY ManageFrame
  <1>8. ASSUME NEW d \in Client, d # c PROVE Account(d)'
    <2>1. Granted(d)' => Granted(d)
      BY <1>1, <1>4, <1>5, <1>8 DEF Granted
    <2> QED
      BY <1>1, <1>5, <1>6, <1>7, <1>8, <2>1, Bystander
  <1> SUFFICES Account(c)'
    BY <1>8
  <1>9. Account(c) /\ spent \in [Client -> Nat] /\ ticks \in Nat
    BY DEF Rate
  <1>10. spent[c] \in Nat /\ spent[c] <= Budget /\ Budget \in Int
    BY <1>9, BudgetKept DEF Account
  <1>11. ASSUME out' = out PROVE spent'[c] = spent[c] /\ spent'[c] - Pending(c)' = Paid(c)
    BY <1>11, Counters DEF Pending, Paid
  <1>12. ASSUME HasToken(c), pc[c] = "recv" PROVE spent[c] < Budget
    <2>1. out[c].kind = "none" /\ Granted(c)
      BY <1>9, <1>12 DEF Account, Calm, Granted
    <2>2. Paid(c) = spent[c]
      BY <1>10, <2>1 DEF Paid, Pending
    <2>3. messages_remaining[c] + spent[c] + Gain(c) <= Budget /\ messages_remaining[c] > 0
      BY <1>9, <1>12, <2>1, <2>2 DEF Account, HasToken
    <2>4. Gain(c) \in {0, 2} /\ messages_remaining[c] \in Int
      BY <1>1, <1>9, Amounts
    <2> QED
      BY <1>10, <2>3, <2>4
  <1>13. ASSUME NEW l, Goto(c, l), l \in {"recv", "dup", "remove", "unique", "compare"},
                UNCHANGED <<out, reg, messages_remaining>>, pc[c] \in Calm,
                l \in {"unique", "compare"} => spent[c] < Budget
         PROVE  Account(c)'
    <2>1. pc'[c] = l /\ out'[c].kind = "none"
      BY <1>2, <1>9, <1>13 DEF Account
    <2> QED
      BY <1>4, <1>10, <1>11, <1>13, <2>1, OwnKept
  <1>14. CASE RecvFailed(c) \/ RecvRename(c) \/ FreeName(c) \/ DupName(c)
    <2>1. PICK l \in {"recv", "dup", "remove", "unique"} :
            Goto(c, l) /\ (l = "unique" => HasToken(c) /\ pc[c] = "recv")
      BY <1>14 DEF RecvFailed, RecvRename, FreeName, DupName
    <2>2. UNCHANGED <<out, reg, messages_remaining>> /\ pc[c] \in Calm
      BY <1>14 DEF RecvFailed, RecvRename, FreeName, DupName, Calm
    <2> QED
      BY <1>12, <1>13, <2>1, <2>2
  <1>15. CASE RecvIgnored(c)
    <2>1. UNCHANGED <<pc, out, reg, messages_remaining>>
      BY <1>15 DEF RecvIgnored
    <2> QED
      BY <1>4, <2>1, Bystander DEF Granted
  <1>16. CASE RecvChat(c)
    <2>1. out[c].kind = "none" /\ spent[c] < Budget
      BY <1>9, <1>12, <1>16 DEF RecvChat, Account, Calm
    <2> QED
      BY <1>4, <1>16, <2>1, OwnSpends DEF RecvChat
  <1>17. CASE UniqueLock(c) \/ Compare(c)
    <2>1. pc[c] \in {"unique", "compare"} /\ UNCHANGED <<out, reg, messages_remaining>>
      BY <1>17 DEF UniqueLock, Compare
    <2>2. spent[c] < Budget /\ out[c].kind = "none"
      BY <1>9, <2>1 DEF Account, Calm
    <2>3. pc'[c] = "compare"
      BY <1>2, <1>17 DEF UniqueLock, Compare
    <2> QED
      BY <1>4, <1>10, <1>11, <2>1, <2>2, <2>3, OwnKept
  <1>18. CASE UniqueUnlock(c)
    <2>1. pc[c] \in Calm /\ spent[c] < Budget /\ out[c].kind = "none"
          /\ UNCHANGED <<reg, messages_remaining>>
      BY <1>9, <1>18 DEF UniqueUnlock, Account, Calm
    <2>2. CASE Goto(c, "recv") /\ UNCHANGED out
      BY <1>13, <2>1, <2>2
    <2>3. CASE Announce(c, "rename")
      BY <1>4, <2>1, <2>3, OwnSpends
    <2> QED
      BY <1>18, <2>2, <2>3 DEF UniqueUnlock
  <1>19. CASE Load(c)
    <2>1. reg'[c] = messages_remaining[c] /\ UNCHANGED <<out, messages_remaining>>
      BY <1>1, <1>19 DEF Load, TypeOK
    <2>2. pc'[c] = "store" /\ pc[c] = "load"
      BY <1>2, <1>19 DEF Load
    <2>3. Budget' = Budget
      BY BudgetKept
    <2>4. Gain(c)' <= Gain(c) /\ (Adding(c)' => Adding(c)) /\ reg'[Refill] = reg[Refill]
      BY RoundGain DEF RNext
    <2>5. /\ Gain(c) \in {0, 2} /\ Paid(c) \in Int /\ messages_remaining[c] \in Int
      BY <1>1, <1>9, Amounts
    <2>6. Gain(c)' \in {0, 2} /\ Loose(c)' = Loose(c) /\ Paid(c)' = Paid(c) /\ spent'[c] = spent[c]
      BY <1>11, <2>1, <2>2 DEF Gain, Loose, Paid, Pending
    <2>7. Granted(c)
      BY <2>2 DEF Granted
    <2>8. messages_remaining[c] + Paid(c)' + Gain(c)' <= Budget'
      BY <1>9, <1>10, <2>3, <2>4, <2>5, <2>6, <2>7 DEF Account
    <2>9. Adding(c)' => reg'[Refill] + 1 + Paid(c)' + Loose(c)' <= Budget'
      BY <1>9, <2>3, <2>4, <2>6 DEF Account
    <2>10. out'[c].kind \in {"chat", "rename"} /\ spent'[c] <= Budget'
      BY <1>9, <1>10, <2>1, <2>2, <2>3, <2>6 DEF Account
    <2> QED
      BY <2>1, <2>2, <2>8, <2>9, <2>10 DEF Account, Calm
  <1>20. CASE Store(c)
    <2>1. messages_remaining'[c] = reg[c] - 1 /\ out'[c] = Silent
      BY <1>1, <1>3, <1>20 DEF Store, TypeOK
    <2>2. pc'[c] \in {"free", "recv"} /\ pc[c] = "store"
      BY <1>2, <1>20 DEF Store
    <2>3. Budget' = Budget
      BY BudgetKept
    <2>4. Gain(c)' <= Gain(c) /\ (Adding(c)' => Adding(c)) /\ reg'[Refill] = reg[Refill]
      BY RoundGain DEF RNext
    <2>5. /\ Gain(c) \in {0, 2} /\ Paid(c) \in Int /\ reg[c] \in Int /\ reg[Refill] \in Int
      BY <1>1, <1>9, Amounts
    <2>6. out[c].kind \in {"chat", "rename"} /\ out'[c].kind = "none"
      BY <1>9, <2>1, <2>2 DEF Account, Silent
    <2>7. spent'[c] = spent[c] /\ Paid(c)' = Paid(c) + 1
      BY <1>10, <2>6, Counters DEF LetThrough, Paid, Pending
    <2>8. Gain(c)' \in {0, 2} /\ Loose(c)' = 0 /\ Loose(c) = 1
      BY <2>2 DEF Gain, Loose
    <2>9. reg[c] + Paid(c) + Gain(c) <= Budget
      BY <1>9, <2>2 DEF Account
    <2>10. messages_remaining'[c] + Paid(c)' + Gain(c)' <= Budget'
      BY <1>10, <2>1, <2>3, <2>4, <2>5, <2>7, <2>8, <2>9
    <2>11. Adding(c)' => reg'[Refill] + 1 + Paid(c)' + Loose(c)' <= Budget'
      <3>1. Adding(c) => reg[Refill] + 1 + Paid(c) + 1 <= Budget
        BY <1>9, <2>8 DEF Account
      <3> QED
        BY <1>10, <2>3, <2>4, <2>5, <2>7, <2>8, <3>1
    <2> QED
      BY <1>10, <2>2, <2>3, <2>6, <2>7, <2>10, <2>11 DEF Account
  <1>21. CASE BeginBroadcast(c) \/ SendNext(c)
    <2>1. UNCHANGED <<out, reg, messages_remaining>> /\ pc'[c] = "send"
      BY <1>2, <1>21 DEF BeginBroadcast, SendNext
    <2> QED
      BY <1>4, <1>10, <1>11, <2>1, OwnKept DEF Calm
  <1>22. CASE EndBroadcast(c)
    <2>1. UNCHANGED <<reg, messages_remaining>> /\ pc[c] = "send"
      BY <1>22 DEF EndBroadcast
    <2>2. out'[c].kind = out[c].kind
      BY <1>3, <1>22 DEF EndBroadcast
    <2>3. spent'[c] = spent[c] /\ Pending(c)' = Pending(c) /\ Paid(c)' = Paid(c)
      BY <2>2, Counters DEF LetThrough, Pending, Paid
    <2>4. out[c].kind \in {"chat", "rename", "left"}
      BY <2>1 DEF Control, Life
    <2>5. CASE pc'[c] = "bcast" \/ (pc'[c] = "close" /\ out[c].kind = "left")
      BY <1>4, <1>10, <2>1, <2>2, <2>3, <2>5, OwnKept DEF Paid, Calm
    <2>6. CASE pc'[c] = "load" /\ out[c].kind \in {"chat", "rename"}
      <3>1. Budget' = Budget
        BY BudgetKept
      <3>2. Gain(c)' <= Gain(c) /\ (Adding(c)' => Adding(c))
        BY RoundGain DEF RNext
      <3>3. Gain(c) \in {0, 2} /\ Paid(c) \in Int /\ messages_remaining[c] \in Int
        BY <1>1, <1>9, Amounts
      <3>4. Gain(c)' \in {0, 2} /\ Granted(c)
        BY <2>1 DEF Gain, Granted
      <3>5. ~Adding(c)
        BY <1>1, <2>1, Threads DEF Adding, LockInv, Holds, Thread
      <3>6. messages_remaining'[c] + Paid(c)' + Gain(c)' <= Budget'
        BY <1>9, <1>10, <2>1, <2>3, <3>1, <3>2, <3>3, <3>4 DEF Account
      <3> QED
        BY <1>10, <2>2, <2>3, <2>6, <3>1, <3>2, <3>5, <3>6 DEF Account, Calm
    <2>7. \/ pc'[c] = "bcast" \/ (pc'[c] = "close" /\ out[c].kind = "left")
          \/ pc'[c] = "load" /\ out[c].kind \in {"chat", "rename"}
      BY <1>2, <1>22, <2>4 DEF EndBroadcast, AfterNotice
    <2> QED
      BY <2>5, <2>6, <2>7
  <1>23. CASE Remove(c)
    <2>1. pc'[c] = "bcast" /\ out'[c].kind = "left" /\ out[c].kind = "none"
          /\ UNCHANGED <<reg, messages_remaining>>
      <3>1. pc'[c] = "bcast" /\ out'[c].kind = "left"
        BY <1>2, <1>3, <1>23 DEF Remove, Announce
      <3>2. UNCHANGED <<reg, messages_remaining>>
        BY <1>23 DEF Remove, heap
      <3>3. out[c].kind = "none"
        BY <1>9, <1>23 DEF Remove, Account, Calm
      <3> QED
        BY <3>1, <3>2, <3>3
    <2>2. spent'[c] = spent[c] /\ spent'[c] - Pending(c)' = Paid(c)
      BY <2>1, Counters DEF LetThrough, Pending, Paid
    <2> QED
      BY <1>4, <1>10, <2>1, <2>2, OwnKept DEF Calm
  <1>24. CASE Close(c)
    <2>1. pc'[c] = "done" /\ out'[c].kind = "none" /\ UNCHANGED <<reg, messages_remaining>>
      BY <1>1, <1>2, <1>3, <1>24 DEF Close, AfterClose, Silent
    <2>2. spent'[c] = spent[c]
      BY <2>1, Counters DEF LetThrough
    <2>3. out[c].kind \notin {"chat", "rename"}
      BY <1>9, <1>24 DEF Close, Account
    <2>4. spent'[c] - Pending(c)' = Paid(c)
      BY <2>1, <2>2, <2>3 DEF Pending, Paid
    <2> QED
      BY <1>4, <1>10, <2>1, <2>2, <2>4, OwnKept DEF Calm
  <1> QED
    BY <1>14, <1>15, <1>16, <1>17, <1>18, <1>19, <1>20, <1>21, <1>22, <1>23, <1>24
    DEF ManageStep, Call
-----------------------------------------------------------------------------
\* The round itself: who it comes to, and that it comes to nobody twice.
LEMMA RoundMove ==
  ASSUME Inv, RefillStep
  PROVE  /\ mutex # Refill => RefillLock
         /\ mutex = Refill => RefillScan \/ RefillLoad \/ RefillAdd \/ RefillUnlock
         /\ UNCHANGED <<clients, client_n, cur, out>>
         /\ \A t \in Thread : t # Refill => pc'[t] = pc[t] /\ reg'[t] = reg[t]
         /\ \A c \in Client : Granted(c)' => Granted(c)
  <1>1. TypeOK /\ Refill \in Thread /\ Main \in Thread /\ Client \subseteq Thread
    BY DEF Inv, Thread, Caller
  <1>2. Main # Refill /\ Refill \notin Client /\ Refill # Null
    BY Threads
  <1>3. \A t \in Thread : t # Refill => pc'[t] = pc[t]
    BY <1>1 DEF RefillStep, RefillLock, RefillScan, RefillLoad, RefillAdd, RefillUnlock, Goto, TypeOK
  <1>4. \A t \in Thread : t # Refill => reg'[t] = reg[t]
    BY <1>1 DEF RefillStep, RefillLock, RefillScan, RefillLoad, RefillAdd, RefillUnlock, TypeOK, locals
  <1>5. UNCHANGED <<clients, client_n, cur, out>>
    BY DEF RefillStep, RefillLock, RefillScan, RefillLoad, RefillAdd, RefillUnlock, roster, locals
  <1>6. \A c \in Client : Granted(c)' => Granted(c)
    BY <1>1, <1>2, <1>3, <1>5 DEF Granted
  <1>7. pc[Refill] \in {"scan", "incr", "add"} => mutex = Refill
    BY <1>1 DEF Inv, LockInv, Holds
  <1>8. RefillLock => mutex # Refill
    BY <1>2 DEF RefillLock
  <1>9. RefillScan \/ RefillLoad \/ RefillAdd \/ RefillUnlock => mutex = Refill
    BY <1>7 DEF RefillScan, RefillLoad, RefillAdd, RefillUnlock
  <1> QED
    BY <1>3, <1>4, <1>5, <1>6, <1>8, <1>9 DEF RefillStep

LEMMA RefillRate ==
  ASSUME Inv, Tokens, TypeOK', Rate, RNext, RefillStep
  PROVE  \A c \in Client : Account(c)'
  <1>1. TypeOK /\ Refill \in Thread /\ Client \subseteq Thread /\ Refill # Null
    BY Threads DEF Inv, Thread, Caller
  <1>2. Refill \notin Client
    BY Threads
  <1> SUFFICES ASSUME NEW c \in Client PROVE Account(c)'
    OBVIOUS
  <1>3. /\ pc'[c] = pc[c] /\ out'[c] = out[c] /\ reg'[c] = reg[c] /\ (Granted(c)' => Granted(c))
        /\ UNCHANGED <<clients, client_n>>
    BY <1>1, <1>2, RoundMove
  <1>4. /\ spent'[c] = spent[c] /\ spent' \in [Client -> Nat] /\ ticks' \in Nat
        /\ spent \in [Client -> Nat] /\ ticks \in Nat /\ Account(c)
    BY <1>3, Counters DEF Rate
  <1>5. /\ Budget \in Int /\ Pending(c) \in {0, 1} /\ Gain(c) \in {0, 2} /\ Loose(c) \in {0, 1}
        /\ Paid(c) \in Int /\ spent[c] \in Nat
        /\ messages_remaining[c] \in Int /\ reg[c] \in Int /\ reg[Refill] \in Int
    BY <1>1, <1>4, Amounts
  <1>6. Gain(c)' \in {0, 2} /\ Paid(c)' = Paid(c) /\ Loose(c)' = Loose(c)
    BY <1>3, <1>4 DEF Gain, Paid, Pending, Loose
  <1>7. CASE RefillLock
    <2>1. messages_remaining' = messages_remaining /\ pc'[Refill] = "scan" /\ mutex = Null /\ mutex' = Refill
      BY <1>1, <1>7 DEF RefillLock, Goto, TypeOK, heap
    <2>2. ticks' = ticks + 1
      BY <1>1, <2>1 DEF RNext
    <2>3. Budget' = Budget + 2
      BY <1>4, <2>2, Limits DEF Budget
    <2>4. Gain(c) = 0 /\ ~Adding(c)'
      BY <1>1, <2>1 DEF Gain, Due, Adding
    <2>5. Budget <= Budget' /\ Gain(c)' - Gain(c) <= Budget' - Budget
      BY <1>5, <1>6, <2>3, <2>4
    <2> QED
      BY <1>1, <1>3, <1>4, <2>1, <2>4, <2>5, AccountKept
  <1>8. ASSUME ~RefillLock
        PROVE  Budget' = Budget /\ mutex = Refill /\ cursor >= 1 /\ cursor \in Nat
    <2>1. mutex = Refill
      BY <1>8, RoundMove
    <2>2. ticks' = ticks
      BY <2>1 DEF RNext
    <2> QED
      BY <1>1, <2>1, <2>2 DEF Budget, Inv, LockInv, TypeOK
  <1>9. CASE RefillUnlock
    <2>1. messages_remaining' = messages_remaining /\ pc'[Refill] = "sleep" /\ mutex' = Null
      BY <1>1, <1>9 DEF RefillUnlock, Goto, TypeOK, heap
    <2>2. ~RefillLock
      BY <1>9 DEF RefillUnlock, RefillLock
    <2>3. Gain(c)' = 0 /\ ~Adding(c)'
      BY <1>1, <2>1 DEF Gain, Due, Adding
    <2>4. Budget <= Budget' /\ Gain(c)' - Gain(c) <= Budget' - Budget
      BY <1>5, <1>8, <2>2, <2>3
    <2> QED
      BY <1>1, <1>3, <1>4, <2>1, <2>3, <2>4, AccountKept
  <1>10. CASE RefillScan
    <2>1. mutex' = mutex /\ messages_remaining' = messages_remaining /\ ~RefillLock /\ pc[Refill] = "scan"
          /\ cursor <= client_n
      BY <1>10 DEF RefillScan, RefillLock, heap
    <2>2. CASE ~Refillable(messages_remaining[clients[cursor]])
      <3>1. cursor' = cursor + 1 /\ pc' = pc
        BY <1>10, <2>2 DEF RefillScan
      <3>2. Due(c)' => Due(c)
        BY <1>3, <1>8, <2>1, <3>1 DEF Due
      <3>3. Gain(c)' <= Gain(c) /\ ~Adding(c)'
        BY <2>1, <3>1, <3>2 DEF Gain, Adding
      <3>4. Budget <= Budget' /\ Gain(c)' - Gain(c) <= Budget' - Budget
        BY <1>5, <1>6, <1>8, <2>1, <3>3
      <3> QED
        BY <1>1, <1>3, <1>4, <2>1, <3>3, <3>4, AccountKept
    <2>3. CASE Refillable(messages_remaining[clients[cursor]])
      <3>1. cursor' = cursor /\ pc'[Refill] = "incr"
        BY <1>1, <1>10, <2>3 DEF RefillScan, Goto, TypeOK
      <3>2. Due(c)' => Due(c)
        BY <1>3, <2>1, <3>1 DEF Due
      <3>3. Gain(c)' <= Gain(c) /\ ~Adding(c)'
        BY <3>1, <3>2 DEF Gain, Adding
      <3>4. Budget <= Budget' /\ Gain(c)' - Gain(c) <= Budget' - Budget
        BY <1>5, <1>6, <1>8, <2>1, <3>3
      <3> QED
        BY <1>1, <1>3, <1>4, <2>1, <3>3, <3>4, AccountKept
    <2> QED
      BY <2>2, <2>3
  <1>12. CASE RefillLoad
    <2>1. mutex' = mutex /\ messages_remaining' = messages_remaining /\ ~RefillLock /\ pc[Refill] = "incr"
          /\ cursor <= client_n
      BY <1>12 DEF RefillLoad, RefillLock, Inv, AtEntry, heap, lock
    <2>3. cursor' = cursor
      BY <1>12 DEF RefillLoad, lock
    <2>4. Account(c)'
      <3>1. cursor' = cursor /\ pc'[Refill] = "add"
            /\ reg'[Refill] = messages_remaining[clients[cursor]]
        BY <1>1, <1>12, <2>3 DEF RefillLoad, Goto, TypeOK
      <3>2. Due(c)' => Due(c)
        BY <1>3, <2>1, <3>1 DEF Due
      <3>3. Gain(c)' <= Gain(c)
        BY <3>2 DEF Gain
      <3>4. Budget <= Budget' /\ Gain(c)' - Gain(c) <= Budget' - Budget
        BY <1>5, <1>6, <1>8, <2>1, <3>3
      <3>5. CASE c # clients[cursor]
        <4>1. ~Adding(c)'
          BY <1>3, <3>1, <3>5 DEF Adding
        <4> QED
          BY <1>1, <1>3, <1>4, <2>1, <3>4, <4>1, AccountKept
      <3>6. CASE c = clients[cursor]
        <4>1. reg'[Refill] = messages_remaining[c] /\ Checked(c)
          BY <2>1, <3>1, <3>6 DEF Checked
        <4>2. Due(c)
          <5>1. cursor \in 1..client_n
            BY <1>1, <1>8, <2>1 DEF TypeOK
          <5> QED
            BY <1>8, <2>1, <3>6, <5>1 DEF Due
        <4>3. Gain(c) = 2
          BY <4>2 DEF Gain
        <4>4. reg'[Refill] + 1 + Paid(c)' + Loose(c)' <= Budget'
          <5>1. CASE Granted(c)
            BY <1>4, <1>5, <1>6, <1>8, <2>1, <4>1, <4>3, <5>1 DEF Account
          <5>2. CASE ~Granted(c)
            <6>1. pc[c] = "idle"
              BY <5>2 DEF Granted
            <6>2. spent[c] = 0 /\ out[c].kind = "none"
              BY <1>4, <6>1 DEF Account, Calm
            <6>3. Paid(c) = 0 /\ Loose(c) = 0
              <7>1. Pending(c) = 0
                BY <6>2 DEF Pending
              <7>2. Loose(c) = 0
                BY <6>1 DEF Loose
              <7> QED
                BY <6>2, <7>1, <7>2 DEF Paid
            <6>4. MaxTokens <= Budget
              BY <1>4, Limits DEF Budget
            <6>5. messages_remaining[c] < MaxTokens
              BY <4>1, <5>2 DEF Tokens, Unset
            <6> QED
              BY <1>5, <1>6, <1>8, <2>1, <4>1, <6>3, <6>4, <6>5, Limits
          <5> QED
            BY <5>1, <5>2
        <4>5. Granted(c)' => messages_remaining'[c] + Paid(c)' + Gain(c)' <= Budget'
          BY <1>3, <1>4, <1>5, <1>6, <1>8, <2>1, <3>3 DEF Account
        <4>6. pc'[c] = "store" => reg'[c] + Paid(c)' + Gain(c)' <= Budget'
          BY <1>3, <1>4, <1>5, <1>6, <1>8, <2>1, <3>3 DEF Account
        <4> QED
          BY <1>3, <1>4, <1>8, <2>1, <4>4, <4>5, <4>6 DEF Account
      <3> QED
        BY <3>5, <3>6
    <2> QED
      BY <2>4
  <1>11. CASE RefillAdd
    <2>1. mutex' = mutex /\ ~RefillLock /\ pc[Refill] = "add" /\ pc'[Refill] = "scan"
          /\ cursor' = cursor + 1
      BY <1>1, <1>11 DEF RefillAdd, RefillLock, Goto, TypeOK
    <2>2. Due(c)' => Due(c)
      BY <1>3, <1>8, <2>1 DEF Due
    <2>3. Gain(c)' <= Gain(c) /\ ~Adding(c)'
      BY <2>1, <2>2 DEF Gain, Adding
    <2>4. Budget <= Budget' /\ Gain(c)' - Gain(c) <= Budget' - Budget
      BY <1>5, <1>6, <1>8, <2>1, <2>3
    <2>5. CASE c # clients[cursor]
      <3>1. messages_remaining'[c] = messages_remaining[c]
        BY <1>1, <1>11, <2>5 DEF RefillAdd, TypeOK
      <3> QED
        BY <1>1, <1>3, <1>4, <2>3, <2>4, <3>1, AccountKept
    <2>6. CASE c = clients[cursor]
      <3>1. messages_remaining'[c] = reg[Refill] + 1
        BY <1>1, <1>11, <2>6 DEF RefillAdd, TypeOK
      <3>2. ~Due(c)'
        <4> SUFFICES ASSUME NEW i \in 1..client_n, clients[i] = c, i >= cursor + 1 PROVE FALSE
          BY <1>3, <2>1 DEF Due
        <4>1. cursor \in 1..client_n /\ client_n \in Nat
          BY <1>1, <1>8, <2>1 DEF TypeOK
        <4>2. i = cursor
          BY <2>6, <4>1 DEF Inv, Shape
        <4> QED
          BY <4>1, <4>2
      <3>3. Gain(c)' = 0
        BY <3>2 DEF Gain
      <3>4. reg[Refill] + 1 + Paid(c) + Loose(c) <= Budget
        BY <1>4, <2>1, <2>6 DEF Account, Adding
      <3>5. messages_remaining'[c] + Paid(c)' + Gain(c)' <= Budget'
        BY <1>5, <1>6, <1>8, <2>1, <3>1, <3>3, <3>4
      <3>6. pc'[c] = "store" => reg'[c] + Paid(c)' + Gain(c)' <= Budget'
        BY <1>3, <1>4, <1>5, <1>6, <1>8, <2>1, <2>3 DEF Account
      <3> QED
        BY <1>3, <1>4, <1>8, <2>1, <2>3, <3>5, <3>6 DEF Account
    <2> QED
      BY <2>5, <2>6
  <1> QED
    BY <1>7, <1>9, <1>10, <1>11, <1>12 DEF RefillStep

LEMMA RateStep ==
  ASSUME Inv, Tokens, Inv', Rate, RNext
  PROVE  Rate'
  <1>1. TypeOK'
    BY DEF Inv
  <1>2. CASE RefillStep
    BY <1>1, <1>2, RefillRate, Counters DEF Rate
  <1>3. CASE ~RefillStep
    <2>1. MainStep \/ \E c \in Client : ManageStep(c) \/ PeerStep(c)
      BY <1>3 DEF RNext, Next
    <2>2. \A c \in Client : Account(c)'
      BY <1>1, <1>3, <2>1, MainRate, ManageRate, PeerRate
    <2> QED
      BY <2>2, Counters DEF Rate
  <1> QED
    BY <1>2, <1>3

-----------------------------------------------------------------------------
(***************************************************************************)
(* The purse of a client: what it holds lies within its bounds, and so     *)
(* does every number that a thread has read and will write back.  The      *)
(* decrement has passed the token check, so it takes no token that is not  *)
(* there, whatever a refill with an older number writes over it.           *)
(***************************************************************************)
Purse(c) == IF Granted(c) THEN Held(c) ELSE Unset(c)

LEMMA Bounds ==
  ASSUME NEW c \in Client, raced \in [Client -> BOOLEAN]
  PROVE  /\ Floor(c) \in Int /\ Ceil(c) \in Int /\ Low <= Floor(c) /\ Floor(c) <= 0
         /\ MaxTokens <= Ceil(c)
  <1>1. Fill \in Int
    BY ServerAssumption
  <1> QED
    BY <1>1, Limits DEF Floor, Ceil, Low

\* The purse of a client about which a step does nothing.
LEMMA PurseKept ==
  ASSUME NEW c \in Client, Purse(c),
         pc'[c] = pc[c], out'[c] = out[c], spent'[c] = spent[c], reg'[c] = reg[c],
         messages_remaining'[c] = messages_remaining[c], raced'[c] = raced[c],
         Granted(c)' <=> Granted(c), Adding(c)' /\ Fresh(c) => Fresh(c)',
         Checked(c)' => Checked(c), Adding(c)' => Adding(c) /\ reg'[Refill] = reg[Refill]
  PROVE  Purse(c)'
  <1>1. /\ Floor(c)' = Floor(c) /\ Ceil(c)' = Ceil(c) /\ Kept(c)' = Kept(c)
        /\ (Spends(c)' <=> Spends(c))
    BY DEF Floor, Ceil, Kept, Paid, Pending, Spends
  <1>2. Granted(c) /\ Held(c) => Held(c)'
    BY <1>1 DEF Held
  <1>3. Unset(c) => Unset(c)'
    BY DEF Unset
  <1> QED
    BY <1>2, <1>3 DEF Purse

LEMMA RoundAt ==
  ASSUME Inv, Next, ~RefillStep, NEW c \in Client
  PROVE  /\ Checked(c)' => Checked(c)
         /\ Adding(c)' => Adding(c) /\ reg'[Refill] = reg[Refill]
         /\ RefillAt(c) => c \in Listed /\ mutex = Refill
  <1>1. Refill \in Thread
    BY DEF Thread
  <1>2. pc[Refill] \in {"incr", "add"} => mutex = Refill
    BY <1>1 DEF Inv, LockInv, Holds
  <1>3. Checked(c)' => Checked(c)
    BY <1>2, RoundKept DEF Inv, Checked
  <1>4. Adding(c)' => Adding(c) /\ reg'[Refill] = reg[Refill]
    BY RoundGain
  <1>5. RefillAt(c) => cursor \in 1..client_n
    BY <1>2, Threads DEF Inv, LockInv, AtEntry, TypeOK, RefillAt
  <1> QED
    BY <1>2, <1>3, <1>4, <1>5 DEF Listed, RefillAt

LEMMA PurseBystander ==
  ASSUME Inv, Tokens, Rate, RNext, ~RefillStep, ~Grant, NEW c \in Client,
         pc'[c] = pc[c], out'[c] = out[c], reg'[c] = reg[c],
         messages_remaining'[c] = messages_remaining[c],
         Granted(c)' <=> Granted(c), Adding(c)' /\ Fresh(c) => Fresh(c)'
  PROVE  Purse(c)'
  <1>1. raced'[c] = raced[c]
    BY DEF RNext, Tokens
  <1>2. spent'[c] = spent[c]
    BY Counters
  <1>3. Purse(c)
    BY DEF Tokens, Purse
  <1> QED
    BY <1>1, <1>2, <1>3, RoundAt, PurseKept DEF RNext

LEMMA MainPurse ==
  ASSUME Inv, Tokens, Rate, RNext, MainStep, ~RefillStep, NEW c \in Client
  PROVE  Purse(c)'
  <1> USE DEF Inv, roster, lock, locals, heap, net
  <1>1. /\ TypeOK /\ Main \in Thread /\ Main \in Caller /\ Client \subseteq Thread
        /\ Main \notin Client /\ Main # Refill /\ Refill \in Thread
    BY Threads DEF Thread, Caller
  <1>2. ASSUME NEW l, Goto(Main, l)
        PROVE  pc'[Main] = l /\ pc'[c] = pc[c]
    BY <1>1, <1>2 DEF Goto, TypeOK
  <1>3. ASSUME NEW v, out' = [out EXCEPT ![Main] = v]
        PROVE  out'[c] = out[c]
    BY <1>1, <1>3 DEF TypeOK, Caller
  <1>4. Purse(c) /\ Account(c) /\ raced \in [Client -> BOOLEAN]
    BY DEF Tokens, Rate, Purse
  <1>5. CASE Grant
    <2>1. cur \in Client /\ pc[cur] = "idle" /\ pc[Main] = "grant"
      BY <1>5 DEF Grant, Control, Accepting
    <2>2. pc'[Main] = "abusive" /\ pc'[c] = pc[c] /\ UNCHANGED <<cur, out, reg>>
      BY <1>2, <1>5 DEF Grant
    <2>3. spent'[c] = spent[c]
      BY <2>2, Counters
    <2>4. CASE c # cur
      <3>1. raced'[c] = raced[c]
        BY <1>4, <2>4 DEF RNext
      <3>2. messages_remaining'[c] = messages_remaining[c]
        BY <1>5, <2>4 DEF Grant, TypeOK
      <3>3. (Granted(c)' <=> Granted(c)) /\ ~Fresh(c)
        BY <2>2, <2>4 DEF Granted, Fresh
      <3> QED
        BY <1>4, <2>2, <2>3, <3>1, <3>2, <3>3, RoundAt, PurseKept DEF RNext
    <2>5. CASE c = cur
      <3>1. raced'[c] = (raced[c] \/ RefillAt(c)) /\ raced' \in [Client -> BOOLEAN]
        BY <1>4, <1>5, <2>5 DEF RNext
      <3>2. messages_remaining'[c] = MaxTokens
        BY <1>5, <2>5 DEF Grant, TypeOK
      <3>3. Granted(c)' /\ Fresh(c)' /\ ~Spends(c)' /\ pc'[c] # "store" /\ Unset(c)
        BY <1>4, <2>1, <2>2, <2>5 DEF Granted, Fresh, Spends, Before, Purse
      <3>4. Kept(c)' = MaxTokens
        <4>1. spent'[c] = 0 /\ out'[c].kind = "none"
          BY <1>4, <2>1, <2>2, <2>3, <2>5 DEF Account, Calm
        <4>2. Pending(c)' = 0
          BY <4>1 DEF Pending
        <4> QED
          BY <4>1, <4>2, Limits DEF Kept, Paid
      <3>5. /\ Floor(c)' \in Int /\ Ceil(c)' \in Int /\ Floor(c)' <= 0 /\ (raced'[c] => Floor(c)' <= Low + 1)
            /\ MaxTokens <= Ceil(c)' /\ (raced'[c] => Ceil(c)' = MaxTokens + 1)
        <4>1. /\ Floor(c)' = IF raced'[c] /\ Fill < 0 THEN Fill + 1 ELSE 0
              /\ Ceil(c)' = IF raced'[c] THEN MaxTokens + 1 ELSE MaxTokens
          BY DEF Floor, Ceil
        <4>2. Fill \in Int
          BY ServerAssumption
        <4> QED
          BY <4>1, <4>2, Limits DEF Low
      <3>6. Checked(c)' => raced'[c]
        BY <3>1, RoundAt DEF RNext, RefillAt, Checked
      <3>7. Adding(c)' => raced'[c] /\ Adding(c) /\ reg'[Refill] = reg[Refill]
        BY <3>1, RoundAt DEF RNext, RefillAt, Adding
      <3>8. Adding(c)' => reg'[Refill] \in Int /\ reg'[Refill] >= Low /\ reg'[Refill] < MaxTokens
        BY <1>1, <3>3, <3>7 DEF Unset, TypeOK
      <3>9. Adding(c)' => reg'[Refill] + 1 >= Floor(c)' /\ reg'[Refill] < Ceil(c)'
        BY <3>5, <3>7, <3>8, Limits
      <3>10. messages_remaining'[c] >= Floor(c)' /\ messages_remaining'[c] <= Ceil(c)'
        BY <3>2, <3>5, Limits
      <3>11. Checked(c)' => messages_remaining'[c] < Ceil(c)'
        BY <3>2, <3>5, <3>6, Limits
      <3>12. messages_remaining'[c] >= Kept(c)'
        BY <3>2, <3>4, Limits
      <3> QED
        BY <3>3, <3>6, <3>7, <3>9, <3>10, <3>11, <3>12 DEF Purse, Held
    <2> QED
      BY <2>4, <2>5
  <1>6. CASE Spawn
    <2>1. cur \in Client /\ pc[cur] = "idle" /\ cur # Main /\ pc[Main] = "spawn"
      BY <1>1, <1>6 DEF Spawn, Control, Accepting
    <2>2. pc'[cur] = "recv" /\ pc'[Main] = "accept" /\ (c # cur => pc'[c] = pc[c])
      BY <1>1, <1>6, <2>1 DEF Spawn, TypeOK
    <2>3. UNCHANGED <<reg, messages_remaining, cur>> /\ out'[c] = out[c]
      BY <1>3, <1>6 DEF Spawn
    <2>4. ~Grant
      BY <2>1 DEF Grant
    <2>5. CASE c # cur
      <3>1. (Granted(c)' <=> Granted(c)) /\ ~Fresh(c)
        BY <2>2, <2>3, <2>5 DEF Granted, Fresh
      <3> QED
        BY <2>2, <2>3, <2>4, <2>5, <3>1, PurseBystander
    <2>6. CASE c = cur
      <3>1. Granted(c) /\ Granted(c)' /\ ~Fresh(c) /\ ~Spends(c)' /\ pc'[c] # "store"
        BY <2>1, <2>2, <2>6 DEF Granted, Fresh, Spends, Before
      <3>2. raced'[c] = raced[c] /\ spent'[c] = spent[c]
        BY <1>4, <2>3, <2>4, Counters DEF RNext
      <3>3. Floor(c)' = Floor(c) /\ Ceil(c)' = Ceil(c) /\ Kept(c)' = Kept(c)
        BY <2>3, <3>2 DEF Floor, Ceil, Kept, Paid, Pending
      <3>4. /\ Checked(c)' => Checked(c)
            /\ Adding(c)' => Adding(c) /\ reg'[Refill] = reg[Refill]
        BY RoundAt DEF RNext
      <3> QED
        BY <1>4, <2>3, <3>1, <3>2, <3>3, <3>4 DEF Purse, Held
    <2> QED
      BY <2>5, <2>6
  <1>7. CASE MainStep /\ ~Grant /\ ~Spawn
    <2>1. pc'[c] = pc[c]
      BY <1>2, <1>7
      DEF MainStep, Accept, AcceptFails, Register, CheckAbusive, Handshake, SendPk, RecvPk, Push,
          SendHdr, RecvHdr, Call, BeginBroadcast, SendNext, EndBroadcast, Remove, Close,
          Announce
    <2>2. out'[c] = out[c]
      BY <1>3, <1>7
      DEF MainStep, Accept, AcceptFails, Register, CheckAbusive, Handshake, SendPk, RecvPk, Push,
          SendHdr, RecvHdr, Call, BeginBroadcast, SendNext, EndBroadcast, Remove, Close,
          Announce
    <2>3. UNCHANGED <<reg, messages_remaining>>
      BY <1>7
      DEF MainStep, Accept, AcceptFails, Register, CheckAbusive, Handshake, SendPk, RecvPk, Push,
          SendHdr, RecvHdr, Call, BeginBroadcast, SendNext, EndBroadcast, Remove, Close
    <2>4. ASSUME Granted(c)' <=> Granted(c), Adding(c)' /\ Fresh(c) => Fresh(c)'
          PROVE  Purse(c)'
      BY <1>7, <2>1, <2>2, <2>3, <2>4, PurseBystander
    <2>5. CASE Accept
      <3>1. pc[Main] = "accept" /\ pc'[Main] = "register"
        BY <1>2, <2>5 DEF Accept
      <3> QED
        BY <2>1, <2>4, <3>1 DEF Granted, Fresh, Before
    <2>6. CASE Register
      <3>1. pc[Main] = "register" /\ pc'[Main] = "grant"
        BY <1>2, <2>6 DEF Register
      <3> QED
        BY <2>1, <2>4, <3>1 DEF Granted, Fresh, Before
    <2>7. CASE AcceptFails
      BY <2>4, <2>7 DEF AcceptFails, Granted, Fresh
    <2>8. CASE CheckAbusive
      <3>1. pc[Main] = "abusive" /\ pc'[Main] \in {"remove", "sendpk"} /\ cur' = cur /\ mutex # Refill
        BY <1>2, <2>8, Threads DEF CheckAbusive
      <3>2. ~Adding(c)'
        BY <3>1, RoundAt DEF RNext, Adding, RefillAt
      <3> QED
        BY <2>1, <2>4, <3>1, <3>2 DEF Granted, Before
    <2>9. CASE Handshake
      <3>1. /\ pc[Main] \in {"sendpk", "recvpk", "push", "sendhdr", "recvhdr"} /\ cur' = cur
            /\ pc'[Main] \in {"recvpk", "push", "remove", "sendhdr", "recvhdr", "bcast"}
        BY <1>2, <2>9 DEF Handshake, SendPk, RecvPk, Push, SendHdr, RecvHdr, Announce
      <3> QED
        BY <2>1, <2>4, <3>1 DEF Granted, Fresh, Before
    <2>10. CASE Close(Main)
      <3>1. pc[Main] = "close" /\ pc'[Main] = "accept" /\ cur' = cur
        BY <1>2, <2>10 DEF Close, AfterClose
      <3>2. CASE pc[c] # "idle" \/ c # cur
        BY <2>1, <2>4, <3>1, <3>2 DEF Granted, Fresh
      <3>3. CASE pc[c] = "idle" /\ c = cur
        <4>1. Held(c) /\ ~Granted(c)'
          BY <1>4, <2>1, <3>1, <3>3 DEF Granted, Before, Purse
        <4>2. c \notin Listed
          BY <1>1, <3>1, <3>3 DEF Control, Alive, Leaving, Subject
        <4>3. ~Checked(c)' /\ ~Adding(c)'
          BY <4>2, RoundAt DEF RNext, RefillAt, Checked, Adding
        <4>4. messages_remaining'[c] >= Low
          <5>1. messages_remaining[c] \in Int
            BY <1>1 DEF TypeOK
          <5> QED
            BY <1>4, <2>3, <4>1, <5>1, Bounds, Limits DEF Held
        <4> QED
          BY <4>1, <4>3, <4>4 DEF Purse, Unset
      <3> QED
        BY <3>2, <3>3
    <2>11. CASE Call(Main) /\ ~Close(Main)
      <3>1. /\ pc[Main] \in {"bcast", "send", "remove"} /\ cur' = cur
        BY <2>11 DEF Call, BeginBroadcast, SendNext, EndBroadcast, Remove
      <3>2. pc'[Main] \in {"send", "bcast", "spawn", "close", "load"}
        BY <1>2, <2>11 DEF Call, BeginBroadcast, SendNext, EndBroadcast, AfterNotice, Remove, Announce
      <3> QED
        BY <2>1, <2>4, <3>1, <3>2 DEF Granted, Fresh, Before
    <2> QED
      BY <1>7, <2>5, <2>6, <2>7, <2>8, <2>9, <2>10, <2>11 DEF MainStep
  <1> QED
    BY <1>5, <1>6, <1>7

\* What a step of c itself does to what it has paid and may go on to spend.
LEMMA ManageSpends ==
  ASSUME Inv, Rate, RNext, NEW c \in Client, ManageStep(c), ~Load(c), ~Store(c)
  PROVE  /\ Paid(c)' = Paid(c) /\ UNCHANGED <<reg, messages_remaining>> /\ pc'[c] # "store"
         /\ Spends(c)' => Spends(c) \/ HasToken(c)
  <1> USE DEF Inv, locals, heap, net
  <1>1. TypeOK /\ c \in Thread /\ c \in Caller /\ c # Main /\ Account(c) /\ spent[c] \in Nat
    BY Threads DEF Thread, Caller, Rate
  <1>2. ASSUME NEW l, Goto(c, l) PROVE pc'[c] = l
    BY <1>1, <1>2 DEF Goto, TypeOK
  <1>3. ASSUME NEW v, out' = [out EXCEPT ![c] = v] PROVE out'[c] = v
    BY <1>1, <1>3 DEF TypeOK
  <1>4. UNCHANGED <<reg, messages_remaining>>
    BY DEF ManageStep, RecvFailed, RecvIgnored, RecvChat, RecvRename, UniqueLock, Compare,
           UniqueUnlock, FreeName, DupName, Call, BeginBroadcast, SendNext, EndBroadcast,
           Remove, Close
  <1>5. ASSUME out'[c].kind = out[c].kind PROVE Paid(c)' = Paid(c)
    <2>1. spent'[c] = spent[c]
      BY <1>5, Counters DEF LetThrough
    <2> QED
      BY <1>5, <2>1 DEF Paid, Pending
  <1>6. ASSUME NEW kind \in {"chat", "rename"}, Announce(c, kind), pc[c] \in {"recv", "compare"}
        PROVE  Paid(c)' = Paid(c) /\ pc'[c] = "bcast"
    <2>1. out[c].kind = "none" /\ out'[c].kind = kind /\ pc'[c] = "bcast"
      BY <1>1, <1>2, <1>3, <1>6 DEF Announce, Account, Calm
    <2>2. spent'[c] = spent[c] + 1
      BY <2>1, Counters DEF LetThrough
    <2>3. Pending(c) = 0 /\ Pending(c)' = 1
      BY <2>1 DEF Pending
    <2> QED
      BY <1>1, <2>1, <2>2, <2>3 DEF Paid
  <1>7. ASSUME out[c].kind \in {"none", "left"}, out'[c].kind \in {"none", "left"}
        PROVE  Paid(c)' = Paid(c)
    <2>1. spent'[c] = spent[c]
      BY <1>7, Counters DEF LetThrough
    <2> QED
      BY <1>7, <2>1 DEF Paid, Pending
  <1>8. CASE RecvFailed(c) \/ RecvIgnored(c) \/ FreeName(c) \/ DupName(c)
    BY <1>2, <1>4, <1>5, <1>8 DEF RecvFailed, RecvIgnored, FreeName, DupName, Spends
  <1>9. CASE RecvChat(c)
    BY <1>4, <1>6, <1>9 DEF RecvChat
  <1>10. CASE RecvRename(c)
    BY <1>2, <1>4, <1>5, <1>10 DEF RecvRename
  <1>11. CASE UniqueLock(c) \/ Compare(c)
    BY <1>2, <1>4, <1>5, <1>11 DEF UniqueLock, Compare, Spends
  <1>12. CASE UniqueUnlock(c)
    <2>1. Spends(c) /\ pc[c] = "compare"
      BY <1>12 DEF UniqueUnlock, Spends
    <2>2. CASE Goto(c, "recv") /\ UNCHANGED out
      BY <1>2, <1>4, <1>5, <2>1, <2>2
    <2>3. CASE Announce(c, "rename")
      BY <1>4, <1>6, <2>1, <2>3
    <2> QED
      BY <1>12, <2>2, <2>3 DEF UniqueUnlock
  <1>13. CASE BeginBroadcast(c) \/ SendNext(c)
    BY <1>2, <1>4, <1>5, <1>13 DEF BeginBroadcast, SendNext, Spends
  <1>14. CASE EndBroadcast(c)
    <2>1. out[c].kind \in {"chat", "rename", "left"} /\ pc[c] = "send"
      BY <1>14 DEF EndBroadcast, Control, Life
    <2>2. out'[c].kind = out[c].kind
      BY <1>3, <1>14 DEF EndBroadcast
    <2>3. pc'[c] \in {"bcast", "close", "load"} /\ (out[c].kind = "left" => pc'[c] # "load")
      BY <1>2, <1>14, <2>1 DEF EndBroadcast, AfterNotice
    <2> QED
      BY <1>4, <1>5, <2>1, <2>2, <2>3 DEF Spends
  <1>15. CASE Remove(c)
    <2>1. pc'[c] = "bcast" /\ out'[c].kind = "left"
      BY <1>2, <1>3, <1>15 DEF Remove, Announce
    <2>2. out[c].kind = "none"
      BY <1>1, <1>15 DEF Remove, Account, Calm
    <2> QED
      BY <1>4, <1>7, <2>1, <2>2 DEF Spends
  <1>16. CASE Close(c)
    <2>1. pc'[c] = "done" /\ out'[c].kind = "none" /\ out[c].kind = "left"
      BY <1>1, <1>2, <1>3, <1>16 DEF Close, AfterClose, Silent, Account
    <2> QED
      BY <1>4, <1>7, <2>1 DEF Spends
  <1> QED
    BY <1>8, <1>9, <1>10, <1>11, <1>12, <1>13, <1>14, <1>15, <1>16 DEF ManageStep, Call

LEMMA ManagePurse ==
  ASSUME Inv, Tokens, Rate, RNext, ~RefillStep, NEW d \in Client, ManageStep(d),
         NEW c \in Client
  PROVE  Purse(c)'
  <1>1. /\ TypeOK /\ Main \in Thread /\ Main # d /\ Client \subseteq Thread /\ c \in Thread
        /\ Purse(c) /\ Account(c) /\ raced \in [Client -> BOOLEAN]
    BY Threads DEF Inv, Tokens, Rate, Purse, Thread, Caller
  <1>2. cur' = cur /\ pc'[Main] = pc[Main] /\ pc[d] # "idle" /\ pc'[d] # "idle"
    BY <1>1, ManageFrame
  <1>3. ~Grant
    <2>1. CASE Grant
      BY <1>1, <1>2, <2>1 DEF Grant, Goto, TypeOK
    <2> QED
      BY <2>1
  <1>4. CASE c # d
    <2>1. /\ pc'[c] = pc[c] /\ out'[c] = out[c] /\ reg'[c] = reg[c]
          /\ messages_remaining'[c] = messages_remaining[c]
      BY <1>1, <1>4, ManageFrame
    <2>2. (Granted(c)' <=> Granted(c)) /\ (Fresh(c) => Fresh(c)')
      BY <1>2, <2>1 DEF Granted, Fresh
    <2> QED
      BY <1>3, <2>1, <2>2, PurseBystander
  <1>5. CASE c = d
    <2>1. Granted(c) /\ Granted(c)' /\ Held(c) /\ ~Fresh(c)
      BY <1>1, <1>2, <1>5 DEF Granted, Purse, Fresh, Inv, Control, Accepting
    <2>2. raced'[c] = raced[c] /\ Floor(c)' = Floor(c) /\ Ceil(c)' = Ceil(c)
      <3>1. raced'[c] = raced[c]
        BY <1>1, <1>3 DEF RNext
      <3> QED
        BY <3>1 DEF Floor, Ceil
    <2>3. /\ Checked(c)' => Checked(c)
          /\ Adding(c)' => Adding(c) /\ reg'[Refill] = reg[Refill]
      BY RoundAt DEF RNext
    <2>4. messages_remaining[c] \in Int /\ reg[c] \in Int /\ reg[Refill] \in Int /\ Paid(c) \in Int
      BY <1>1, Amounts DEF Rate
    <2>5. Floor(c) \in Int /\ Floor(c) <= 0 /\ Ceil(c) \in Int /\ MaxTokens \in Int
      BY <1>1, Bounds, Limits
    <2>6. CASE Load(c)
      <3>1. pc[c] = "load" /\ pc'[c] = "store" /\ messages_remaining' = messages_remaining
            /\ reg'[c] = messages_remaining[c] /\ out' = out
        BY <1>1, <2>6 DEF Load, Goto, TypeOK, heap
      <3>2. spent'[c] = spent[c]
        BY <3>1, Counters
      <3>3. Kept(c)' = Kept(c)
        BY <3>1, <3>2 DEF Kept, Paid, Pending
      <3>4. Spends(c) /\ ~Spends(c)'
        BY <3>1 DEF Spends
      <3> QED
        BY <2>1, <2>2, <2>3, <3>1, <3>3, <3>4 DEF Purse, Held
    <2>7. CASE Store(c)
      <3>1. pc[c] = "store" /\ pc'[c] \in {"free", "recv"} /\ messages_remaining'[c] = reg[c] - 1
            /\ out'[c].kind = "none"
        BY <1>1, <2>7 DEF Store, Goto, TypeOK, Silent, Thread, Caller
      <3>2. out[c].kind \in {"chat", "rename"}
        BY <1>1, <3>1 DEF Account
      <3>3. spent'[c] = spent[c] /\ spent[c] \in Nat
        BY <3>1, Counters DEF LetThrough, Rate
      <3>4. Kept(c)' = Kept(c) - 1 /\ Kept(c) \in Int
        <4>1. Pending(c) = 1 /\ Pending(c)' = 0
          BY <3>1, <3>2 DEF Pending
        <4> QED
          BY <2>5, <3>3, <4>1 DEF Kept, Paid
      <3>5. ~Spends(c)' /\ pc'[c] # "store"
        BY <3>1 DEF Spends
      <3>6. /\ messages_remaining'[c] >= Floor(c) /\ messages_remaining'[c] < Ceil(c)
            /\ messages_remaining'[c] <= Ceil(c)
        <4>1. reg[c] > Floor(c) /\ reg[c] <= Ceil(c)
          BY <2>1, <3>1 DEF Held
        <4> QED
          BY <2>4, <2>5, <3>1, <4>1
      <3>7. ~raced[c] => /\ messages_remaining'[c] >= Kept(c)'
                         /\ Adding(c)' => reg'[Refill] + 1 >= Kept(c)'
        <4>1. ~raced[c] => reg[c] >= Kept(c) /\ (Adding(c) => reg[Refill] + 1 >= Kept(c))
          BY <2>1, <3>1 DEF Held
        <4>2. ~raced[c] => messages_remaining'[c] >= Kept(c)'
          BY <2>4, <3>1, <3>4, <4>1
        <4>3. ~raced[c] /\ Adding(c)' => reg'[Refill] + 1 >= Kept(c)'
          BY <2>3, <2>4, <3>4, <4>1
        <4> QED
          BY <4>2, <4>3
      <3>8. Adding(c)' => /\ reg'[Refill] + 1 >= Floor(c) /\ reg'[Refill] < Ceil(c)
                          /\ reg'[Refill] >= Floor(c)
        BY <2>1, <2>3 DEF Held
      <3> QED
        BY <2>1, <2>2, <3>5, <3>6, <3>7, <3>8 DEF Purse, Held
    <2>8. CASE ~Load(c) /\ ~Store(c)
      <3>1. /\ Paid(c)' = Paid(c) /\ UNCHANGED <<reg, messages_remaining>> /\ pc'[c] # "store"
            /\ Spends(c)' => Spends(c) \/ HasToken(c)
        BY <1>5, <2>8, ManageSpends
      <3>2. Spends(c)' => messages_remaining[c] > Floor(c)
        BY <2>1, <2>4, <2>5, <3>1 DEF HasToken, Held
      <3>3. Kept(c)' = Kept(c)
        BY <3>1 DEF Kept
      <3> QED
        BY <2>1, <2>2, <2>3, <3>1, <3>2, <3>3 DEF Purse, Held
    <2> QED
      BY <2>6, <2>7, <2>8
  <1> QED
    BY <1>4, <1>5

LEMMA PeerPurse ==
  ASSUME Inv, Tokens, Rate, RNext, ~RefillStep, NEW d \in Client, PeerStep(d), NEW c \in Client
  PROVE  Purse(c)'
  <1>1. UNCHANGED <<pc, out, reg, messages_remaining, cur>>
    BY DEF PeerStep, PeerConnect, PeerRead, PeerClose, locals, heap
  <1>2. ~Grant
    <2>1. CASE Grant
      BY <1>1, <2>1 DEF Grant, Goto, Inv, TypeOK, Thread, Caller
    <2> QED
      BY <2>1
  <1> QED
    BY <1>1, <1>2, PurseBystander DEF Granted, Fresh

LEMMA RefillPurse ==
  ASSUME Inv, Tokens, Rate, RNext, RefillStep, NEW c \in Client
  PROVE  Purse(c)'
  <1>1. /\ TypeOK /\ Refill \in Thread /\ Main \in Thread /\ c \in Thread /\ Main # Refill
        /\ c # Refill /\ raced \in [Client -> BOOLEAN]
    BY Threads DEF Inv, Tokens, Thread, Caller
  <1>2. /\ pc'[c] = pc[c] /\ out'[c] = out[c] /\ reg'[c] = reg[c] /\ pc'[Main] = pc[Main]
        /\ UNCHANGED <<clients, client_n, cur>>
    BY <1>1, RoundMove
  <1>3. raced'[c] = raced[c] /\ spent'[c] = spent[c]
    <2>1. ~Grant
      BY <1>1, <1>2 DEF Grant, Goto, TypeOK
    <2> QED
      BY <1>1, <1>2, <2>1, Counters DEF RNext
  <1>4. (Granted(c)' <=> Granted(c)) /\ (Fresh(c)' <=> Fresh(c)) /\ (Spends(c)' <=> Spends(c))
    BY <1>2 DEF Granted, Fresh, Spends
  <1>5. Floor(c)' = Floor(c) /\ Ceil(c)' = Ceil(c) /\ Kept(c)' = Kept(c)
    BY <1>2, <1>3 DEF Floor, Ceil, Kept, Paid, Pending
  <1>6. messages_remaining[c] \in Int /\ reg[Refill] \in Int /\ Paid(c) \in Int
    BY <1>1, Amounts DEF Rate
  <1>7. Floor(c) \in Int /\ Floor(c) <= 0 /\ Ceil(c) \in Int /\ MaxTokens <= Ceil(c) /\ Low <= Floor(c)
        /\ MaxTokens \in Int /\ Low \in Int /\ Kept(c) \in Int
    BY <1>1, <1>6, Bounds, Limits DEF Kept
  <1>8. Purse(c)
    BY DEF Tokens, Purse
  <1>9. ASSUME messages_remaining' = messages_remaining, ~Adding(c)', Checked(c)' => Checked(c)
        PROVE  Purse(c)'
    BY <1>2, <1>3, <1>4, <1>8, <1>9, PurseKept
  <1>10. CASE RefillLock \/ RefillUnlock
    <2>1. messages_remaining' = messages_remaining /\ pc'[Refill] \in {"scan", "sleep"}
      BY <1>1, <1>10 DEF RefillLock, RefillUnlock, Goto, TypeOK, heap
    <2> QED
      BY <1>9, <2>1 DEF Adding, Checked
  <1>11. CASE RefillScan
    <2>1. messages_remaining' = messages_remaining /\ reg' = reg /\ pc[Refill] = "scan"
      BY <1>11 DEF RefillScan, heap, locals
    <2>2. CASE pc' = pc
      BY <1>9, <2>1, <2>2 DEF Adding, Checked
    <2>3. CASE Goto(Refill, "incr") /\ cursor' = cursor
                 /\ Refillable(messages_remaining[clients[cursor]])
      <3>1. pc'[Refill] = "incr"
        BY <1>1, <2>3 DEF Goto, TypeOK
      <3>2. ~Adding(c)' /\ ~Checked(c) /\ ~Adding(c)
        BY <2>1, <3>1 DEF Adding, Checked
      <3>3. Checked(c)' => messages_remaining[c] < MaxTokens
        BY <1>2, <2>3, <3>1 DEF Checked, Refillable
      <3>4. Checked(c)' => messages_remaining[c] < Ceil(c)
        BY <1>6, <1>7, <3>3
      <3>5. Held(c) /\ Granted(c) => Held(c)'
        BY <1>2, <1>3, <1>4, <1>5, <2>1, <3>2, <3>4 DEF Held
      <3>6. Unset(c) => Unset(c)'
        BY <2>1, <3>2, <3>3 DEF Unset
      <3> QED
        BY <1>4, <1>8, <3>5, <3>6 DEF Purse
    <2> QED
      BY <1>11, <2>2, <2>3 DEF RefillScan
  <1>12. CASE RefillLoad
    <2>1. messages_remaining' = messages_remaining /\ pc[Refill] = "incr" /\ cursor' = cursor
          /\ pc'[Refill] = "add" /\ reg'[Refill] = messages_remaining[clients[cursor]]
      BY <1>1, <1>12 DEF RefillLoad, Goto, TypeOK, heap, lock
    <2>2. CASE clients[cursor] # c
      BY <1>2, <1>9, <2>1, <2>2 DEF Adding, Checked
    <2>3. CASE clients[cursor] = c
      <3>1. Checked(c) /\ ~Checked(c)' /\ reg'[Refill] = messages_remaining[c]
        BY <2>1, <2>3 DEF Checked
      <3>2. Held(c) /\ Granted(c) => Held(c)'
        <4> SUFFICES ASSUME Held(c), Granted(c) PROVE Held(c)'
          OBVIOUS
        <4>1. /\ reg'[Refill] + 1 >= Floor(c) /\ reg'[Refill] < Ceil(c) /\ reg'[Refill] >= Floor(c)
              /\ ~raced[c] => reg'[Refill] + 1 >= Kept(c)
          BY <1>6, <1>7, <3>1 DEF Held
        <4> QED
          BY <1>2, <1>3, <1>4, <1>5, <2>1, <3>1, <4>1 DEF Held
      <3>3. Unset(c) => Unset(c)'
        BY <2>1, <3>1 DEF Unset
      <3> QED
        BY <1>4, <1>8, <3>2, <3>3 DEF Purse
    <2> QED
      BY <2>2, <2>3
  <1>13. CASE RefillAdd
    <2>1. pc[Refill] = "add" /\ pc'[Refill] = "scan"
          /\ messages_remaining' = [messages_remaining EXCEPT ![clients[cursor]] = reg[Refill] + 1]
      BY <1>1, <1>13 DEF RefillAdd, Goto, TypeOK
    <2>2. ~Adding(c)' /\ ~Checked(c)'
      BY <2>1 DEF Adding, Checked
    <2>3. CASE clients[cursor] # c
      <3>1. messages_remaining'[c] = messages_remaining[c]
        BY <1>1, <2>1, <2>3 DEF TypeOK
      <3> QED
        BY <1>2, <1>3, <1>4, <1>8, <2>2, <3>1, PurseKept
    <2>4. CASE clients[cursor] = c
      <3>1. Adding(c) /\ messages_remaining'[c] = reg[Refill] + 1
        BY <1>1, <2>1, <2>4 DEF TypeOK, Adding
      <3>2. Held(c) /\ Granted(c) => Held(c)'
        <4> SUFFICES ASSUME Held(c), Granted(c) PROVE Held(c)'
          OBVIOUS
        <4>1. /\ messages_remaining'[c] >= Floor(c) /\ messages_remaining'[c] <= Ceil(c)
              /\ ~raced[c] => messages_remaining'[c] >= Kept(c)
          BY <1>6, <1>7, <3>1 DEF Held
        <4>2. Spends(c) => ~Fresh(c)
          BY <1>1 DEF Spends, Fresh, Inv, Control, Accepting
        <4>3. Spends(c) => messages_remaining'[c] > Floor(c)
          BY <1>6, <1>7, <3>1, <4>2 DEF Held
        <4> QED
          BY <1>2, <1>3, <1>4, <1>5, <2>2, <4>1, <4>3 DEF Held
      <3>3. Unset(c) => Unset(c)'
        <4>1. Unset(c) => messages_remaining'[c] >= Low
          BY <1>6, <1>7, <3>1 DEF Unset
        <4> QED
          BY <2>2, <4>1 DEF Unset
      <3> QED
        BY <1>4, <1>8, <3>2, <3>3 DEF Purse
    <2> QED
      BY <2>3, <2>4
  <1> QED
    BY <1>10, <1>11, <1>12, <1>13 DEF RefillStep

LEMMA TokensStep ==
  ASSUME Inv, Tokens, Rate, RNext
  PROVE  Tokens'
  <1>1. raced' \in [Client -> BOOLEAN]
    BY DEF Tokens, RNext
  <1>2. \A c \in Client : Purse(c)'
    <2>1. CASE RefillStep
      BY <2>1, RefillPurse
    <2>2. CASE ~RefillStep
      <3>1. MainStep \/ \E d \in Client : ManageStep(d) \/ PeerStep(d)
        BY <2>2 DEF RNext, Next
      <3> QED
        BY <2>2, <3>1, MainPurse, ManagePurse, PeerPurse
    <2> QED
      BY <2>1, <2>2
  <1> QED
    BY <1>1, <1>2 DEF Tokens, Purse

-----------------------------------------------------------------------------
\* Account and purse together: each needs the other.
LEMMA RateInvariance == RSpec => [](Inv /\ Rate /\ Tokens)
  <1>1. RSpec => Spec
    <2>1. RInit => Init
      BY DEF RInit
    <2>2. [RNext]_rvars => [Next]_vars
      BY DEF RNext, rvars
    <2> QED
      BY <2>1, <2>2, PTL DEF RSpec, Spec
  <1>2. RInit => Rate /\ Tokens
    <2> SUFFICES ASSUME RInit PROVE Rate /\ Tokens
      OBVIOUS
    <2>1. Main \in Thread /\ Refill \in Thread /\ Client \subseteq Thread /\ Client \subseteq Caller
      BY DEF Thread, Caller
    <2>2. pc[Main] = "accept" /\ pc[Refill] = "sleep" /\ mutex = Null /\ \A c \in Client : pc[c] = "idle"
      BY <2>1, Threads DEF RInit, Init
    <2>3. \A c \in Client : out[c].kind = "none" /\ spent[c] = 0
      BY <2>1 DEF RInit, Init, Silent
    <2>4. \A c \in Client : ~Granted(c) /\ ~Adding(c) /\ ~Checked(c)
      BY <2>2 DEF Granted, Before, Adding, Checked
    <2>5. spent \in [Client -> Nat] /\ ticks = 0 /\ Budget \in Int /\ Budget >= 0
      BY Limits DEF RInit, Budget
    <2>6. mutex # Refill
      BY <2>2, Threads
    <2>7. Rate
      BY <2>2, <2>3, <2>4, <2>5, <2>6 DEF Rate, Account
    <2>8. \A c \in Client : messages_remaining[c] >= Low
      BY Limits DEF RInit, Init
    <2>9. Tokens
      BY <2>4, <2>8 DEF RInit, Tokens, Unset
    <2> QED
      BY <2>7, <2>9
  <1>3. Inv /\ Inv' /\ Rate /\ Tokens /\ [RNext]_rvars => Rate' /\ Tokens'
    <2> SUFFICES ASSUME Inv, Inv', Rate, Tokens, [RNext]_rvars PROVE Rate' /\ Tokens'
      OBVIOUS
    <2>1. CASE UNCHANGED rvars
      <3>1. Rate'
        BY <2>1
        DEF Rate, Account, Budget, Paid, Pending, Due, Gain, Loose, Adding, Granted, rvars, vars,
            roster, lock, locals, heap, net
      <3>2. Tokens'
        BY <2>1
        DEF Tokens, Held, Unset, Kept, Floor, Ceil, Checked, Fresh, Spends, Paid, Pending, Adding,
            Granted, rvars, vars, roster, lock, locals, heap, net
      <3> QED
        BY <3>1, <3>2
    <2>2. CASE RNext
      BY <2>2, RateStep, TokensStep
    <2> QED
      BY <2>1, <2>2
  <1> QED
    BY <1>1, <1>2, <1>3, Invariance, PTL DEF RSpec

(* The server passes on at most the first grant and two messages for every *)
(* round of refill_messages, for any number of clients: the increment that *)
(* overwrites a decrement of client_manage gives one message more than the *)
(* round, and never two.                                                   *)
THEOREM RateLimitCorrect == RSpec => []RateLimit
  <1>1. Rate => RateLimit
    BY DEF Rate, Account, RateLimit, Budget
  <1> QED
    BY <1>1, RateInvariance, PTL

(* However the check, the load and the store of a refill interleave with   *)
(* the unlocked decrement and with the first grant, a served client holds  *)
(* between none and MaxTokens and loses no token it has not spent; if the  *)
(* grant fell into a refill of that client, it holds at most one more, and *)
(* at least what malloc left plus one.                                     *)
THEOREM TokensCorrect == RSpec => []TokenRange
  <1>1. Inv /\ Rate /\ Tokens => TokenRange
    <2> SUFFICES ASSUME Inv, Rate, Tokens, NEW c \in Client, Served(c)
                 PROVE  IF raced[c]
                        THEN messages_remaining[c] \in (IF Fill < 0 THEN Fill + 1 ELSE 0)..(MaxTokens + 1)
                        ELSE /\ messages_remaining[c] \in 0..MaxTokens
                             /\ messages_remaining[c] >= MaxTokens - spent[c]
      BY DEF TokenRange
    <2>1. Granted(c) /\ Held(c) /\ raced[c] \in BOOLEAN
      BY DEF Served, Granted, Tokens
    <2>2. /\ messages_remaining[c] \in Int /\ Paid(c) \in Int /\ Pending(c) \in {0, 1}
          /\ spent[c] \in Nat /\ Paid(c) + Pending(c) = spent[c]
      BY Amounts DEF Inv, Rate
    <2>3. Fill \in Int /\ MaxTokens \in Int
      BY ServerAssumption
    <2>4. CASE raced[c]
      <3>1. messages_remaining[c] >= (IF Fill < 0 THEN Fill + 1 ELSE 0)
            /\ messages_remaining[c] <= MaxTokens + 1
        BY <2>1, <2>4 DEF Held, Floor, Ceil
      <3> QED
        BY <2>2, <2>3, <2>4, <3>1
    <2>5. CASE ~raced[c]
      <3>1. messages_remaining[c] >= 0 /\ messages_remaining[c] <= MaxTokens
            /\ messages_remaining[c] >= MaxTokens - Paid(c)
        BY <2>1, <2>5 DEF Held, Floor, Ceil, Kept
      <3>2. messages_remaining[c] >= MaxTokens - spent[c]
        BY <2>2, <2>3, <3>1
      <3> QED
        BY <2>2, <2>3, <2>5, <3>1, <3>2
    <2> QED
      BY <2>4, <2>5
  <1> QED
    BY <1>1, RateInvariance, PTL
=============================================================================
