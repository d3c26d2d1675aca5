---------------------------- MODULE ServerRate ----------------------------
(***************************************************************************)
(* The server with what its rate limit is about: what each client has      *)
(* spent, how often refill_messages has come round, and which clients it   *)
(* was looking at while Main granted them their first tokens.  The record  *)
(* never influences a step of the server.                                  *)
(***************************************************************************)
EXTENDS ServerProps

CONSTANT MaxTicks    \* bound: rounds of refill_messages

ASSUME RateAssumption == MaxTicks \in Nat

VARIABLES
  spent,   \* spent[c]: chat messages and renames of c that were let through
  ticks,   \* rounds of refill_messages begun
  raced    \* raced[c]: the grant to c fell between the check and the store of a refill

rvars == <<vars, spent, ticks, raced>>

RInit ==
  /\ Init
  /\ spent = [c \in Client |-> 0]
  /\ ticks = 0
  /\ raced = [c \in Client |-> FALSE]

LetThrough(c) == out[c].kind = "none" /\ out'[c].kind \in {"chat", "rename"}

RefillAt(c) == pc[Refill] \in {"incr", "add"} /\ clients[cursor] = c

RNext ==
  /\ Next
  /\ spent' = [c \in Client |-> IF LetThrough(c) THEN spent[c] + 1 ELSE spent[c]]
  /\ ticks' = IF mutex # Refill /\ mutex' = Refill THEN ticks + 1 ELSE ticks
  /\ ticks' <= MaxTicks
  /\ raced' = [c \in Client |-> raced[c] \/ (Grant /\ cur = c /\ RefillAt(c))]

RSpec == RInit /\ [][RNext]_rvars

-----------------------------------------------------------------------------
(* The rate limit as the code keeps it.  A round of refill_messages adds a *)
(* token, and by storing a stale sum it can give back one token that was   *)
(* spent meanwhile; it cannot do worse, because a second message needs the *)
(* mutex that the round holds.                                             *)
RateLimit == \A c \in Client : spent[c] <= MaxTokens + 2 * ticks

(* What a served client holds.  The unlocked decrement and the refill      *)
(* overwrite each other's updates, yet a client never holds more than      *)
(* MaxTokens nor loses a token it has not spent.  The one exception is a   *)
(* first grant that falls into the refill of that very client, which Main  *)
(* has listed before it grants: the ++ then stores one token too many, or  *)
(* what malloc had left in the field plus one, and the grant is lost.      *)
TokenRange ==
  \A c \in Client : Served(c) =>
    IF raced[c]
    THEN messages_remaining[c] \in (IF Fill < 0 THEN Fill + 1 ELSE 0)..(MaxTokens + 1)
    ELSE /\ messages_remaining[c] \in 0..MaxTokens
         /\ messages_remaining[c] >= MaxTokens - spent[c]
=============================================================================
