----------------------------- MODULE JsonProps -----------------------------
(***************************************************************************)
(* What the parser accepts, that it reads what the printer has written,    *)
(* and that nothing in the middle of that passes for an object.            *)
(***************************************************************************)
EXTENDS JsonSafety

\* A grammar by sets: where a value that starts at i may end.  It is JSON's,
\* but for white space (any byte up to 32), leading zeroes, unchecked bytes in
\* strings and \u with any four of them, which cJSON lets pass.
Gap(t, i) == {j \in i..Len(t) - 1 : \A k \in i..j - 1 : At(t, k) <= 32}
After(t, offsets) == UNION {Gap(t, i) : i \in offsets}
Byte(t, b, offsets) == {i + 1 : i \in {i \in offsets : At(t, i) = b}}

Units(t, i) ==
  LET unit == Hex4(t, i + 2) IN
  IF At(t, i) # Backslash THEN {i + 1}
  ELSE IF At(t, i + 1) \in {Quote, Backslash, Slash, 98, 102, 110, 114, 116} THEN {i + 2}
  ELSE IF At(t, i + 1) # 117 \/ \E k \in i + 2..i + 5 : At(t, k) \in {Quote, Beyond} THEN {}
  ELSE IF ~Surrogate(unit) THEN {i + 6}
  ELSE IF /\ HighSurrogate(unit)
          /\ Bytes(t, i + 6, 2) = <<Backslash, 117>>
          /\ LowSurrogate(Hex4(t, i + 8))
       THEN {i + 12}
  ELSE {}

RECURSIVE StringEnds(_, _)
StringEnds(t, i) ==
  IF i >= Len(t) THEN {}
  ELSE IF At(t, i) = Quote THEN {i + 1}
  ELSE UNION {StringEnds(t, j) : j \in Units(t, i)}
Strings(t, offsets) == UNION {StringEnds(t, i) : i \in Byte(t, Quote, offsets)}

Word(t, bytes, i) == {j \in {i + Len(bytes)} : Bytes(t, i, Len(bytes)) = bytes}
Numbers(t, i) ==
  LET first == IF At(t, i) = Minus THEN i + 1 ELSE i
  IN {j \in first + 1..Len(t) :
        (\A k \in first..j - 1 : At(t, k) \in 48..57) /\ At(t, j) \notin 48..57}

RECURSIVE ValueEnds(_, _, _), Elements(_, _, _, _), MembersOf(_, _, _, _)
ValueEnds(t, i, room) ==
  LET Within(b) == After(t, Byte(t, b, {i})) IN
  UNION {Word(t, Literal[type], i) : type \in DOMAIN Literal} \cup Strings(t, {i}) \cup Numbers(t, i)
  \cup (IF room = 0 THEN {}
        ELSE Byte(t, RBracket, Within(LBracket)) \cup Elements(t, Within(LBracket), room - 1, Len(t))
             \cup Byte(t, RBrace, Within(LBrace)) \cup MembersOf(t, Within(LBrace), room - 1, Len(t)))
Elements(t, starts, room, most) ==
  IF starts = {} \/ most = 0 THEN {}
  ELSE LET ends == After(t, UNION {ValueEnds(t, i, room) : i \in starts})
       IN Byte(t, RBracket, ends) \cup Elements(t, After(t, Byte(t, Comma, ends)), room, most - 1)
MembersOf(t, starts, room, most) ==
  IF starts = {} \/ most = 0 THEN {}
  ELSE LET values == After(t, Byte(t, Colon, After(t, Strings(t, starts))))
           ends == After(t, UNION {ValueEnds(t, i, room) : i \in values})
       IN Byte(t, RBrace, ends) \cup MembersOf(t, After(t, Byte(t, Comma, ends)), room, most - 1)

Accepts == \E i \in Gap(text, Bom) : ValueEnds(text, i, NestingLimit) # {}

\* cJSON_Parse gives a tree for exactly the texts that begin with a value, as
\* long as no allocation is refused.
Grammar ==
  /\ pc = "tree" /\ text # <<>> => Accepts
  /\ pc = "failed" /\ fails = 0 => ~Accepts

\* What is printed, formatted or not, is parsed by the other side to what the
\* tree said, up to the first 0 of each string; only a refused allocation keeps
\* it from being parsed.
RoundTrip ==
  said # <<>> =>
    /\ pc = "tree" => ValueOf(root, FALSE) = said[1]
    /\ pc = "failed" => fails > 0

\* What polycomm prints to be received, logged and replayed: strings under names
\* of small letters.
Plain(value) ==
  /\ value.type = "object"
  /\ \A k \in DOMAIN value.kids :
       value.kids[k].type = "string" /\ \A n \in DOMAIN value.kids[k].name[1] :
         value.kids[k].name[1][n] \in 97..122

\* Whether an object with a member begins at byte i of a line.
ObjectAt(line, i) ==
  MembersOf(line, After(line, Byte(line, LBrace, {i})), NestingLimit - 1, Len(line)) # {}

\* client.c:225: the log is read in pieces that may begin anywhere, and a line
\* may hold the start of one text, of any length, and then another.  Wherever a
\* piece begins, it does not pass for a message, unless with a whole text.
PiecesSilent ==
  (pc = "parse" /\ said # <<>> /\ Plain(said[1])) =>
    LET written == Front(text) IN
    \A n \in 0..Len(written) :
      LET line == SubSeq(written, 1, n) \o text
      IN \A i \in 0..Len(line) - 1 :
           ObjectAt(line, i) => i = n \/ (i = 0 /\ n = Len(written))
=============================================================================
