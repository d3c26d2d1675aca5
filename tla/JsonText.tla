------------------------------ MODULE JsonText ------------------------------
(***************************************************************************)
(* The texts of cJSON, byte by byte: parse_string with its escapes and the *)
(* UTF-16 literals that become UTF-8, and print_string_ptr.  Bytes are     *)
(* numbers.  Offsets count from 0, as in the source.                       *)
(***************************************************************************)
EXTENDS Integers, Sequences, FiniteSets, SequencesExt

Quote == 34
Backslash == 92
Slash == 47
Comma == 44
Colon == 58
LBracket == 91
RBracket == 93
LBrace == 123
RBrace == 125

\* Bytes, and those of a C string.
Char == {b \in Nat : b < 256}
NonZero == Char \ {0}

\* The letters of the escapes, and what they stand for: b f n r t.
Letter == <<98, 102, 110, 114, 116>>
Meant  == <<8, 12, 10, 13, 9>>

\* The i-th byte; what is beyond the end is no byte.
Beyond == 256
At(text, i) == IF i < Len(text) THEN text[i + 1] ELSE Beyond

\* At most n bytes from the i-th on.
Bytes(text, i, n) == SubSeq(text, i + 1, Min({i + n, Len(text)}))

IndexIn(seq, x) == CHOOSE k \in DOMAIN seq : seq[k] = x

-----------------------------------------------------------------------------
HexDigit(b) ==
  IF b \in 48..57 THEN b - 48
  ELSE IF b \in 65..70 THEN b - 55
  ELSE IF b \in 97..102 THEN b - 87
  ELSE -1

\* parse_hex4: what is no number is 0.
Hex4(text, i) ==
  LET d == [k \in 0..3 |-> HexDigit(At(text, i + k))]
  IN IF -1 \in {d[0], d[1], d[2], d[3]} THEN 0
     ELSE ((d[0] * 16 + d[1]) * 16 + d[2]) * 16 + d[3]

\* Mutant: the last code point of two bytes gets three.
Utf8LengthEarly(c) == IF c < 128 THEN 1 ELSE IF c < 2047 THEN 2 ELSE IF c < 65536 THEN 3 ELSE 4
Utf8Length(c) == IF c < 128 THEN 1 ELSE IF c < 2048 THEN 2 ELSE IF c < 65536 THEN 3 ELSE 4

\* The encoder fills its bytes from the last to the first, six bits at a time:
\* at byte k of n, what the n - k bytes behind it have left.
Utf8(c) ==
  LET n == Utf8Length(c)
      Mark == <<0, 192, 224, 240>>
      Rest(k) == c \div <<1, 64, 4096, 262144>>[n - k + 1]
  IN [k \in 1..n |-> IF k = 1 THEN (Mark[n] + Rest(1)) % 256 ELSE 128 + (Rest(k) % 64)]

HighSurrogate(u) == 55296 <= u /\ u < 56320
LowSurrogate(u) == 56320 <= u /\ u < 57344
Surrogate(u) == HighSurrogate(u) \/ LowSurrogate(u)

\* utf16_literal_to_utf8 at offset i, before the closing quote at e: how many
\* bytes of the literal it takes, 0 for none, and the bytes it writes.
Utf16Literal(text, i, e) ==
  LET first  == Hex4(text, i + 2)
      second == Hex4(text, i + 8)
      None   == [length |-> 0, out |-> <<>>]
  IN IF e - i < 6 \/ LowSurrogate(first) THEN None
     ELSE IF ~HighSurrogate(first) THEN [length |-> 6, out |-> Utf8(first)]
     ELSE IF \/ e - (i + 6) < 6
             \/ Bytes(text, i + 6, 2) # <<Backslash, 117>>
             \/ ~LowSurrogate(second)
          THEN None
     ELSE [length |-> 12,
           out |-> Utf8(65536 + (first % 1024) * 1024 + (second % 1024))]

-----------------------------------------------------------------------------
\* Whether the byte at p belongs to the backslash before it, in a string that
\* goes on at i.
Escaped(text, i) ==
  LET escaped[p \in i..Len(text)] ==
        IF p = i THEN FALSE ELSE At(text, p - 1) = Backslash /\ ~escaped[p - 1]
  IN escaped

\* The first loop of parse_string: the first unescaped quote at or after i, or
\* -1, and the backslashes it skips on the way to e.
ClosingQuote(text, i) ==
  LET quotes == {p \in i..Len(text) - 1 : At(text, p) = Quote /\ ~Escaped(text, i)[p]}
  IN IF quotes = {} THEN -1 ELSE Min(quotes)

Backslashes(text, i, e) == {p \in i..e - 1 : At(text, p) = Backslash /\ ~Escaped(text, i)[p]}
Skipped(text, i, e) == Cardinality(Backslashes(text, i, e))

\* Mutant: both bytes of an escape are taken off.
AllocationTight(text, o, e) == e - o - 2 * Skipped(text, o + 1, e) + 1
Allocation(text, o, e) == e - o - Skipped(text, o + 1, e) + 1

\* One round of the second loop, at a byte before the closing quote at e.
Unescape(text, e, s) ==
  LET c == At(text, s.at + 1)
      literal == Utf16Literal(text, s.at, e)
      Take(bytes, n) == [s EXCEPT !.at = @ + n, !.out = @ \o bytes]
  IN IF At(text, s.at) # Backslash THEN Take(<<At(text, s.at)>>, 1)
     ELSE IF c \in {Letter[k] : k \in 1..5} THEN Take(<<Meant[IndexIn(Letter, c)]>>, 2)
     ELSE IF c \in {Quote, Backslash, Slash} THEN Take(<<c>>, 2)
     ELSE IF c = 117 /\ literal.length > 0 THEN Take(literal.out, literal.length)
     ELSE [s EXCEPT !.ok = FALSE]

\* The second loop of parse_string, from i up to the closing quote at e: what it
\* has written when it ends or gives up.
Unescaped(text, i, e) ==
  LET round[k \in 0..e - i] ==
        IF k = 0 THEN [ok |-> TRUE, at |-> i, out |-> <<>>]
        ELSE LET s == round[k - 1] IN IF s.ok /\ s.at < e THEN Unescape(text, e, s) ELSE s
  IN round[e - i]

\* parse_string at offset o: the bytes, the room allocated for them (none while
\* no closing quote has been found) and the offset after it.
ParsedString(text, o) ==
  LET e == ClosingQuote(text, o + 1)
      u == Unescaped(text, o + 1, e)
  IN IF At(text, o) # Quote \/ e = -1 THEN [ok |-> FALSE, out |-> <<>>, room |-> 0, after |-> o]
     ELSE [ok |-> u.ok, out |-> u.out, room |-> Allocation(text, o, e), after |-> e + 1]

\* What strlen, strcmp and strcpy see of bytes that were stored.
CString(bytes) ==
  LET zeroes == {k \in 1..Len(bytes) : bytes[k] = 0}
  IN IF zeroes = {} THEN bytes ELSE SubSeq(bytes, 1, Min(zeroes) - 1)

-----------------------------------------------------------------------------
\* The control characters that have an escape of their own.
Controls == {Meant[k] : k \in 1..5}

HexLetter(d) == IF d < 10 THEN 48 + d ELSE 87 + d

\* Mutant: a backslash is printed as it is.
EscapeUnslashed(b) ==
  IF b = Quote THEN <<Backslash, b>>
  ELSE IF b \in Controls THEN <<Backslash, Letter[IndexIn(Meant, b)]>>
  ELSE IF b < 32 THEN <<Backslash, 117, 48, 48, HexLetter(b \div 16), HexLetter(b % 16)>>
  ELSE <<b>>

\* Mutant: a quote is printed as it is.
EscapeUnquoted(b) ==
  IF b = Backslash THEN <<Backslash, b>>
  ELSE IF b \in Controls THEN <<Backslash, Letter[IndexIn(Meant, b)]>>
  ELSE IF b < 32 THEN <<Backslash, 117, 48, 48, HexLetter(b \div 16), HexLetter(b % 16)>>
  ELSE <<b>>

\* print_string_ptr, one byte.
Escape(b) ==
  IF b \in {Quote, Backslash} THEN <<Backslash, b>>
  ELSE IF b \in Controls THEN <<Backslash, Letter[IndexIn(Meant, b)]>>
  ELSE IF b < 32 THEN <<Backslash, 117, 48, 48, HexLetter(b \div 16), HexLetter(b % 16)>>
  ELSE <<b>>

\* Mutant: a \u00xx is counted as if it were a \n.
EscapeCharactersFew(b) == IF b \in {Quote, Backslash} \/ b < 32 THEN 1 ELSE 0
\* The additional characters its first loop counts.
EscapeCharacters(b) ==
  IF b \in {Quote, Backslash} \cup Controls THEN 1 ELSE IF b < 32 THEN 5 ELSE 0

OutputLength(bytes) ==
  LET upto[k \in 0..Len(bytes)] ==
        IF k = 0 THEN 0 ELSE upto[k - 1] + 1 + EscapeCharacters(bytes[k])
  IN upto[Len(bytes)]

Escapes(bytes) ==
  LET upto[k \in 0..Len(bytes)] == IF k = 0 THEN <<>> ELSE upto[k - 1] \o Escape(bytes[k])
  IN upto[Len(bytes)]
=============================================================================
