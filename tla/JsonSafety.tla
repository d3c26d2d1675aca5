----------------------------- MODULE JsonSafety -----------------------------
(***************************************************************************)
(* The heap that the parser, the builder and cJSON_Delete leave, the bytes *)
(* the parser decodes and the room the printer has.                        *)
(***************************************************************************)
EXTENDS Json

\* The parser always stands on a byte of the buffer, so that the reads that
\* check nothing (the first byte of a name, buffer_at_offset after a step back)
\* read what was passed.
InBounds == pc \in {"value", "element", "name", "after"} => offset \in 0..Len(text) - 1

\* In a tree, parsed or built, every list is linked in both directions, its head
\* knows its last item, and no item allocated hangs anywhere else or nowhere:
\* add_item_to_array and cJSON_Delete rely on it.
ListShape ==
  pc \in {"tree", "printed"} =>
    LET live == {i \in DOMAIN items : items[i].live}
        kids(i) == Siblings(items[i].child)
    IN /\ \A i \in live :
            \A k \in DOMAIN kids(i) :
              items[kids(i)[k]].prev = IF k = 1 THEN Last(kids(i)) ELSE kids(i)[k - 1]
       /\ \A j \in live \ {root} :
            Cardinality({i \in live : j \in {kids(i)[k] : k \in DOMAIN kids(i)}}) = 1

\* A parse that fails and a tree that is deleted leave no item and no string,
\* a print that fails leaves no buffer, whichever allocation was refused, and
\* nothing is freed twice.  (The tree that could not be printed is its owner's,
\* and polycomm never frees it.)
NoLeak ==
  /\ ~misused
  /\ pc \in {"parse", "failed", "deleted"} => strings = 0 /\ \A i \in DOMAIN items : ~items[i].live
  /\ pc = "unprinted" => size = 0

\* Every write fits into what ensure has provided, the offset never leaves it,
\* and no buffer is larger than an int can say.
WithinBuffer ==
  /\ Len(buffer) <= size
  /\ pc = "print" => printed < size
  /\ size <= Max({IntMax, DefaultSize})

\* What a UTF-8 decoder that refuses longer forms than needed reads.
Decoded(bytes) ==
  LET n == Len(bytes)
      b(k) == bytes[k] - 128
  IN IF \E k \in 2..n : b(k) < 0 \/ b(k) > 63 THEN -1
     ELSE IF n = 1 /\ bytes[1] < 128 THEN bytes[1]
     ELSE IF n = 2 /\ bytes[1] >= 194 /\ bytes[1] <= 223 THEN (bytes[1] - 192) * 64 + b(2)
     ELSE IF /\ n = 3 /\ bytes[1] >= 224 /\ bytes[1] <= 239
             /\ bytes[1] > 224 \/ bytes[2] > 159
          THEN ((bytes[1] - 224) * 64 + b(2)) * 64 + b(3)
     ELSE IF /\ n = 4 /\ bytes[1] >= 240 /\ bytes[1] <= 244
             /\ bytes[1] > 240 \/ bytes[2] > 143
          THEN (((bytes[1] - 240) * 64 + b(2)) * 64 + b(3)) * 64 + b(4)
     ELSE -1

\* The code unit of a literal, and the code point of two of them.
CodeUnit(i) == Hex4(text, i + 2)
CodePoint(i) == 65536 + 1024 * (CodeUnit(i) - 55296) + (CodeUnit(i + 6) - 56320)

\* A \u literal becomes the shortest UTF-8 of its code point, and two of them
\* do if they are a surrogate pair; no surrogate gets through alone.
Utf16Decoded ==
  pc = "parse" =>
    \A i \in {i \in 0..Len(text) - 2 : Bytes(text, i, 2) = <<Backslash, 117>>} :
      LET literal == Utf16Literal(text, i, Len(text) - 1)
      IN /\ literal.length \in {0, 6, 12}
         /\ literal.length = 6 => ~Surrogate(CodeUnit(i)) /\ Decoded(literal.out) = CodeUnit(i)
         /\ literal.length = 12 => Decoded(literal.out) = CodePoint(i)

\* The output of parse_string with its terminator fits into the room that was
\* estimated before the escapes were looked at; also when it gives up midway.
OutputFits ==
  pc = "parse" =>
    \A i \in 0..Len(text) - 1 :
      LET s == ParsedString(text, i)
      IN s.room > 0 => Len(s.out) + (IF s.ok THEN 1 ELSE 0) <= s.room
=============================================================================
