----------------------------- MODULE JsonPrint -----------------------------
(***************************************************************************)
(* cJSON_Print and cJSON_PrintUnformatted: the writes of print_value,      *)
(* print_array, print_object, print_string_ptr and print_number in their   *)
(* order, each with the room it asks ensure for, into a printbuffer that   *)
(* grows.                                                                  *)
(***************************************************************************)
EXTENDS JsonParse

CONSTANTS DefaultSize, IntMax

ASSUME SizeAssumption == DefaultSize \in Nat \ {0} /\ IntMax \in Nat

VARIABLES
  buffer,   \* what the last write and those before it left
  size,     \* how much is allocated; 0: nothing
  printed,  \* the printbuffer's offset
  format,
  tasks     \* what is still to be done: writes and calls

printbuffer == <<buffer, size, printed, format, tasks>>

-----------------------------------------------------------------------------
\* One write: the bytes "needed" passed to ensure, the bytes written at the
\* offset, how far the offset moves, and whether update_offset follows.
Write(needed, bytes, advance) ==
  [do |-> "write", needed |-> needed, bytes |-> bytes, advance |-> advance, update |-> FALSE]
WriteValue(needed, bytes, advance) == [Write(needed, bytes, advance) EXCEPT !.update = TRUE]

\* A call of print_value for an item, or the loop of print_array or of
\* print_object from a child on.
Call(function, item, depth) == [do |-> function, item |-> item, depth |-> depth]

Tabs(n) == [k \in 1..n |-> 9]

\* print_string_ptr
WriteString(string) ==
  WriteValue(OutputLength(string) + 3, <<Quote>> \o Escapes(string) \o <<Quote, 0>>, 0)

\* sprintf("%d")
Digits(n) ==
  LET digits[k \in 0..n] ==
        IF k < 10 THEN <<48 + k>> ELSE Append(digits[k \div 10], 48 + (k % 10))
  IN digits[n]
Decimal(n) == IF n < 0 THEN <<Minus>> \o Digits(-n) ELSE Digits(n)

WriteNumber(n) == WriteValue(Len(Decimal(n)) + 1, Append(Decimal(n), 0), Len(Decimal(n)))

Optional(condition, byte) == IF condition THEN <<byte>> ELSE <<>>

\* print_array: its head, one round of its loop, its end.
PrintArray(i, depth) == <<Write(1, <<LBracket>>, 1), Call("elements", items[i].child, depth + 1)>>
PrintElement(i, depth) ==
  LET comma == <<Comma>> \o Optional(format, 32)
  IN <<Call("value", i, depth)>>
     \o (IF items[i].next = 0 THEN <<>> ELSE <<Write(Len(comma) + 1, Append(comma, 0), Len(comma))>>)
     \o <<Call("elements", items[i].next, depth)>>
EndArray == <<WriteValue(2, <<RBracket, 0>>, 0)>>

\* print_object: its head, one round of its loop, its end.
PrintObject(i, depth) ==
  LET opening == <<LBrace>> \o Optional(format, 10)
  IN <<Write(Len(opening) + 1, opening, Len(opening)), Call("members", items[i].child, depth + 1)>>
PrintMember(i, depth) ==
  LET colon == <<Colon>> \o Optional(format, 9)
      comma == Optional(items[i].next # 0, Comma) \o Optional(format, 10)
  IN (IF format THEN <<Write(depth, Tabs(depth), depth)>> ELSE <<>>)
     \o <<WriteString(CString(items[i].string[1])),
          Write(Len(colon), colon, Len(colon)),
          Call("value", i, depth),
          Write(Len(comma) + 1, Append(comma, 0), Len(comma)),
          Call("members", items[i].next, depth)>>
EndObject(depth) ==
  <<WriteValue(IF format THEN depth + 1 ELSE 2,
               (IF format THEN Tabs(depth - 1) ELSE <<>>) \o <<RBrace, 0>>, 0)>>

\* print_value
PrintValue(i, depth) ==
  IF items[i].type = "string" THEN <<WriteString(CString(items[i].valuestring[1]))>>
  ELSE IF items[i].type = "number" THEN <<WriteNumber(items[i].number)>>
  ELSE IF items[i].type = "array" THEN PrintArray(i, depth)
  ELSE IF items[i].type = "object" THEN PrintObject(i, depth)
  ELSE <<WriteValue(Len(Literal[items[i].type]) + 1, Append(Literal[items[i].type], 0), 0)>>

Steps(call) ==
  IF call.do = "value" THEN PrintValue(call.item, call.depth)
  ELSE IF call.do = "elements"
  THEN IF call.item = 0 THEN EndArray ELSE PrintElement(call.item, call.depth)
  ELSE IF call.item = 0 THEN EndObject(call.depth) ELSE PrintMember(call.item, call.depth)

-----------------------------------------------------------------------------
\* The size ensure leaves the buffer with, or 0 if it refuses.
Grown(needed) ==
  LET all == needed + printed + 1
  IN IF printed >= size \/ needed > IntMax THEN 0
     ELSE IF all <= size THEN size
     ELSE IF all <= IntMax \div 2 THEN all * 2
     ELSE IF all <= IntMax THEN IntMax ELSE 0

\* The bytes before the first 0 from offset o on; all of them if there is none.
Strlen(bytes, o) == Len(CString(SubSeq(bytes, o + 1, Len(bytes))))

StartPrint ==
  /\ pc = "tree"
  /\ format' \in BOOLEAN
  /\ \/ /\ size' = DefaultSize
        /\ tasks' = <<Call("value", root, 0)>>
        /\ pc' = "print"
        /\ UNCHANGED fails
     \/ /\ Refused
        /\ pc' = "unprinted"
        /\ UNCHANGED <<size, tasks>>
  /\ buffer' = <<>>
  /\ printed' = 0
  /\ UNCHANGED <<items, strings, misused, text, offset, stack, root, target>>

\* print's fail frees the buffer, if ensure has not.
Unprinted == pc' = "unprinted" /\ size' = 0 /\ buffer' = <<>> /\ tasks' = <<>> /\ UNCHANGED printed

PrintCall ==
  /\ pc = "print"
  /\ tasks # <<>> /\ Head(tasks).do # "write"
  /\ tasks' = Steps(Head(tasks)) \o Tail(tasks)
  /\ UNCHANGED <<tree, parser, buffer, size, printed, format>>

\* ensure, a write and its effect on the offset.
PrintWrite ==
  LET w == Head(tasks)
      grown == Grown(w.needed)
      after == SubSeq(buffer, 1, printed) \o w.bytes
  IN
  /\ pc = "print"
  /\ tasks # <<>> /\ w.do = "write"
  /\ \/ /\ grown > 0
        /\ size' = grown
        /\ buffer' = after
        /\ printed' = printed + w.advance
                      + (IF w.update THEN Strlen(after, printed + w.advance) ELSE 0)
        /\ tasks' = Tail(tasks)
        /\ UNCHANGED <<fails, pc>>
     \/ /\ \/ grown = 0 /\ UNCHANGED fails
           \/ grown > size /\ Refused
        /\ Unprinted
  /\ UNCHANGED <<items, strings, misused, text, offset, stack, root, target, format>>

\* The reallocation to the final length.
PrintDone ==
  /\ pc = "print"
  /\ tasks = <<>>
  /\ \/ /\ pc' = "printed"
        /\ size' = printed + 1
        /\ UNCHANGED <<buffer, printed, tasks, fails>>
     \/ Refused /\ Unprinted
  /\ UNCHANGED <<items, strings, misused, text, offset, stack, root, target, format>>
=============================================================================
