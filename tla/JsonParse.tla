----------------------------- MODULE JsonParse -----------------------------
(***************************************************************************)
(* cJSON_Parse: the recursive descent of parse_value, parse_array and      *)
(* parse_object over a text and its terminating 0.  The C stack is stack,  *)
(* one frame for each open array or object, so the parser's depth is its   *)
(* length.  When a function fails, every frame deletes its own list and    *)
(* the caller of them all deletes the root.                                *)
(***************************************************************************)
EXTENDS JsonTree

CONSTANT NestingLimit

VARIABLES
  text,    \* the buffer's content, with its terminator
  offset,
  stack,   \* frames: kind, the item, its list's head, its current_item
  root,    \* the tree: parsed or built
  target,  \* the item whose name or value comes next
  pc

parser == <<text, offset, stack, root, target, pc>>

Peek == At(text, offset)
Closing == [k \in {LBracket, LBrace} |-> IF k = LBracket THEN RBracket ELSE RBrace]

\* The first offset from o on with a byte that is not white, or the length.
NotWhite(o) == Min({p \in o..Len(text) : p = Len(text) \/ At(text, p) > 32})

\* Mutant: no step back at the end of the buffer.
SkipPast(o) == IF o >= Len(text) THEN o ELSE NotWhite(o)
\* buffer_skip_whitespace, from offset o.
Skip(o) ==
  IF o >= Len(text) THEN o
  ELSE IF NotWhite(o) = Len(text) THEN NotWhite(o) - 1
  ELSE NotWhite(o)

\* skip_utf8_bom
Bom == IF Len(text) > 4 /\ Bytes(text, 0, 3) = <<239, 187, 191>> THEN 3 ELSE 0

\* Mutant: white space after a value is not skipped.
ValuedUnskipped(o, frames) ==
  /\ stack' = frames
  /\ offset' = o
  /\ pc' = IF frames = <<>> THEN "tree" ELSE "after"
\* A value ends at o: the caller is the array or object around it, if any.
Valued(o, frames) ==
  /\ stack' = frames
  /\ IF frames = <<>> THEN offset' = o /\ pc' = "tree" ELSE offset' = Skip(o) /\ pc' = "after"

Fail == pc' = "unwind" /\ UNCHANGED <<offset, stack, target>>

-----------------------------------------------------------------------------
ParseWithLengthOpts ==
  /\ pc = "parse"
  /\ \/ /\ items' = Append(items, New("invalid"))
        /\ root' = Len(items) + 1
        /\ target' = Len(items) + 1
        /\ offset' = Skip(Bom)
        /\ pc' = "value"
        /\ UNCHANGED fails
     \/ /\ Refused
        /\ root' = 0
        /\ pc' = "unwind"
        /\ UNCHANGED <<items, target, offset>>
  /\ UNCHANGED <<strings, misused, text, stack>>

Literal ==
  [null |-> <<110, 117, 108, 108>>, false |-> <<102, 97, 108, 115, 101>>, true |-> <<116, 114, 117, 101>>]

\* can_read and strncmp
Reads(type) == Bytes(text, offset, Len(Literal[type])) = Literal[type]

ParseLiteral ==
  /\ pc = "value"
  /\ \E type \in DOMAIN Literal :
       /\ Reads(type)
       /\ items' = [items EXCEPT ![target].type = type]
       /\ Valued(offset + Len(Literal[type]), stack)
  /\ UNCHANGED <<strings, fails, misused, text, root, target>>

ParseString ==
  LET s == ParsedString(text, offset) IN
  /\ pc = "value"
  /\ Peek = Quote
  /\ \/ /\ s.ok
        /\ items' = [items EXCEPT ![target].type = "string", ![target].valuestring = <<s.out>>]
        /\ strings' = strings + 1
        /\ Valued(s.after, stack)
        /\ UNCHANGED <<target, fails>>
     \/ /\ \/ ~s.ok /\ UNCHANGED fails
           \/ s.room > 0 /\ Refused
        /\ Fail
        /\ UNCHANGED <<items, strings>>
  /\ UNCHANGED <<misused, text, root>>

Digit == 48..57
Minus == 45

\* Where strtod stops, and the number it has read by then.
DigitsFrom(o) == Min({p \in o..Len(text) : At(text, p) \notin Digit}) - o
NumberStart == IF Peek = Minus THEN offset + 1 ELSE offset
NumberRead ==
  LET value[k \in 0..DigitsFrom(NumberStart)] ==
        IF k = 0 THEN 0 ELSE 10 * value[k - 1] + At(text, NumberStart + k - 1) - 48
      read == value[DigitsFrom(NumberStart)]
  IN IF Peek = Minus THEN -read ELSE read

ParseNumber ==
  /\ pc = "value"
  /\ Peek \in Digit \cup {Minus}
  /\ \/ /\ DigitsFrom(NumberStart) > 0
        /\ items' = [items EXCEPT ![target].type = "number", ![target].number = NumberRead]
        /\ Valued(NumberStart + DigitsFrom(NumberStart), stack)
        /\ UNCHANGED <<target, fails>>
     \/ /\ \/ DigitsFrom(NumberStart) = 0 /\ UNCHANGED fails
           \/ Refused
        /\ Fail
        /\ UNCHANGED items
  /\ UNCHANGED <<strings, misused, text, root>>

\* parse_array and parse_object up to the first element.
Open ==
  LET o == Skip(offset + 1) IN
  /\ pc = "value"
  /\ Peek \in DOMAIN Closing
  /\ \/ /\ Len(stack) < NestingLimit
        /\ At(text, o) = Closing[Peek]
        /\ items' = [items EXCEPT ![target].type = IF Peek = LBrace THEN "object" ELSE "array"]
        /\ Valued(o + 1, stack)
        /\ UNCHANGED target
     \/ /\ Len(stack) < NestingLimit
        /\ o < Len(text)
        /\ At(text, o) # Closing[Peek]
        /\ stack' = Append(stack, [kind |-> Peek, item |-> target, head |-> 0, cur |-> 0])
        /\ offset' = o - 1
        /\ pc' = "element"
        /\ UNCHANGED <<items, target>>
     \/ /\ Len(stack) >= NestingLimit \/ o >= Len(text)
        /\ Fail
        /\ UNCHANGED items
  /\ UNCHANGED <<strings, fails, misused, text, root>>

NoValue ==
  /\ pc = "value"
  /\ Peek \notin {Quote, Minus} \cup Digit \cup DOMAIN Closing
  /\ ~\E type \in DOMAIN Literal : Reads(type)
  /\ Fail
  /\ UNCHANGED <<tree, text, root>>

-----------------------------------------------------------------------------
\* The list of a frame with the new item n at its end.
Attached(list, frame, n) ==
  IF frame.head = 0 THEN list
  ELSE [list EXCEPT ![frame.cur].next = n, ![n].prev = frame.cur]

\* The head of the do loop of parse_array and parse_object.
Element ==
  LET frame == Last(stack)
      n == Len(items) + 1
      ends == frame.kind = LBrace /\ offset + 1 >= Len(text)
  IN
  /\ pc = "element"
  /\ \/ /\ items' = Attached(Append(items, New("invalid")), frame, n)
        /\ stack' = [stack EXCEPT ![Len(stack)].head = IF @ = 0 THEN n ELSE @, ![Len(stack)].cur = n]
        /\ target' = n
        /\ offset' = IF ends THEN offset ELSE Skip(offset + 1)
        /\ pc' = IF ends THEN "unwind" ELSE IF frame.kind = LBrace THEN "name" ELSE "value"
        /\ UNCHANGED fails
     \/ /\ Refused
        /\ Fail
        /\ UNCHANGED items
  /\ UNCHANGED <<strings, misused, text, root>>

\* The name of a member and its colon.
Name ==
  LET s == ParsedString(text, offset)
      o == Skip(s.after)
  IN
  /\ pc = "name"
  /\ \/ /\ s.ok
        /\ items' = [items EXCEPT ![target].type = "string", ![target].string = <<s.out>>]
        /\ strings' = strings + 1
        /\ offset' = IF At(text, o) = Colon THEN Skip(o + 1) ELSE o
        /\ pc' = IF At(text, o) = Colon THEN "value" ELSE "unwind"
        /\ UNCHANGED <<stack, target, fails>>
     \/ /\ \/ ~s.ok /\ UNCHANGED fails
           \/ s.room > 0 /\ Refused
        /\ Fail
        /\ UNCHANGED <<items, strings>>
  /\ UNCHANGED <<misused, text, root>>

\* The success of parse_array and parse_object.
Closed(list, frame) ==
  [list EXCEPT ![frame.head].prev = frame.cur,
               ![frame.item].type = IF frame.kind = LBrace THEN "object" ELSE "array",
               ![frame.item].child = frame.head]

AfterValue ==
  LET frame == Last(stack) IN
  /\ pc = "after"
  /\ \/ /\ Peek = Comma
        /\ pc' = "element"
        /\ UNCHANGED <<items, offset, stack, target>>
     \/ /\ Peek = Closing[frame.kind]
        /\ items' = Closed(items, frame)
        /\ Valued(offset + 1, Front(stack))
        /\ UNCHANGED target
     \/ /\ Peek \notin {Comma, Closing[frame.kind]}
        /\ Fail
        /\ UNCHANGED items
  /\ UNCHANGED <<strings, fails, misused, text, root>>

\* Each frame that fails deletes its list, and cJSON_ParseWithLengthOpts the root.
Unwind ==
  /\ pc = "unwind"
  /\ IF stack # <<>>
     THEN Delete(Last(stack).head) /\ stack' = Front(stack) /\ UNCHANGED <<root, pc>>
     ELSE Delete(root) /\ root' = 0 /\ pc' = "failed" /\ UNCHANGED stack
  /\ UNCHANGED <<fails, text, offset, target>>

Parse ==
  \/ ParseWithLengthOpts \/ ParseLiteral \/ ParseString \/ ParseNumber \/ Open \/ NoValue
  \/ Element \/ Name \/ AfterValue \/ Unwind
=============================================================================
