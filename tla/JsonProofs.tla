----------------------------- MODULE JsonProofs -----------------------------
(***************************************************************************)
(* Proofs about cJSON as polycomm uses it, for every set of texts and      *)
(* members, every nesting limit, every size of the print buffer and every  *)
(* number of refused allocations: the places the parser reads, the bytes   *)
(* it decodes, the room the printer has and the heap of items.             *)
(***************************************************************************)
EXTENDS JsonSafety, JsonTextProofs

-----------------------------------------------------------------------------
(***************************************************************************)
(* The types of the variables.                                             *)
(***************************************************************************)
Kinds == {"invalid", "string", "number", "array", "object", "null", "false", "true"}
Item ==
  [live : BOOLEAN, type : Kinds, string : Seq(Seq(Char)), valuestring : Seq(Seq(Char)),
   number : Int, next : Nat, prev : Nat, child : Nat]
Frame == [kind : {LBracket, LBrace}, item : Nat, head : Nat, cur : Nat]

Starting == {"create", "parse"}
Parsing == {"value", "element", "name", "after"}
Unwinding == {"unwind", "failed"}
Complete == {"tree", "print", "printed", "unprinted", "deleted"}

TypeOK ==
  /\ items \in Seq(Item) /\ fails \in Nat
  /\ text \in Seq(Char) /\ offset \in Nat
  /\ stack \in Seq(Frame) /\ root \in Nat /\ target \in Nat
  /\ pc \in Starting \cup Parsing \cup Unwinding \cup Complete

\* While a text is parsed, the parser stands before its terminator or on it.
TextOK ==
  /\ text # <<>> => text[Len(text)] = 0
  /\ pc \in Parsing \cup {"parse"} => text # <<>>
  /\ pc \in Parsing => offset < Len(text)
  /\ pc = "element" => offset + 1 < Len(text)

-----------------------------------------------------------------------------
(***************************************************************************)
(* Sequences and records that change in one place.                         *)
(***************************************************************************)
LEMMA SeqExcept ==
  ASSUME NEW S, NEW s \in Seq(S), NEW i \in 1..Len(s), NEW x \in S
  PROVE  /\ [s EXCEPT ![i] = x] \in Seq(S)
         /\ Len([s EXCEPT ![i] = x]) = Len(s)
         /\ [s EXCEPT ![i] = x][i] = x
         /\ \A j \in 1..Len(s) : j # i => [s EXCEPT ![i] = x][j] = s[j]
  OBVIOUS

LEMMA SeqAppend ==
  ASSUME NEW S, NEW s \in Seq(S), NEW x \in S
  PROVE  /\ Append(s, x) \in Seq(S)
         /\ Len(Append(s, x)) = Len(s) + 1
         /\ Append(s, x)[Len(s) + 1] = x
         /\ \A j \in 1..Len(s) : Append(s, x)[j] = s[j]
  OBVIOUS

LEMMA SeqFront ==
  ASSUME NEW S, NEW s \in Seq(S), s # <<>>
  PROVE  /\ Front(s) \in Seq(S) /\ Len(Front(s)) = Len(s) - 1
         /\ \A j \in 1..Len(s) - 1 : Front(s)[j] = s[j]
         /\ Last(s) = s[Len(s)] /\ Last(s) \in S
  <1>1. Len(s) \in Nat /\ Len(s) >= 1
    OBVIOUS
  <1>2. Front(s) = SubSeq(s, 1, Len(s) - 1)
    BY DEF Front
  <1> DEFINE n == Len(s) - 1
  <1>3. /\ SubSeq(s, 1, n) \in Seq(S)
        /\ Len(SubSeq(s, 1, n)) = n
        /\ \A j \in 1..n : SubSeq(s, 1, n)[j] = s[j]
    <2>1. n \in Nat /\ n <= Len(s)
      BY <1>1
    <2> HIDE DEF n
    <2>2. Len(SubSeq(s, 1, n)) = n /\ \A j \in 1..n : SubSeq(s, 1, n)[j] = s[j]
      BY <2>1
    <2>3. SubSeq(s, 1, n) \in Seq(S)
      BY <2>1
    <2> QED
      BY <2>2, <2>3
  <1>4. Last(s) = s[Len(s)] /\ Last(s) \in S
    BY <1>1 DEF Last
  <1> QED
    BY <1>2, <1>3, <1>4

LEMMA NewItem ==
  ASSUME NEW ty \in Kinds
  PROVE  /\ New(ty) \in Item
         /\ New(ty).live /\ New(ty).type = ty /\ New(ty).string = <<>> /\ New(ty).valuestring = <<>>
         /\ New(ty).next = 0 /\ New(ty).prev = 0 /\ New(ty).child = 0
  BY DEF New, Item

LEMMA TypeItem ==
  ASSUME NEW it \in Item, NEW ty \in Kinds
  PROVE  [it EXCEPT !.type = ty] \in Item
  BY DEF Item

LEMMA ValueItem ==
  ASSUME NEW it \in Item, NEW p \in Seq(Seq(Char))
  PROVE  [it EXCEPT !.type = "string", !.valuestring = p] \in Item
  BY DEF Item, Kinds

LEMMA NameItem ==
  ASSUME NEW it \in Item, NEW p \in Seq(Seq(Char))
  PROVE  [it EXCEPT !.type = "string", !.string = p] \in Item
  BY DEF Item, Kinds

LEMMA NumberItem ==
  ASSUME NEW it \in Item, NEW n \in Int
  PROVE  [it EXCEPT !.type = "number", !.number = n] \in Item
  BY DEF Item, Kinds

LEMMA NextItem ==
  ASSUME NEW it \in Item, NEW k \in Nat
  PROVE  [it EXCEPT !.next = k] \in Item
  BY DEF Item

LEMMA PrevItem ==
  ASSUME NEW it \in Item, NEW k \in Nat
  PROVE  [it EXCEPT !.prev = k] \in Item
  BY DEF Item

LEMMA ChildItem ==
  ASSUME NEW it \in Item, NEW k \in Nat
  PROVE  [it EXCEPT !.child = k] \in Item
  BY DEF Item

LEMMA OneString ==
  ASSUME NEW s \in Seq(Char)
  PROVE  <<s>> \in Seq(Seq(Char)) /\ <<s>> # <<>>
  OBVIOUS

-----------------------------------------------------------------------------
(***************************************************************************)
(* Where the parser stands.  A byte that is not 0 is not the last one.     *)
(***************************************************************************)
LEMMA NotLast ==
  ASSUME TypeOK, TextOK, text # <<>>, NEW o \in Nat, At(text, o) # 0, At(text, o) # Beyond
  PROVE  o + 1 < Len(text)
  <1>1. Len(text) \in Nat /\ Len(text) >= 1 /\ text[Len(text)] = 0
    BY DEF TypeOK, TextOK
  <1>2. o < Len(text) /\ At(text, o) = text[o + 1]
    BY <1>1 DEF At
  <1>3. o + 1 # Len(text)
    BY <1>1, <1>2
  <1> QED
    BY <1>1, <1>2, <1>3

LEMMA SkipIs ==
  ASSUME TypeOK, TextOK, text # <<>>, NEW o \in Nat, o < Len(text)
  PROVE  Skip(o) \in Nat /\ o <= Skip(o) /\ Skip(o) < Len(text)
  <1>1. text \in Seq(Char) /\ Len(text) \in Nat
    BY DEF TypeOK
  <1> DEFINE ends == {p \in o..Len(text) : p = Len(text) \/ At(text, p) > 32}
  <1>2. Len(text) \in ends /\ ends \in SUBSET Nat
    BY <1>1
  <1>3. Min(ends) \in ends
    <2> HIDE DEF ends
    <2> QED
      BY <1>2, MinIs
  <1>4. NotWhite(o) = Min(ends)
    BY DEF NotWhite
  <1>5. NotWhite(o) \in o..Len(text)
    BY <1>3, <1>4
  <1>6. ~(o >= Len(text))
    BY <1>1
  <1>7. Skip(o) = IF NotWhite(o) = Len(text) THEN NotWhite(o) - 1 ELSE NotWhite(o)
    BY <1>6 DEF Skip
  <1> QED
    BY <1>1, <1>5, <1>7

\* A place where the bytes of a literal end is not behind the terminator.
LEMMA ReadsIs ==
  ASSUME TypeOK, TextOK, text # <<>>, NEW type \in DOMAIN Literal, Reads(type)
  PROVE  offset + Len(Literal[type]) \in Nat /\ offset + Len(Literal[type]) < Len(text)
  <1>1. offset \in Nat /\ text \in Seq(Char) /\ Len(text) \in Nat /\ text[Len(text)] = 0
    BY DEF TypeOK, TextOK
  <1> DEFINE w == Literal[type]
  <1>2. /\ w \in Seq(Nat) /\ w # <<>> /\ Len(w) \in Nat /\ Len(w) >= 1
        /\ w[Len(w)] \in {108, 101}
    <2>1. type \in {"null", "false", "true"}
      BY DEF Literal
    <2>2. CASE type = "null"
      <3>1. w = <<110, 117, 108, 108>>
        BY <2>2 DEF Literal
      <3> HIDE DEF w
      <3> QED
        BY <3>1
    <2>3. CASE type = "false"
      <3>1. w = <<102, 97, 108, 115, 101>>
        BY <2>3 DEF Literal
      <3> HIDE DEF w
      <3> QED
        BY <3>1
    <2>4. CASE type = "true"
      <3>1. w = <<116, 114, 117, 101>>
        BY <2>4 DEF Literal
      <3> HIDE DEF w
      <3> QED
        BY <3>1
    <2> QED
      BY <2>1, <2>2, <2>3, <2>4
  <1>3. Bytes(text, offset, Len(w)) = w
    BY DEF Reads
  <1> HIDE DEF w
  <1>4. offset + Len(w) <= Len(text) /\ \A k \in 1..Len(w) : At(text, offset + k - 1) = w[k]
    BY <1>1, <1>2, <1>3, BytesAre
  <1> DEFINE n == Len(w)
  <1>5. n \in 1..n /\ At(text, offset + n - 1) = w[n] /\ offset + n - 1 = (offset + n) - 1
    BY <1>1, <1>2, <1>4
  <1>6. (offset + n) - 1 \in Nat /\ ((offset + n) - 1) + 1 = offset + n
    BY <1>1, <1>2
  <1> HIDE DEF n
  <1>7. w[n] # 0 /\ w[n] # Beyond
    BY <1>2 DEF Beyond, n
  <1>8. ((offset + n) - 1) + 1 < Len(text)
    BY <1>5, <1>6, <1>7, NotLast
  <1> QED
    BY <1>6, <1>8 DEF n, w

LEMMA NumberStartIs ==
  ASSUME TypeOK, TextOK, text # <<>>, offset < Len(text)
  PROVE  NumberStart \in Nat /\ NumberStart < Len(text)
  <1>1. offset \in Nat
    BY DEF TypeOK
  <1>2. CASE Peek = Minus
    <2>1. At(text, offset) = 45
      BY <1>2 DEF Peek, Minus
    <2>2. offset + 1 < Len(text)
      BY <1>1, <2>1, NotLast DEF Beyond
    <2> QED
      BY <1>1, <1>2, <2>2 DEF NumberStart
  <1>3. CASE Peek # Minus
    BY <1>1, <1>3 DEF NumberStart
  <1> QED
    BY <1>2, <1>3

LEMMA DigitsFromIs ==
  ASSUME TypeOK, TextOK, text # <<>>, NEW o \in Nat, o < Len(text)
  PROVE  DigitsFrom(o) \in Nat /\ o + DigitsFrom(o) \in Nat /\ o + DigitsFrom(o) < Len(text)
  <1>1. Len(text) \in Nat /\ Len(text) >= 1 /\ text[Len(text)] = 0
    BY DEF TypeOK, TextOK
  <1> DEFINE others == {p \in o..Len(text) : At(text, p) \notin Digit}
  <1>2. Len(text) - 1 \in others
    <2>1. At(text, Len(text) - 1) = 0
      BY <1>1 DEF At
    <2> QED
      BY <1>1, <2>1 DEF Digit
  <1>3. others \in SUBSET Nat
    BY <1>1
  <1>4. Min(others) \in others /\ Min(others) <= Len(text) - 1
    <2> HIDE DEF others
    <2> QED
      BY <1>2, <1>3, MinIs
  <1>5. Min(others) \in Nat /\ o <= Min(others)
    BY <1>1, <1>4
  <1>6. DigitsFrom(o) = Min(others) - o
    BY DEF DigitsFrom
  <1> HIDE DEF others
  <1> QED
    BY <1>1, <1>4, <1>5, <1>6

LEMMA NumberReadIs ==
  ASSUME TypeOK, TextOK, text # <<>>, offset < Len(text)
  PROVE  NumberRead \in Int
  <1> DEFINE n == DigitsFrom(NumberStart)
             d(k) == At(text, NumberStart + k - 1)
             step == [k \in 1..n |-> [x \in Int |-> 10 * x + d(k) - 48]]
             body(g) == [k \in 0..n |-> IF k = 0 THEN 0 ELSE 10 * g[k - 1] + d(k) - 48]
             value == CHOOSE g : g = body(g)
  <1>1. NumberStart \in Nat /\ n \in Nat
    BY NumberStartIs, DigitsFromIs
  <1>2. ASSUME NEW k \in 1..n PROVE d(k) \in Nat
    <2>1. NumberStart + k - 1 \in Nat /\ text \in Seq(Char)
      BY <1>1 DEF TypeOK
    <2> QED
      BY <2>1, AtRange
  <1> HIDE DEF n, d
  <1>3. step \in [1..n -> [Int -> Int]]
    BY <1>2
  <1>4. PICK f \in [0..n -> Int] : Iterates(f, 0, n, step)
    <2> HIDE DEF step
    <2>1. 0 \in Int
      OBVIOUS
    <2> QED
      BY <1>1, <1>3, <2>1, Iterate
  <1>5. f = body(f)
    <2>1. ASSUME NEW k \in 0..n
          PROVE  f[k] = IF k = 0 THEN 0 ELSE 10 * f[k - 1] + d(k) - 48
      <3>1. CASE k = 0
        BY <1>4, <3>1 DEF Iterates
      <3>2. CASE k # 0
        <4>1. k \in 1..n /\ k - 1 \in 0..n
          BY <1>1, <3>2
        <4>2. f[k - 1] \in Int /\ f[k] = step[k][f[k - 1]]
          BY <1>4, <4>1 DEF Iterates
        <4> QED
          BY <3>2, <4>1, <4>2
      <3> QED
        BY <3>1, <3>2
    <2> QED
      BY <1>4, <2>1
  <1>6. value = body(value)
    <2>1. \E g : g = body(g)
      BY <1>5
    <2> QED
      BY <2>1
  <1>7. NumberRead = IF Peek = Minus THEN -(value[n]) ELSE value[n]
    BY DEF NumberRead, n, d
  <1> HIDE DEF value
  <1> DEFINE T == {k \in 0..n : value[k] \in Int}
  <1>8. 0 \in T
    BY <1>1, <1>6
  <1>9. ASSUME NEW k \in 1..n, k - 1 \in T PROVE k \in T
    <2>1. k \in 0..n /\ value[k - 1] \in Int /\ value[k] = 10 * value[k - 1] + d(k) - 48
      BY <1>6, <1>9
    <2> QED
      BY <1>2, <2>1
  <1>10. \A k \in 0..n : k \in T
    <2> HIDE DEF T
    <2> QED
      BY <1>1, <1>8, <1>9, Induction
  <1>11. value[n] \in Int
    BY <1>1, <1>10
  <1> QED
    BY <1>7, <1>11

-----------------------------------------------------------------------------
(***************************************************************************)
(* What each operation makes of the items.                                 *)
(***************************************************************************)
Same(list, new, changed) ==
  /\ new \in Seq(Item) /\ Len(new) = Len(list)
  /\ \A j \in 1..Len(list) : j \notin changed => new[j] = list[j]

Put(list, t, it) == [list EXCEPT ![t] = it]

LEMMA PutIs ==
  ASSUME NEW list \in Seq(Item), NEW t \in 1..Len(list), NEW it \in Item
  PROVE  Same(list, Put(list, t, it), {t}) /\ Put(list, t, it)[t] = it
  BY DEF Same, Put

\* Item t, and no other, gets a type and strings.
Relabels(list, new, t) ==
  /\ new \in Seq(Item) /\ Len(new) = Len(list)
  /\ \A j \in 1..Len(list) :
       /\ new[j].live = list[j].live /\ new[j].next = list[j].next
       /\ new[j].prev = list[j].prev /\ new[j].child = list[j].child
       /\ j # t => /\ new[j].type = list[j].type /\ new[j].string = list[j].string
                   /\ new[j].valuestring = list[j].valuestring

LEMMA RelabelsIs ==
  ASSUME NEW list \in Seq(Item), NEW t \in 1..Len(list), NEW x, x = list[t], NEW it \in Item,
         it.live = x.live, it.next = x.next, it.prev = x.prev, it.child = x.child,
         NEW new, new = Put(list, t, it)
  PROVE  Relabels(list, new, t) /\ new[t] = it
  <1>1. Same(list, new, {t}) /\ new[t] = it
    BY PutIs
  <1> QED
    BY <1>1 DEF Same, Relabels

Typed(list, t, ty) == [list EXCEPT ![t].type = ty]

LEMMA TypedIs ==
  ASSUME NEW list \in Seq(Item), NEW t \in 1..Len(list), NEW ty \in Kinds,
         NEW new, new = Typed(list, t, ty)
  PROVE  /\ Relabels(list, new, t)
         /\ new[t].type = ty /\ new[t].string = list[t].string
         /\ new[t].valuestring = list[t].valuestring
  <1> DEFINE x == list[t]
             it == [x EXCEPT !.type = ty]
  <1>1. x \in Item
    OBVIOUS
  <1>2. new = Put(list, t, it)
    BY DEF Put, Typed
  <1> HIDE DEF x
  <1>3. it \in Item
    BY <1>1, TypeItem
  <1>4. it.live = x.live /\ it.next = x.next /\ it.prev = x.prev /\ it.child = x.child
    BY <1>1 DEF Item
  <1>5. it.type = ty /\ it.string = x.string /\ it.valuestring = x.valuestring
    BY <1>1 DEF Item
  <1> HIDE DEF it
  <1>6. x = list[t]
    BY DEF x
  <1>7. Relabels(list, new, t) /\ new[t] = it
    BY <1>2, <1>3, <1>4, <1>6, RelabelsIs
  <1> QED
    BY <1>5, <1>6, <1>7

Texted(list, t, s) == [list EXCEPT ![t].type = "string", ![t].valuestring = <<s>>]

LEMMA TextedIs ==
  ASSUME NEW list \in Seq(Item), NEW t \in 1..Len(list), NEW s \in Seq(Char),
         NEW new, new = Texted(list, t, s)
  PROVE  /\ Relabels(list, new, t)
         /\ new[t].type = "string" /\ new[t].string = list[t].string
         /\ new[t].valuestring = <<s>>
  <1> DEFINE x == list[t]
             it == [x EXCEPT !.type = "string", !.valuestring = <<s>>]
  <1>1. x \in Item /\ <<s>> \in Seq(Seq(Char))
    OBVIOUS
  <1>2. new = Put(list, t, it)
    BY DEF Put, Texted
  <1> HIDE DEF x
  <1>3. it \in Item
    BY <1>1, ValueItem
  <1>4. it.live = x.live /\ it.next = x.next /\ it.prev = x.prev /\ it.child = x.child
    BY <1>1 DEF Item
  <1>5. it.type = "string" /\ it.string = x.string /\ it.valuestring = <<s>>
    BY <1>1 DEF Item
  <1> HIDE DEF it
  <1>6. x = list[t]
    BY DEF x
  <1>7. Relabels(list, new, t) /\ new[t] = it
    BY <1>2, <1>3, <1>4, <1>6, RelabelsIs
  <1> QED
    BY <1>5, <1>6, <1>7

Numbered(list, t, n) == [list EXCEPT ![t].type = "number", ![t].number = n]

LEMMA NumberedIs ==
  ASSUME NEW list \in Seq(Item), NEW t \in 1..Len(list), NEW n \in Int,
         NEW new, new = Numbered(list, t, n)
  PROVE  /\ Relabels(list, new, t)
         /\ new[t].type = "number" /\ new[t].string = list[t].string
         /\ new[t].valuestring = list[t].valuestring
  <1> DEFINE x == list[t]
             it == [x EXCEPT !.type = "number", !.number = n]
  <1>1. x \in Item
    OBVIOUS
  <1>2. new = Put(list, t, it)
    BY DEF Put, Numbered
  <1> HIDE DEF x
  <1>3. it \in Item
    BY <1>1, NumberItem
  <1>4. it.live = x.live /\ it.next = x.next /\ it.prev = x.prev /\ it.child = x.child
    BY <1>1 DEF Item
  <1>5. it.type = "number" /\ it.string = x.string /\ it.valuestring = x.valuestring
    BY <1>1 DEF Item
  <1> HIDE DEF it
  <1>6. x = list[t]
    BY DEF x
  <1>7. Relabels(list, new, t) /\ new[t] = it
    BY <1>2, <1>3, <1>4, <1>6, RelabelsIs
  <1> QED
    BY <1>5, <1>6, <1>7

Named(list, t, s) == [list EXCEPT ![t].type = "string", ![t].string = <<s>>]

LEMMA NamedIs ==
  ASSUME NEW list \in Seq(Item), NEW t \in 1..Len(list), NEW s \in Seq(Char),
         NEW new, new = Named(list, t, s)
  PROVE  /\ Relabels(list, new, t)
         /\ new[t].type = "string" /\ new[t].string = <<s>>
         /\ new[t].valuestring = list[t].valuestring
  <1> DEFINE x == list[t]
             it == [x EXCEPT !.type = "string", !.string = <<s>>]
  <1>1. x \in Item /\ <<s>> \in Seq(Seq(Char))
    OBVIOUS
  <1>2. new = Put(list, t, it)
    BY DEF Put, Named
  <1> HIDE DEF x
  <1>3. it \in Item
    BY <1>1, NameItem
  <1>4. it.live = x.live /\ it.next = x.next /\ it.prev = x.prev /\ it.child = x.child
    BY <1>1 DEF Item
  <1>5. it.type = "string" /\ it.string = <<s>> /\ it.valuestring = x.valuestring
    BY <1>1 DEF Item
  <1> HIDE DEF it
  <1>6. x = list[t]
    BY DEF x
  <1>7. Relabels(list, new, t) /\ new[t] = it
    BY <1>2, <1>3, <1>4, <1>6, RelabelsIs
  <1> QED
    BY <1>5, <1>6, <1>7

\* A new item at the end of a frame's list, or as its head.
LEMMA AttachedIs ==
  ASSUME NEW list \in Seq(Item), NEW n, n = Len(list) + 1,
         NEW frame \in Frame, frame.head # 0 => frame.cur \in 1..Len(list),
         NEW new, new = Attached(Append(list, New("invalid")), frame, n)
  PROVE  /\ new \in Seq(Item) /\ Len(new) = n
         /\ new[n] = [New("invalid") EXCEPT !.prev = IF frame.head = 0 THEN 0 ELSE frame.cur]
         /\ \A j \in 1..Len(list) :
              new[j] = IF frame.head # 0 /\ j = frame.cur THEN [list[j] EXCEPT !.next = n] ELSE list[j]
  <1> DEFINE it == New("invalid")
             long == Append(list, it)
  <1>1. it \in Item /\ it.prev = 0
    <2>1. "invalid" \in Kinds
      BY DEF Kinds
    <2> QED
      BY <2>1, NewItem
  <1>2. /\ long \in Seq(Item) /\ Len(long) = n /\ long[n] = it /\ n \in 1..n
        /\ \A j \in 1..Len(list) : long[j] = list[j] /\ j # n /\ j \in 1..n
    BY <1>1
  <1> HIDE DEF it, long
  <1>3. CASE frame.head = 0
    <2>1. new = long
      BY <1>3 DEF Attached, long, it
    <2>2. [it EXCEPT !.prev = 0] = it
      BY <1>1 DEF Item
    <2> QED
      BY <1>2, <1>3, <2>1, <2>2 DEF it
  <1>4. CASE frame.head # 0
    <2> DEFINE c == frame.cur
               one == [list[c] EXCEPT !.next = n]
               two == [it EXCEPT !.prev = c]
               mid == [long EXCEPT ![c] = one]
    <2>1. c \in 1..Len(list) /\ c \in Nat /\ n \in Nat /\ c # n /\ c \in 1..n
      BY <1>2, <1>4
    <2>2. new = [[long EXCEPT ![c] = [long[c] EXCEPT !.next = n]]
                   EXCEPT ![n] = [[long EXCEPT ![c] = [long[c] EXCEPT !.next = n]][n] EXCEPT !.prev = c]]
      BY <1>4 DEF Attached, long, it
    <2>3. one \in Item /\ two \in Item
      <3>1. list[c] \in Item
        BY <2>1
      <3> HIDE DEF c
      <3> QED
        BY <1>1, <2>1, <3>1 DEF Item
    <2>4. [long[c] EXCEPT !.next = n] = one
      BY <1>2, <2>1
    <2> HIDE DEF one, c
    <2>5. /\ mid \in Seq(Item) /\ Len(mid) = n /\ mid[c] = one
          /\ \A j \in 1..n : j # c => mid[j] = long[j]
      BY <1>2, <2>1, <2>3, SeqExcept
    <2>6. mid[n] = it
      BY <1>2, <2>1, <2>5
    <2>7. new = [mid EXCEPT ![n] = two]
      BY <2>2, <2>4, <2>6
    <2> HIDE DEF mid, two
    <2>8. /\ new \in Seq(Item) /\ Len(new) = n /\ new[n] = two
          /\ \A j \in 1..n : j # n => new[j] = mid[j]
      <3>1. n \in 1..Len(mid) /\ Len(mid) = n
        BY <1>2, <2>5
      <3>2. Same(mid, Put(mid, n, two), {n}) /\ Put(mid, n, two)[n] = two
        BY <2>3, <2>5, <3>1, PutIs
      <3>3. new = Put(mid, n, two)
        BY <2>7 DEF Put
      <3> QED
        BY <3>1, <3>2, <3>3 DEF Same
    <2>9. \A j \in 1..Len(list) : new[j] = IF j = c THEN one ELSE list[j]
      BY <1>2, <2>5, <2>8
    <2> QED
      BY <1>4, <2>8, <2>9 DEF it, one, two, c
  <1> QED
    BY <1>3, <1>4

\* The success of parse_array and parse_object.
LEMMA ClosedIs ==
  ASSUME NEW list \in Seq(Item), NEW frame \in Frame, frame.head \in 1..Len(list),
         frame.item \in 1..Len(list), frame.head # frame.item, NEW new, new = Closed(list, frame)
  PROVE  /\ Same(list, new, {frame.head, frame.item})
         /\ new[frame.head] = [list[frame.head] EXCEPT !.prev = frame.cur]
         /\ new[frame.item] =
              [list[frame.item] EXCEPT !.type = IF frame.kind = LBrace THEN "object" ELSE "array",
                                       !.child = frame.head]
  <1> DEFINE h == frame.head
             i == frame.item
             ty == IF frame.kind = LBrace THEN "object" ELSE "array"
             one == [list[h] EXCEPT !.prev = frame.cur]
             two == [list[i] EXCEPT !.type = ty, !.child = h]
             mid == [list EXCEPT ![h] = one]
  <1>1. ty \in Kinds /\ frame.cur \in Nat /\ h \in Nat
    <2>1. frame.cur \in Nat /\ frame.head \in Nat
      BY DEF Frame
    <2>2. ty \in Kinds
      BY DEF Kinds
    <2> QED
      BY <2>1, <2>2
  <1>2. h \in 1..Len(list) /\ i \in 1..Len(list) /\ h # i /\ list[h] \in Item /\ list[i] \in Item
    OBVIOUS
  <1>3. one \in Item /\ two \in Item
    <2> HIDE DEF h, i, ty
    <2> QED
      BY <1>1, <1>2 DEF Item
  <1>4. new = [[mid EXCEPT ![i] = [mid[i] EXCEPT !.type = ty]]
                 EXCEPT ![i] = [[mid EXCEPT ![i] = [mid[i] EXCEPT !.type = ty]][i] EXCEPT !.child = h]]
    BY DEF Closed
  <1> HIDE DEF h, i, ty, one
  <1>5. /\ mid \in Seq(Item) /\ Len(mid) = Len(list) /\ mid[h] = one
        /\ \A j \in 1..Len(list) : j # h => mid[j] = list[j]
    BY <1>2, <1>3, SeqExcept
  <1>6. mid[i] = list[i]
    BY <1>2, <1>5
  <1> HIDE DEF mid
  <1>7. i \in 1..Len(mid) /\ i \in DOMAIN mid
    BY <1>2, <1>5
  <1>8. new = [mid EXCEPT ![i] = two]
    BY <1>4, <1>6, <1>7
  <1> HIDE DEF two
  <1>9. /\ new \in Seq(Item) /\ Len(new) = Len(list) /\ new[i] = two
        /\ \A j \in 1..Len(list) : j # i => new[j] = mid[j]
    BY <1>2, <1>3, <1>5, <1>8, SeqExcept
  <1>10. new[h] = one
    BY <1>2, <1>5, <1>9
  <1>11. \A j \in 1..Len(list) : j \notin {h, i} => new[j] = list[j]
    BY <1>5, <1>9
  <1> QED
    BY <1>9, <1>10, <1>11 DEF Same, h, i, one, two, ty

LEMMA AttachedFields ==
  ASSUME NEW list \in Seq(Item), NEW n, n = Len(list) + 1,
         NEW frame \in Frame, frame.head # 0 => frame.cur \in 1..Len(list),
         NEW new, new = Attached(Append(list, New("invalid")), frame, n)
  PROVE  /\ new \in Seq(Item) /\ Len(new) = n
         /\ new[n].live /\ new[n].type = "invalid" /\ new[n].string = <<>> /\ new[n].valuestring = <<>>
         /\ new[n].next = 0 /\ new[n].child = 0
         /\ new[n].prev = IF frame.head = 0 THEN 0 ELSE frame.cur
         /\ \A j \in 1..Len(list) :
              /\ new[j].live = list[j].live /\ new[j].type = list[j].type
              /\ new[j].string = list[j].string /\ new[j].valuestring = list[j].valuestring
              /\ new[j].number = list[j].number /\ new[j].prev = list[j].prev
              /\ new[j].child = list[j].child
              /\ new[j].next = IF frame.head # 0 /\ j = frame.cur THEN n ELSE list[j].next
  <1> DEFINE it == New("invalid")
             p == IF frame.head = 0 THEN 0 ELSE frame.cur
  <1>1. /\ new \in Seq(Item) /\ Len(new) = n
        /\ new[n] = [it EXCEPT !.prev = p]
        /\ \A j \in 1..Len(list) :
             new[j] = IF frame.head # 0 /\ j = frame.cur THEN [list[j] EXCEPT !.next = n] ELSE list[j]
    BY AttachedIs, SMTT(30)
  <1>2. /\ it \in Item /\ it.live /\ it.type = "invalid" /\ it.string = <<>> /\ it.valuestring = <<>>
        /\ it.next = 0 /\ it.child = 0
    <2>1. "invalid" \in Kinds
      BY DEF Kinds
    <2> QED
      BY <2>1, NewItem
  <1> HIDE DEF it, p
  <1>3. /\ new[n].live = it.live /\ new[n].type = it.type /\ new[n].string = it.string
        /\ new[n].valuestring = it.valuestring /\ new[n].next = it.next /\ new[n].child = it.child
        /\ new[n].prev = p
    <2>1. ASSUME NEW x \in Item, NEW y, y = [x EXCEPT !.prev = p]
          PROVE  /\ y.live = x.live /\ y.type = x.type /\ y.string = x.string
                 /\ y.valuestring = x.valuestring /\ y.next = x.next /\ y.child = x.child /\ y.prev = p
      BY <2>1 DEF Item
    <2> QED
      BY <1>1, <1>2, <2>1
  <1>4. ASSUME NEW x \in Item, NEW y, y = [x EXCEPT !.next = n]
        PROVE  /\ y.live = x.live /\ y.type = x.type /\ y.string = x.string
               /\ y.valuestring = x.valuestring /\ y.number = x.number /\ y.prev = x.prev
               /\ y.child = x.child /\ y.next = n
    BY <1>4 DEF Item
  <1>5. ASSUME NEW j \in 1..Len(list)
        PROVE  /\ new[j].live = list[j].live /\ new[j].type = list[j].type
               /\ new[j].string = list[j].string /\ new[j].valuestring = list[j].valuestring
               /\ new[j].number = list[j].number /\ new[j].prev = list[j].prev
               /\ new[j].child = list[j].child
               /\ new[j].next = IF frame.head # 0 /\ j = frame.cur THEN n ELSE list[j].next
    <2>1. list[j] \in Item
      OBVIOUS
    <2>2. CASE frame.head # 0 /\ j = frame.cur
      <3>1. new[j] = [list[j] EXCEPT !.next = n]
        BY <1>1, <2>2
      <3> QED
        BY <1>4, <2>1, <2>2, <3>1
    <2>3. CASE ~(frame.head # 0 /\ j = frame.cur)
      <3>1. new[j] = list[j]
        BY <1>1, <2>3
      <3> QED
        BY <2>3, <3>1
    <2> QED
      BY <2>2, <2>3
  <1> QED
    BY <1>1, <1>2, <1>3, <1>5 DEF p

LEMMA ClosedFields ==
  ASSUME NEW list \in Seq(Item), NEW frame \in Frame, frame.head \in 1..Len(list),
         frame.item \in 1..Len(list), frame.head # frame.item, NEW new, new = Closed(list, frame)
  PROVE  /\ new \in Seq(Item) /\ Len(new) = Len(list)
         /\ \A j \in 1..Len(list) :
              /\ new[j].live = list[j].live /\ new[j].string = list[j].string
              /\ new[j].valuestring = list[j].valuestring
              /\ new[j].number = list[j].number /\ new[j].next = list[j].next
              /\ new[j].prev = IF j = frame.head THEN frame.cur ELSE list[j].prev
              /\ new[j].child = IF j = frame.item THEN frame.head ELSE list[j].child
              /\ new[j].type = IF j = frame.item
                               THEN IF frame.kind = LBrace THEN "object" ELSE "array"
                               ELSE list[j].type
  <1> DEFINE h == frame.head
             i == frame.item
             c == frame.cur
             ty == IF frame.kind = LBrace THEN "object" ELSE "array"
  <1>1. /\ Same(list, new, {h, i})
        /\ new[h] = [list[h] EXCEPT !.prev = c]
        /\ new[i] = [list[i] EXCEPT !.type = ty, !.child = h]
    BY ClosedIs, ZenonT(60)
  <1>2. h \in 1..Len(list) /\ i \in 1..Len(list) /\ h # i
    OBVIOUS
  <1> HIDE DEF h, i, c, ty
  <1>3. ASSUME NEW x \in Item, NEW y, y = [x EXCEPT !.prev = c]
        PROVE  /\ y.live = x.live /\ y.type = x.type /\ y.string = x.string
               /\ y.valuestring = x.valuestring /\ y.number = x.number /\ y.prev = c
               /\ y.child = x.child /\ y.next = x.next
    BY <1>3 DEF Item
  <1>4. ASSUME NEW x \in Item, NEW y, y = [x EXCEPT !.type = ty, !.child = h]
        PROVE  /\ y.live = x.live /\ y.type = ty /\ y.string = x.string
               /\ y.valuestring = x.valuestring /\ y.number = x.number /\ y.prev = x.prev
               /\ y.child = h /\ y.next = x.next
    BY <1>4 DEF Item
  <1>5. ASSUME NEW j \in 1..Len(list)
        PROVE  /\ new[j].live = list[j].live /\ new[j].string = list[j].string
               /\ new[j].valuestring = list[j].valuestring
               /\ new[j].number = list[j].number /\ new[j].next = list[j].next
               /\ new[j].prev = IF j = h THEN c ELSE list[j].prev
               /\ new[j].child = IF j = i THEN h ELSE list[j].child
               /\ new[j].type = IF j = i THEN ty ELSE list[j].type
    <2>1. list[j] \in Item
      OBVIOUS
    <2>2. CASE j = h
      <3>1. new[j] = [list[j] EXCEPT !.prev = c]
        BY <1>1, <2>2
      <3> QED
        BY <1>2, <1>3, <2>1, <2>2, <3>1
    <2>3. CASE j = i
      <3>1. new[j] = [list[j] EXCEPT !.type = ty, !.child = h]
        BY <1>1, <2>3
      <3> QED
        BY <1>2, <1>4, <2>1, <2>3, <3>1, ZenonT(60)
    <2>4. CASE j # h /\ j # i
      <3>1. new[j] = list[j]
        BY <1>1, <2>4 DEF Same
      <3> QED
        BY <2>4, <3>1
    <2> QED
      BY <2>2, <2>3, <2>4
  <1> QED
    BY <1>1, <1>5 DEF Same, h, i, c, ty

\* cJSON_Delete touches nothing but what it frees.
Freed(list, dead) ==
  [k \in DOMAIN list |-> IF k \in dead THEN [list[k] EXCEPT !.live = FALSE] ELSE list[k]]

LEMMA FreedIs ==
  ASSUME NEW list \in Seq(Item), NEW dead, NEW new, new = Freed(list, dead)
  PROVE  /\ new \in Seq(Item) /\ Len(new) = Len(list)
         /\ \A j \in 1..Len(list) :
              /\ new[j].live = (list[j].live /\ j \notin dead)
              /\ new[j].type = list[j].type /\ new[j].string = list[j].string
              /\ new[j].valuestring = list[j].valuestring /\ new[j].number = list[j].number
              /\ new[j].next = list[j].next /\ new[j].prev = list[j].prev
              /\ new[j].child = list[j].child
  <1> DEFINE it(k) == IF k \in dead THEN [list[k] EXCEPT !.live = FALSE] ELSE list[k]
  <1>1. new = [k \in 1..Len(list) |-> it(k)]
    BY DEF Freed
  <1>2. ASSUME NEW k \in 1..Len(list)
        PROVE  /\ it(k) \in Item
               /\ it(k).live = (list[k].live /\ k \notin dead)
               /\ it(k).type = list[k].type /\ it(k).string = list[k].string
               /\ it(k).valuestring = list[k].valuestring /\ it(k).number = list[k].number
               /\ it(k).next = list[k].next /\ it(k).prev = list[k].prev
               /\ it(k).child = list[k].child
    <2> DEFINE x == list[k]
    <2>1. x \in Item
      OBVIOUS
    <2>2. it(k) = IF k \in dead THEN [x EXCEPT !.live = FALSE] ELSE x
      OBVIOUS
    <2> HIDE DEF x, it
    <2>3. ASSUME NEW y, y = [x EXCEPT !.live = FALSE]
          PROVE  /\ y \in Item /\ y.live = FALSE /\ y.type = x.type /\ y.string = x.string
                 /\ y.valuestring = x.valuestring /\ y.number = x.number /\ y.prev = x.prev
                 /\ y.child = x.child /\ y.next = x.next
      BY <2>1, <2>3 DEF Item
    <2>4. CASE k \in dead
      BY <2>1, <2>2, <2>3, <2>4 DEF x
    <2>5. CASE k \notin dead
      <3>1. it(k) = x /\ x.live \in BOOLEAN
        BY <2>1, <2>2, <2>5 DEF Item
      <3> QED
        BY <2>1, <2>5, <3>1 DEF x
    <2> QED
      BY <2>4, <2>5
  <1> HIDE DEF it
  <1>3. new \in Seq(Item) /\ Len(new) = Len(list)
    BY <1>1, <1>2
  <1>4. \A j \in 1..Len(list) : new[j] = it(j)
    BY <1>1
  <1> QED
    BY <1>2, <1>3, <1>4

PutNext(list, t, k) == [list EXCEPT ![t].next = k]

LEMMA PutNextIs ==
  ASSUME NEW list \in Seq(Item), NEW t \in 1..Len(list), NEW k \in Nat,
         NEW new, new = PutNext(list, t, k)
  PROVE  /\ new \in Seq(Item) /\ Len(new) = Len(list)
         /\ \A j \in 1..Len(list) :
              /\ new[j].live = list[j].live /\ new[j].type = list[j].type /\ new[j].string = list[j].string /\ new[j].valuestring = list[j].valuestring
              /\ new[j].number = list[j].number /\ new[j].prev = list[j].prev /\ new[j].child = list[j].child
              /\ new[j].next = IF j = t THEN k ELSE list[j].next
  <1> DEFINE x == list[t]
             it == [x EXCEPT !.next = k]
  <1>1. x \in Item
    OBVIOUS
  <1>2. new = Put(list, t, it)
    BY DEF Put, PutNext
  <1> HIDE DEF x
  <1>3. it \in Item
    BY <1>1, NextItem
  <1>4. /\ it.live = x.live /\ it.type = x.type /\ it.string = x.string /\ it.valuestring = x.valuestring
        /\ it.number = x.number /\ it.prev = x.prev /\ it.child = x.child
        /\ it.next = k
    BY <1>1 DEF Item
  <1> HIDE DEF it
  <1>5. Same(list, Put(list, t, it), {t}) /\ Put(list, t, it)[t] = it
    BY <1>3, PutIs
  <1>6. Same(list, new, {t}) /\ new[t] = it
    BY <1>2, <1>5
  <1>7. ASSUME NEW j \in 1..Len(list)
        PROVE  /\ new[j].live = list[j].live /\ new[j].type = list[j].type /\ new[j].string = list[j].string /\ new[j].valuestring = list[j].valuestring
              /\ new[j].number = list[j].number /\ new[j].prev = list[j].prev /\ new[j].child = list[j].child
               /\ new[j].next = IF j = t THEN k ELSE list[j].next
    <2>1. CASE j = t
      BY <1>4, <1>6, <2>1 DEF x
    <2>2. CASE j # t
      <3>1. new[j] = list[j]
        BY <1>6, <2>2 DEF Same
      <3> QED
        BY <2>2, <3>1
    <2> QED
      BY <2>1, <2>2
  <1> QED
    BY <1>6, <1>7 DEF Same

PutPrev(list, t, k) == [list EXCEPT ![t].prev = k]

LEMMA PutPrevIs ==
  ASSUME NEW list \in Seq(Item), NEW t \in 1..Len(list), NEW k \in Nat,
         NEW new, new = PutPrev(list, t, k)
  PROVE  /\ new \in Seq(Item) /\ Len(new) = Len(list)
         /\ \A j \in 1..Len(list) :
              /\ new[j].live = list[j].live /\ new[j].type = list[j].type /\ new[j].string = list[j].string /\ new[j].valuestring = list[j].valuestring
              /\ new[j].number = list[j].number /\ new[j].next = list[j].next /\ new[j].child = list[j].child
              /\ new[j].prev = IF j = t THEN k ELSE list[j].prev
  <1> DEFINE x == list[t]
             it == [x EXCEPT !.prev = k]
  <1>1. x \in Item
    OBVIOUS
  <1>2. new = Put(list, t, it)
    BY DEF Put, PutPrev
  <1> HIDE DEF x
  <1>3. it \in Item
    BY <1>1, PrevItem
  <1>4. /\ it.live = x.live /\ it.type = x.type /\ it.string = x.string /\ it.valuestring = x.valuestring
        /\ it.number = x.number /\ it.next = x.next /\ it.child = x.child
        /\ it.prev = k
    BY <1>1 DEF Item
  <1> HIDE DEF it
  <1>5. Same(list, Put(list, t, it), {t}) /\ Put(list, t, it)[t] = it
    BY <1>3, PutIs
  <1>6. Same(list, new, {t}) /\ new[t] = it
    BY <1>2, <1>5
  <1>7. ASSUME NEW j \in 1..Len(list)
        PROVE  /\ new[j].live = list[j].live /\ new[j].type = list[j].type /\ new[j].string = list[j].string /\ new[j].valuestring = list[j].valuestring
              /\ new[j].number = list[j].number /\ new[j].next = list[j].next /\ new[j].child = list[j].child
               /\ new[j].prev = IF j = t THEN k ELSE list[j].prev
    <2>1. CASE j = t
      BY <1>4, <1>6, <2>1 DEF x
    <2>2. CASE j # t
      <3>1. new[j] = list[j]
        BY <1>6, <2>2 DEF Same
      <3> QED
        BY <2>2, <3>1
    <2> QED
      BY <2>1, <2>2
  <1> QED
    BY <1>6, <1>7 DEF Same

PutChild(list, t, k) == [list EXCEPT ![t].child = k]

LEMMA PutChildIs ==
  ASSUME NEW list \in Seq(Item), NEW t \in 1..Len(list), NEW k \in Nat,
         NEW new, new = PutChild(list, t, k)
  PROVE  /\ new \in Seq(Item) /\ Len(new) = Len(list)
         /\ \A j \in 1..Len(list) :
              /\ new[j].live = list[j].live /\ new[j].type = list[j].type /\ new[j].string = list[j].string /\ new[j].valuestring = list[j].valuestring
              /\ new[j].number = list[j].number /\ new[j].next = list[j].next /\ new[j].prev = list[j].prev
              /\ new[j].child = IF j = t THEN k ELSE list[j].child
  <1> DEFINE x == list[t]
             it == [x EXCEPT !.child = k]
  <1>1. x \in Item
    OBVIOUS
  <1>2. new = Put(list, t, it)
    BY DEF Put, PutChild
  <1> HIDE DEF x
  <1>3. it \in Item
    BY <1>1, ChildItem
  <1>4. /\ it.live = x.live /\ it.type = x.type /\ it.string = x.string /\ it.valuestring = x.valuestring
        /\ it.number = x.number /\ it.next = x.next /\ it.prev = x.prev
        /\ it.child = k
    BY <1>1 DEF Item
  <1> HIDE DEF it
  <1>5. Same(list, Put(list, t, it), {t}) /\ Put(list, t, it)[t] = it
    BY <1>3, PutIs
  <1>6. Same(list, new, {t}) /\ new[t] = it
    BY <1>2, <1>5
  <1>7. ASSUME NEW j \in 1..Len(list)
        PROVE  /\ new[j].live = list[j].live /\ new[j].type = list[j].type /\ new[j].string = list[j].string /\ new[j].valuestring = list[j].valuestring
              /\ new[j].number = list[j].number /\ new[j].next = list[j].next /\ new[j].prev = list[j].prev
               /\ new[j].child = IF j = t THEN k ELSE list[j].child
    <2>1. CASE j = t
      BY <1>4, <1>6, <2>1 DEF x
    <2>2. CASE j # t
      <3>1. new[j] = list[j]
        BY <1>6, <2>2 DEF Same
      <3> QED
        BY <2>2, <3>1
    <2> QED
      BY <2>1, <2>2
  <1> QED
    BY <1>6, <1>7 DEF Same

\* add_item_to_array.
LEMMA LinkedIs ==
  ASSUME NEW list \in Seq(Item), NEW n, n = Len(list), NEW object \in 1..n - 1,
         NEW head, head = list[object].child, head < n,
         NEW last, head # 0 => last = list[head].prev, last \in Nat, last < n,
         NEW new, new = Linked(list, object, n)
  PROVE  /\ new \in Seq(Item) /\ Len(new) = n
         /\ \A j \in 1..n :
              /\ new[j].live = list[j].live /\ new[j].type = list[j].type
              /\ new[j].string = list[j].string /\ new[j].valuestring = list[j].valuestring
              /\ new[j].number = list[j].number
              /\ new[j].child = IF head = 0 /\ j = object THEN n ELSE list[j].child
              /\ new[j].next = IF head # 0 /\ last # 0 /\ j = last THEN n ELSE list[j].next
              /\ new[j].prev = IF head = 0 THEN IF j = n THEN n ELSE list[j].prev
                               ELSE IF last = 0 THEN list[j].prev
                               ELSE IF j = head THEN n ELSE IF j = n THEN last ELSE list[j].prev
  <1>1. n \in Nat /\ n \in 1..n /\ object \in 1..n /\ list[object] \in Item
    OBVIOUS
  <1>2. head \in Nat
    BY <1>1 DEF Item
  <1>3. CASE head = 0
    <2> DEFINE one == PutChild(list, object, n)
    <2>1. new = PutPrev(one, n, n)
      BY <1>3 DEF Linked, PutChild, PutPrev
    <2>2. /\ one \in Seq(Item) /\ Len(one) = n
          /\ \A j \in 1..n :
               /\ one[j].live = list[j].live /\ one[j].type = list[j].type
               /\ one[j].string = list[j].string /\ one[j].valuestring = list[j].valuestring
               /\ one[j].number = list[j].number /\ one[j].next = list[j].next
               /\ one[j].prev = list[j].prev
               /\ one[j].child = IF j = object THEN n ELSE list[j].child
      BY <1>1, PutChildIs
    <2> HIDE DEF one
    <2>3. /\ new \in Seq(Item) /\ Len(new) = n
          /\ \A j \in 1..n :
               /\ new[j].live = one[j].live /\ new[j].type = one[j].type
               /\ new[j].string = one[j].string /\ new[j].valuestring = one[j].valuestring
               /\ new[j].number = one[j].number /\ new[j].next = one[j].next
               /\ new[j].child = one[j].child
               /\ new[j].prev = IF j = n THEN n ELSE one[j].prev
      BY <1>1, <2>1, <2>2, PutPrevIs
    <2> QED
      BY <1>3, <2>2, <2>3
  <1>4. CASE head # 0 /\ last = 0
    <2>1. new = list
      BY <1>4 DEF Linked
    <2> QED
      BY <1>4, <2>1
  <1>5. CASE head # 0 /\ last # 0
    <2> DEFINE one == PutNext(list, last, n)
               two == PutPrev(one, n, last)
    <2>1. new = PutPrev(two, head, n)
      BY <1>5 DEF Linked, PutNext, PutPrev
    <2>2. last \in 1..n /\ last # n /\ head \in 1..n /\ head # n
      BY <1>1, <1>2, <1>5
    <2>3. /\ one \in Seq(Item) /\ Len(one) = n
          /\ \A j \in 1..n :
               /\ one[j].live = list[j].live /\ one[j].type = list[j].type
               /\ one[j].string = list[j].string /\ one[j].valuestring = list[j].valuestring
               /\ one[j].number = list[j].number /\ one[j].child = list[j].child
               /\ one[j].prev = list[j].prev
               /\ one[j].next = IF j = last THEN n ELSE list[j].next
      BY <1>1, <2>2, PutNextIs
    <2> HIDE DEF one
    <2>4. /\ two \in Seq(Item) /\ Len(two) = n
          /\ \A j \in 1..n :
               /\ two[j].live = one[j].live /\ two[j].type = one[j].type
               /\ two[j].string = one[j].string /\ two[j].valuestring = one[j].valuestring
               /\ two[j].number = one[j].number /\ two[j].next = one[j].next
               /\ two[j].child = one[j].child
               /\ two[j].prev = IF j = n THEN last ELSE one[j].prev
      BY <1>1, <2>3, PutPrevIs
    <2> HIDE DEF two
    <2>5. /\ new \in Seq(Item) /\ Len(new) = n
          /\ \A j \in 1..n :
               /\ new[j].live = two[j].live /\ new[j].type = two[j].type
               /\ new[j].string = two[j].string /\ new[j].valuestring = two[j].valuestring
               /\ new[j].number = two[j].number /\ new[j].next = two[j].next
               /\ new[j].child = two[j].child
               /\ new[j].prev = IF j = head THEN n ELSE two[j].prev
      BY <1>1, <2>1, <2>2, <2>4, PutPrevIs, SMTT(60)
    <2> QED
      BY <1>5, <2>2, <2>3, <2>4, <2>5
  <1> QED
    BY <1>3, <1>4, <1>5

-----------------------------------------------------------------------------
(***************************************************************************)
(* The inductive invariant.  An item is linked to later ones only, and the *)
(* frames of the parser stand on later and later items.                    *)
(***************************************************************************)
LinksOK ==
  \A i \in 1..Len(items) :
    /\ items[i].next # 0 => i < items[i].next /\ items[i].next <= Len(items)
    /\ items[i].child # 0 => i < items[i].child /\ items[i].child <= Len(items)
    /\ items[i].prev <= Len(items)

FrameOK ==
  \A k \in 1..Len(stack) :
    /\ stack[k].item >= 1 /\ stack[k].item <= Len(items) /\ stack[k].cur <= Len(items)
    /\ root >= 1 /\ root <= stack[k].item
    /\ stack[k].head # 0 => stack[k].item < stack[k].head /\ stack[k].head <= stack[k].cur
    /\ stack[k].head = 0 => stack[k].cur = 0
    /\ k < Len(stack) \/ pc \in {"value", "name", "after"} => stack[k].head # 0
    /\ \A j \in 1..k - 1 : stack[j].cur <= stack[k].item

PhaseOK ==
  /\ pc \in {"element", "after", "name"} => stack # <<>>
  /\ pc = "name" => Last(stack).kind = LBrace
  /\ pc \in Starting \cup Complete \cup {"failed"} => stack = <<>>
  /\ pc \in {"value", "name"} => target = IF stack = <<>> THEN root ELSE Last(stack).cur
  /\ root <= Len(items)
  /\ pc \in Parsing \cup {"tree", "print", "printed", "unprinted"} => root >= 1
  /\ pc \in Starting \cup {"deleted", "failed"} => root = 0
  /\ pc = "create" => items = <<>>

\* The item whose name or value comes next has none yet.
FreshOK ==
  pc \in {"value", "name"} =>
    /\ items[target].next = 0 /\ items[target].child = 0 /\ items[target].valuestring = <<>>
    /\ pc = "name" => items[target].string = <<>>

-----------------------------------------------------------------------------
(***************************************************************************)
(* What the printer relies on: every item has a value of its type, but for *)
(* those the parser is at, and every member of an object a name.           *)
(***************************************************************************)
Printable(i) ==
  items[i].type # "invalid" /\ (items[i].type = "string" => items[i].valuestring # <<>>)
Unfinished(i) ==
  (\E k \in 1..Len(stack) : stack[k].item = i) \/ (pc \in {"value", "name"} /\ i = target)
Called(i) == items[i].string # <<>> \/ (pc = "name" /\ i = target)

KindOK ==
  pc \notin Unwinding =>
    /\ \A i \in 1..Len(items) :
         /\ Printable(i) \/ Unfinished(i)
         /\ items[i].type = "object" /\ items[i].child # 0 => Called(items[i].child)
         /\ items[i].string # <<>> /\ items[i].next # 0 => Called(items[i].next)
    /\ \A k \in 1..Len(stack) :
         stack[k].head # 0 =>
           IF stack[k].kind = LBrace THEN Called(stack[k].head) /\ Called(stack[k].cur)
           ELSE items[stack[k].cur].string = <<>>

\* What is still to be printed, and what has been.
WriteTask ==
  [do : {"write"}, needed : Nat, bytes : Seq(Char), advance : Nat, update : BOOLEAN]
CallTask == [do : {"value", "elements", "members"}, item : Nat, depth : Nat]

\* A write fits into what it asked for; where update_offset follows, it ends in
\* the only 0.
WriteFits(w) ==
  /\ Len(w.bytes) <= w.needed /\ w.advance <= Len(w.bytes)
  /\ w.update => \E body \in Seq(NonZero) : w.bytes = Append(body, 0) /\ w.advance <= Len(body)
CallReads(c) ==
  /\ c.item <= Len(items)
  /\ c.do = "value" => c.item # 0
  /\ c.do = "members" => c.depth >= 1 /\ (c.item # 0 => items[c.item].string # <<>>)
Task == {w \in WriteTask : WriteFits(w)} \cup {c \in CallTask : CallReads(c)}

Terminated == Len(buffer) = printed + 1 /\ buffer[printed + 1] = 0
\* What is printed last is a value's end.
EndsIn(x) == x.do = "write" => x.update

PrintOK ==
  /\ buffer \in Seq(Char) /\ size \in Nat /\ printed \in Nat /\ format \in BOOLEAN
  /\ Len(buffer) <= size /\ size <= Max({IntMax, DefaultSize})
  /\ pc = "print" =>
       /\ tasks \in Seq(Task)
       /\ printed < size /\ printed <= Len(buffer)
       /\ IF tasks = <<>> THEN Terminated ELSE EndsIn(Last(tasks))
  /\ pc = "printed" => Terminated
  /\ said = <<>> \/ pc = "unprinted" => size = 0

-----------------------------------------------------------------------------
(***************************************************************************)
(* The heap: every live item but the root hangs in exactly one place, and  *)
(* what hangs on a live item is live.                                      *)
(***************************************************************************)
Live == {i \in 1..Len(items) : items[i].live}

Rooted ==
  /\ root = 0 => Live = {}
  /\ root # 0 => root \in Live /\ (\A i \in Live : root <= i) /\ items[root].next = 0
Reaching ==
  /\ \A i \in Live :
       /\ items[i].next # 0 => items[i].next \in Live
       /\ items[i].child # 0 => items[i].child \in Live
  /\ \A k \in 1..Len(stack) :
       /\ stack[k].item \in Live /\ items[stack[k].item].child = 0
       /\ stack[k].head # 0 =>
            stack[k].head \in Live /\ stack[k].cur \in Live /\ items[stack[k].cur].next = 0
Owned(j) ==
  \/ \E i \in Live : items[i].next = j \/ items[i].child = j
  \/ \E k \in 1..Len(stack) : stack[k].head = j
OwnedOnce ==
  /\ \A i \in Live, j \in Live :
       /\ items[i].next # 0 /\ items[i].next = items[j].next => i = j
       /\ items[i].child # 0 /\ items[i].child = items[j].child => i = j
       /\ items[i].next # 0 => items[i].next # items[j].child
  /\ \A i \in Live, k \in 1..Len(stack) :
       stack[k].head # 0 => items[i].next # stack[k].head /\ items[i].child # stack[k].head

HeapOK ==
  /\ ~misused /\ strings = Blocks(Live)
  /\ Rooted /\ Reaching /\ OwnedOnce
  /\ \A j \in Live : j # root => Owned(j)

\* The lists, with up the parent of every item: linked in both directions, and
\* only the last item has no next; the head knows it, or else the parser does.
Lists(up) ==
  /\ root # 0 => up[root] = 0
  /\ \A j \in Live :
       /\ items[j].next # 0 => items[items[j].next].prev = j /\ up[items[j].next] = up[j]
       /\ items[j].child # 0 =>
            LET last == items[items[j].child].prev IN
            up[items[j].child] = j /\ last \in Live /\ items[last].next = 0 /\ up[last] = j
       /\ j # root /\ items[j].next = 0 =>
            \/ up[j] \in Live /\ items[up[j]].child # 0 /\ items[items[up[j]].child].prev = j
            \/ \E k \in 1..Len(stack) : stack[k].item = up[j] /\ stack[k].cur = j
  /\ \A k \in 1..Len(stack) :
       stack[k].head # 0 => up[stack[k].head] = stack[k].item /\ up[stack[k].cur] = stack[k].item
ListOK == pc \notin Unwinding => \E up \in [1..Len(items) -> Nat] : Lists(up)

PlaceOK == TypeOK /\ TextOK /\ LinksOK /\ FrameOK /\ PhaseOK /\ FreshOK
IndInv ==
  /\ PlaceOK
  /\ KindOK /\ PrintOK /\ HeapOK /\ ListOK

-----------------------------------------------------------------------------
(***************************************************************************)
(* What the steps do to the tree and to the parser's stack, field by field *)
(* and with the places in their bounds; several actions do the same.       *)
(***************************************************************************)
Printing == {"tree", "print", "printed", "unprinted"}

Still == UNCHANGED <<strings, misused, text, stack, root>>

\* A refused allocation, a step of the printer, a stuttering step.
QuietStep ==
  /\ Still /\ UNCHANGED <<items, offset, target>> /\ fails' \in Nat
  /\ \/ pc' = pc
     \/ pc = "create" /\ pc' = "failed"
     \/ pc \in Printing /\ pc' \in Printing

\* A function of the parser fails, or cJSON_Parse gets no root.
FailStep ==
  /\ Still /\ UNCHANGED <<items, offset, target>> /\ fails' \in Nat
  /\ pc \in Parsing \cup {"parse"} /\ pc' = "unwind"

\* The root of a tree that is built or parsed.
RootStep ==
  LET n == Len(items) + 1 IN
  /\ UNCHANGED <<strings, misused, text, stack>> /\ fails' \in Nat
  /\ items' \in Seq(Item) /\ Len(items') = n
  /\ \A j \in 1..Len(items) : items'[j] = items[j]
  /\ items'[n].live /\ items'[n].string = <<>> /\ items'[n].valuestring = <<>>
  /\ items'[n].next = 0 /\ items'[n].prev = 0 /\ items'[n].child = 0
  /\ root' = n /\ target' \in Nat /\ offset' \in Nat
  /\ \/ pc = "create" /\ pc' = "tree" /\ items'[n].type = "object"
     \/ pc = "parse" /\ pc' = "value" /\ target' = n /\ offset' < Len(text)

\* A value that is no list, or an empty one.
ValueStep ==
  /\ UNCHANGED <<misused, text, stack, root, target>> /\ fails' \in Nat
  /\ pc = "value" /\ pc' = IF stack = <<>> THEN "tree" ELSE "after"
  /\ Relabels(items, items', target)
  /\ items'[target].type # "invalid" /\ items'[target].string = items[target].string
  /\ IF items'[target].type = "string"
     THEN items'[target].valuestring # <<>> /\ strings' = strings + 1
     ELSE items'[target].valuestring = items[target].valuestring /\ strings' = strings
  /\ offset' \in Nat /\ offset' < Len(text)

NameStep ==
  /\ UNCHANGED <<misused, text, stack, root, target>> /\ fails' \in Nat
  /\ pc = "name" /\ pc' \in {"value", "unwind"}
  /\ Relabels(items, items', target)
  /\ items'[target].string # <<>> /\ items'[target].valuestring = items[target].valuestring
  /\ strings' = strings + 1
  /\ offset' \in Nat /\ offset' < Len(text)

\* parse_array and parse_object enter their loop.
PushStep ==
  /\ UNCHANGED <<items, strings, misused, text, root, target>> /\ fails' \in Nat
  /\ pc = "value" /\ pc' = "element"
  /\ \E kind \in {LBracket, LBrace} :
       stack' = Append(stack, [kind |-> kind, item |-> target, head |-> 0, cur |-> 0])
  /\ offset' \in Nat /\ offset' + 1 < Len(text)

ElementStep ==
  LET n == Len(items) + 1
      m == Len(stack)
      frame == stack[m]
  IN
  /\ UNCHANGED <<strings, misused, text, root>> /\ fails' \in Nat
  /\ pc = "element" /\ pc' \in {"unwind", "name", "value"}
  /\ pc' # "unwind" => (pc' = "name" <=> frame.kind = LBrace)
  /\ items' \in Seq(Item) /\ Len(items') = n
  /\ items'[n].live /\ items'[n].type = "invalid"
  /\ items'[n].string = <<>> /\ items'[n].valuestring = <<>>
  /\ items'[n].next = 0 /\ items'[n].child = 0
  /\ items'[n].prev = IF frame.head = 0 THEN 0 ELSE frame.cur
  /\ \A j \in 1..Len(items) :
       /\ items'[j].live = items[j].live /\ items'[j].type = items[j].type
       /\ items'[j].string = items[j].string /\ items'[j].valuestring = items[j].valuestring
       /\ items'[j].prev = items[j].prev /\ items'[j].child = items[j].child
       /\ items'[j].next = IF frame.head # 0 /\ j = frame.cur THEN n ELSE items[j].next
  /\ stack' \in Seq(Frame) /\ Len(stack') = m
  /\ \A k \in 1..m - 1 : stack'[k] = stack[k]
  /\ stack'[m].kind = frame.kind /\ stack'[m].item = frame.item
  /\ stack'[m].head = (IF frame.head = 0 THEN n ELSE frame.head) /\ stack'[m].cur = n
  /\ target' = n /\ offset' \in Nat /\ offset' < Len(text)

CommaStep ==
  /\ Still /\ UNCHANGED <<items, offset, target, fails>>
  /\ pc = "after" /\ pc' = "element" /\ offset + 1 < Len(text)

\* parse_array and parse_object succeed.
CloseStep ==
  LET frame == stack[Len(stack)] IN
  /\ UNCHANGED <<strings, misused, text, root, target, fails>>
  /\ pc = "after" /\ pc' = IF Len(stack) = 1 THEN "tree" ELSE "after"
  /\ items' \in Seq(Item) /\ Len(items') = Len(items)
  /\ \A j \in 1..Len(items) :
       /\ items'[j].live = items[j].live /\ items'[j].string = items[j].string
       /\ items'[j].valuestring = items[j].valuestring /\ items'[j].next = items[j].next
       /\ items'[j].prev = IF j = frame.head THEN frame.cur ELSE items[j].prev
       /\ items'[j].child = IF j = frame.item THEN frame.head ELSE items[j].child
       /\ items'[j].type = IF j = frame.item
                           THEN IF frame.kind = LBrace THEN "object" ELSE "array"
                           ELSE items[j].type
  /\ stack' \in Seq(Frame) /\ Len(stack') = Len(stack) - 1
  /\ \A k \in 1..Len(stack) - 1 : stack'[k] = stack[k]
  /\ offset' \in Nat /\ offset' < Len(text)

FreeStep(dead) ==
  /\ items' \in Seq(Item) /\ Len(items') = Len(items)
  /\ \A j \in 1..Len(items) :
       /\ items'[j].live = (items[j].live /\ j \notin dead)
       /\ items'[j].type = items[j].type /\ items'[j].string = items[j].string
       /\ items'[j].valuestring = items[j].valuestring
       /\ items'[j].next = items[j].next /\ items'[j].prev = items[j].prev
       /\ items'[j].child = items[j].child
  /\ strings' = strings - Blocks(dead)
  /\ misused' = (misused \/ \E k \in dead : ~items[k].live)
  /\ UNCHANGED <<fails, offset, target>>

\* A frame that fails.
PopStep ==
  /\ FreeStep(Deleted(stack[Len(stack)].head))
  /\ pc = "unwind" /\ pc' = "unwind" /\ stack # <<>>
  /\ stack' \in Seq(Frame) /\ Len(stack') = Len(stack) - 1
  /\ \A k \in 1..Len(stack) - 1 : stack'[k] = stack[k]
  /\ UNCHANGED <<text, root>>

\* cJSON_Delete(root), in the parser and in polycomm.
ClearStep ==
  /\ FreeStep(Deleted(root))
  /\ stack = <<>> /\ stack' = <<>> /\ root' = 0
  /\ \/ pc = "unwind" /\ pc' = "failed" /\ text' = text
     \/ pc \in Printing /\ pc' = "deleted" /\ text' = text
     \/ /\ pc = "printed" /\ pc' = "parse"
        /\ text' \in Seq(Char) /\ text' # <<>> /\ text'[Len(text')] = 0

AddStep ==
  LET n == Len(items) + 1
      head == items[root].child
      last == items[head].prev
  IN
  /\ UNCHANGED <<misused, text, offset, stack, root, target, fails>>
  /\ pc = "tree" /\ pc' = "tree"
  /\ strings' = strings + 2
  /\ items' \in Seq(Item) /\ Len(items') = n
  /\ items'[n].live /\ items'[n].type = "string"
  /\ items'[n].string # <<>> /\ items'[n].valuestring # <<>>
  /\ items'[n].next = 0 /\ items'[n].child = 0
  /\ items'[n].prev = IF head = 0 THEN n ELSE last
  /\ \A j \in 1..Len(items) :
       /\ items'[j].live = items[j].live /\ items'[j].type = items[j].type
       /\ items'[j].string = items[j].string /\ items'[j].valuestring = items[j].valuestring
       /\ items'[j].child = IF head = 0 /\ j = root THEN n ELSE items[j].child
       /\ items'[j].next = IF head # 0 /\ last # 0 /\ j = last THEN n ELSE items[j].next
       /\ items'[j].prev = IF head # 0 /\ last # 0 /\ j = head THEN n ELSE items[j].prev

-----------------------------------------------------------------------------
LEMMA TopIs ==
  ASSUME TypeOK, stack # <<>>
  PROVE  /\ Len(stack) \in Nat /\ Len(stack) >= 1
         /\ Last(stack) = stack[Len(stack)] /\ Last(stack) \in Frame
         /\ Front(stack) \in Seq(Frame) /\ Len(Front(stack)) = Len(stack) - 1
         /\ \A k \in 1..Len(stack) - 1 : Front(stack)[k] = stack[k]
  <1>1. stack \in Seq(Frame)
    BY DEF TypeOK
  <1>2. Len(stack) \in Nat /\ Len(stack) >= 1
    BY <1>1
  <1> QED
    BY <1>1, <1>2, SeqFront

LEMMA FrameFields ==
  ASSUME NEW f \in Frame
  PROVE  f.kind \in {LBracket, LBrace} /\ f.item \in Nat /\ f.head \in Nat /\ f.cur \in Nat
  BY DEF Frame

LEMMA ItemFields ==
  ASSUME NEW it \in Item
  PROVE  /\ it.live \in BOOLEAN /\ it.type \in Kinds /\ it.string \in Seq(Seq(Char))
         /\ it.valuestring \in Seq(Seq(Char))
         /\ it.next \in Nat /\ it.prev \in Nat /\ it.child \in Nat
  BY DEF Item

\* The parser's current item is there.
LEMMA TargetIs ==
  ASSUME PlaceOK, pc \in {"value", "name"}
  PROVE  target \in 1..Len(items) /\ items[target] \in Item /\ Len(items) \in Nat
  <1>0. TypeOK /\ FrameOK /\ PhaseOK
    BY DEF PlaceOK
  <1>1. items \in Seq(Item) /\ Len(items) \in Nat /\ target \in Nat /\ root \in Nat
    BY <1>0 DEF TypeOK
  <1>2. root >= 1 /\ root <= Len(items)
    BY <1>0 DEF PhaseOK, Parsing
  <1>3. CASE stack = <<>>
    BY <1>0, <1>1, <1>2, <1>3 DEF PhaseOK
  <1>4. CASE stack # <<>>
    <2>1. target = stack[Len(stack)].cur
      BY <1>0, <1>4, TopIs DEF PhaseOK
    <2>2. Len(stack) \in 1..Len(stack) /\ stack[Len(stack)] \in Frame
      BY <1>0, <1>4, TopIs
    <2> DEFINE f == stack[Len(stack)]
    <2>3. f.item \in Nat /\ f.head \in Nat /\ f.cur \in Nat
      BY <2>2, FrameFields
    <2>4. f.cur <= Len(items) /\ f.head # 0 /\ f.head <= f.cur
      BY <1>0, <2>2 DEF FrameOK
    <2> HIDE DEF f
    <2>5. target = f.cur
      BY <2>1 DEF f
    <2> QED
      BY <1>1, <2>3, <2>4, <2>5
  <1> QED
    BY <1>3, <1>4

LEMMA ValuedIs ==
  ASSUME PlaceOK, text # <<>>, NEW o \in Nat, o < Len(text), NEW frames, Valued(o, frames)
  PROVE  /\ stack' = frames /\ pc' = (IF frames = <<>> THEN "tree" ELSE "after")
         /\ offset' \in Nat /\ offset' < Len(text)
  <1>1. Skip(o) \in Nat /\ Skip(o) < Len(text)
    BY SkipIs DEF PlaceOK
  <1> QED
    BY <1>1 DEF Valued

LEMMA LiteralKinds == \A type \in DOMAIN Literal : type \in Kinds /\ type # "invalid" /\ type # "string"
  BY DEF Literal, Kinds

LEMMA LiteralIs ==
  ASSUME PlaceOK, ParseLiteral
  PROVE  ValueStep
  <1>1. PICK type \in DOMAIN Literal :
          /\ Reads(type) /\ items' = Typed(items, target, type)
          /\ Valued(offset + Len(Literal[type]), stack)
    BY DEF ParseLiteral, Typed
  <1>2. pc = "value" /\ UNCHANGED <<strings, fails, misused, text, root, target>>
    BY DEF ParseLiteral
  <1>3. TypeOK /\ TextOK /\ text # <<>>
    BY <1>2 DEF PlaceOK, TextOK, Parsing
  <1>4. /\ pc' = (IF stack = <<>> THEN "tree" ELSE "after") /\ stack' = stack
        /\ offset' \in Nat /\ offset' < Len(text)
    BY <1>1, <1>3, ReadsIs, ValuedIs
  <1>5. target \in 1..Len(items) /\ items \in Seq(Item) /\ fails \in Nat
    BY <1>2, <1>3, TargetIs DEF TypeOK
  <1>6. type \in Kinds /\ type # "invalid" /\ type # "string"
    BY LiteralKinds
  <1> PICK new : new = items'
    OBVIOUS
  <1>e. new = Typed(items, target, type)
    BY <1>1
  <1>7. /\ Relabels(items, new, target)
        /\ new[target].type = type /\ new[target].string = items[target].string
        /\ new[target].valuestring = items[target].valuestring
    BY <1>5, <1>6, <1>e, TypedIs
  <1> QED
    BY <1>2, <1>4, <1>5, <1>6, <1>7 DEF ValueStep

LEMMA StringIs ==
  ASSUME PlaceOK, ParseString
  PROVE  ValueStep \/ FailStep
  <1> DEFINE s == ParsedString(text, offset)
  <1>1. /\ pc = "value" /\ UNCHANGED <<misused, text, root>>
        /\ \/ /\ s.ok /\ items' = Texted(items, target, s.out) /\ strings' = strings + 1
              /\ Valued(s.after, stack) /\ UNCHANGED <<target, fails>>
           \/ (UNCHANGED fails \/ Refused) /\ Fail /\ UNCHANGED <<items, strings>>
    BY DEF ParseString, Texted
  <1>2. /\ s.out \in Seq(Char)
        /\ s.ok => s.after \in offset + 2..Len(text) /\ At(text, s.after - 1) = Quote
    BY ParsedStringIs DEF PlaceOK, TypeOK
  <1> HIDE DEF s
  <1>3. TypeOK /\ TextOK /\ text # <<>> /\ offset \in Nat /\ Len(text) \in Nat /\ fails \in Nat
    BY <1>1 DEF PlaceOK, TextOK, TypeOK, Parsing
  <1>4. CASE (UNCHANGED fails \/ Refused) /\ Fail /\ UNCHANGED <<items, strings>>
    BY <1>1, <1>3, <1>4 DEF FailStep, Still, Fail, Refused, Parsing
  <1>5. CASE /\ s.ok /\ items' = Texted(items, target, s.out) /\ strings' = strings + 1
             /\ Valued(s.after, stack) /\ UNCHANGED <<target, fails>>
    <2>1. s.after \in Nat /\ s.after - 1 \in Nat /\ s.after = (s.after - 1) + 1
      BY <1>2, <1>3, <1>5
    <2>2. At(text, s.after - 1) # 0 /\ At(text, s.after - 1) # Beyond
      BY <1>2, <1>5 DEF Quote, Beyond
    <2>3. (s.after - 1) + 1 < Len(text)
      BY <1>3, <2>1, <2>2, NotLast
    <2>4. /\ pc' = (IF stack = <<>> THEN "tree" ELSE "after") /\ stack' = stack
          /\ offset' \in Nat /\ offset' < Len(text)
      BY <1>3, <1>5, <2>1, <2>3, ValuedIs
    <2>5. target \in 1..Len(items) /\ items \in Seq(Item) /\ fails \in Nat
      BY <1>1, <1>3, TargetIs DEF TypeOK
    <2> PICK new : new = items'
      OBVIOUS
    <2>e. new = Texted(items, target, s.out)
      BY <1>5
    <2>6. /\ Relabels(items, new, target)
          /\ new[target].type = "string" /\ new[target].string = items[target].string
          /\ new[target].valuestring = <<s.out>>
      BY <1>2, <2>5, <2>e, TextedIs
    <2>8. new[target].valuestring # <<>>
      BY <1>2, <2>6, OneString
    <2> QED
      BY <1>1, <1>5, <2>4, <2>5, <2>6, <2>8 DEF ValueStep
  <1> QED
    BY <1>1, <1>4, <1>5

LEMMA NumberIs ==
  ASSUME PlaceOK, ParseNumber
  PROVE  ValueStep \/ FailStep
  <1> DEFINE n == DigitsFrom(NumberStart)
             r == NumberRead
  <1>1. /\ pc = "value" /\ UNCHANGED <<strings, misused, text, root>>
        /\ \/ /\ items' = Numbered(items, target, r)
              /\ Valued(NumberStart + n, stack) /\ UNCHANGED <<target, fails>>
           \/ (UNCHANGED fails \/ Refused) /\ Fail /\ UNCHANGED items
    BY DEF ParseNumber, Numbered
  <1>2. TypeOK /\ TextOK /\ text # <<>> /\ offset < Len(text) /\ fails \in Nat
    BY <1>1 DEF PlaceOK, TextOK, TypeOK, Parsing
  <1>3. NumberStart + n \in Nat /\ NumberStart + n < Len(text)
    BY <1>2, NumberStartIs, DigitsFromIs
  <1>4. r \in Int
    BY <1>2, NumberReadIs
  <1> HIDE DEF n, r
  <1>5. CASE (UNCHANGED fails \/ Refused) /\ Fail /\ UNCHANGED items
    BY <1>1, <1>2, <1>5 DEF FailStep, Still, Fail, Refused, Parsing
  <1>6. CASE /\ items' = Numbered(items, target, r)
             /\ Valued(NumberStart + n, stack) /\ UNCHANGED <<target, fails>>
    <2>1. /\ pc' = (IF stack = <<>> THEN "tree" ELSE "after") /\ stack' = stack
          /\ offset' \in Nat /\ offset' < Len(text)
      BY <1>2, <1>3, <1>6, ValuedIs
    <2>2. target \in 1..Len(items) /\ items \in Seq(Item)
      BY <1>1, <1>2, TargetIs DEF TypeOK
    <2> PICK new : new = items'
      OBVIOUS
    <2>e. new = Numbered(items, target, r)
      BY <1>6
    <2>3. /\ Relabels(items, new, target)
          /\ new[target].type = "number" /\ new[target].string = items[target].string
          /\ new[target].valuestring = items[target].valuestring
      BY <1>4, <2>2, <2>e, NumberedIs
    <2> QED
      BY <1>1, <1>2, <1>6, <2>1, <2>2, <2>3 DEF ValueStep
  <1> QED
    BY <1>1, <1>5, <1>6

\* A byte that opens or closes a list, a comma and a colon are not the last.
LEMMA MarkIs ==
  ASSUME PlaceOK, text # <<>>, NEW o \in Nat,
         At(text, o) \in {LBracket, LBrace, RBracket, RBrace, Comma, Colon}
  PROVE  o + 1 \in Nat /\ o + 1 < Len(text)
  <1>1. At(text, o) # 0 /\ At(text, o) # Beyond
    BY DEF LBracket, LBrace, RBracket, RBrace, Comma, Colon, Beyond
  <1> QED
    BY <1>1, NotLast DEF PlaceOK

LEMMA OpenIs ==
  ASSUME PlaceOK, Open
  PROVE  ValueStep \/ PushStep \/ FailStep
  <1> DEFINE o == Skip(offset + 1)
             ty == IF Peek = LBrace THEN "object" ELSE "array"
             empty == /\ At(text, o) = Closing[Peek]
                      /\ items' = Typed(items, target, ty)
                      /\ Valued(o + 1, stack) /\ UNCHANGED target
             push == /\ stack' = Append(stack, [kind |-> Peek, item |-> target, head |-> 0, cur |-> 0])
                     /\ offset' = o - 1 /\ pc' = "element" /\ UNCHANGED <<items, target>>
  <1>1. /\ pc = "value" /\ Peek \in {LBracket, LBrace}
        /\ UNCHANGED <<strings, fails, misused, text, root>>
        /\ empty \/ push \/ (Fail /\ UNCHANGED items)
    BY DEF Open, Closing, Typed
  <1>2. TypeOK /\ TextOK /\ text # <<>> /\ offset < Len(text) /\ offset \in Nat /\ fails \in Nat /\ Len(text) \in Nat
    BY <1>1 DEF PlaceOK, TextOK, TypeOK, Parsing
  <1>3. offset + 1 \in Nat /\ offset + 1 < Len(text)
    <2>1. At(text, offset) \in {LBracket, LBrace}
      BY <1>1 DEF Peek
    <2> QED
      BY <1>2, <2>1, MarkIs
  <1>4. o \in Nat /\ o < Len(text) /\ offset + 1 <= o
    BY <1>2, <1>3, SkipIs
  <1> HIDE DEF o
  <1>5. CASE Fail /\ UNCHANGED items
    BY <1>1, <1>2, <1>5 DEF FailStep, Still, Fail, Parsing
  <1>6. CASE empty
    <2>1. At(text, o) \in {RBracket, RBrace}
      BY <1>1, <1>6 DEF Closing
    <2>2. o + 1 \in Nat /\ o + 1 < Len(text)
      BY <1>2, <1>4, <2>1, MarkIs
    <2>3. /\ pc' = (IF stack = <<>> THEN "tree" ELSE "after") /\ stack' = stack
          /\ offset' \in Nat /\ offset' < Len(text)
      BY <1>2, <1>6, <2>2, ValuedIs
    <2>4. target \in 1..Len(items) /\ items \in Seq(Item)
      BY <1>1, <1>2, TargetIs DEF TypeOK
    <2>5. ty \in Kinds /\ ty # "invalid" /\ ty # "string"
      BY DEF Kinds
    <2> HIDE DEF ty
    <2> PICK new : new = items'
      OBVIOUS
    <2>e. new = Typed(items, target, ty)
      BY <1>6
    <2>6. /\ Relabels(items, new, target)
          /\ new[target].type = ty /\ new[target].string = items[target].string
          /\ new[target].valuestring = items[target].valuestring
      BY <2>4, <2>5, <2>e, TypedIs
    <2> QED
      BY <1>1, <1>2, <1>6, <2>3, <2>4, <2>5, <2>6 DEF ValueStep
  <1>7. CASE push
    <2>1. offset' \in Nat /\ offset' + 1 < Len(text)
      BY <1>2, <1>4, <1>7
    <2> QED
      BY <1>1, <1>2, <1>7, <2>1 DEF PushStep
  <1> QED
    BY <1>1, <1>5, <1>6, <1>7

LEMMA NoValueIs ==
  ASSUME PlaceOK, NoValue
  PROVE  FailStep
  BY DEF NoValue, PlaceOK, TypeOK, FailStep, Still, Fail, Parsing, tree

\* The bytes before the root's value.
LEMMA BomIs ==
  ASSUME PlaceOK, text # <<>>
  PROVE  Bom \in Nat /\ Bom < Len(text)
  <1>1. Len(text) \in Nat /\ Len(text) >= 1
    BY DEF PlaceOK, TypeOK
  <1> QED
    BY <1>1 DEF Bom

LEMMA StartIs ==
  ASSUME PlaceOK, ParseWithLengthOpts
  PROVE  RootStep \/ FailStep
  <1> DEFINE n == Len(items) + 1
             new == New("invalid")
  <1>1. /\ pc = "parse" /\ UNCHANGED <<strings, misused, text, stack>>
        /\ \/ /\ items' = Append(items, new) /\ root' = n /\ target' = n
              /\ offset' = Skip(Bom) /\ pc' = "value" /\ UNCHANGED fails
           \/ /\ Refused /\ root' = 0 /\ pc' = "unwind" /\ UNCHANGED <<items, target, offset>>
    BY DEF ParseWithLengthOpts
  <1>2. TypeOK /\ TextOK /\ PhaseOK
    BY DEF PlaceOK
  <1>3. text # <<>> /\ root = 0
    BY <1>1, <1>2 DEF TextOK, PhaseOK, Starting
  <1>4. fails \in Nat /\ items \in Seq(Item) /\ Len(items) \in Nat
    BY <1>2 DEF TypeOK
  <1>5. Skip(Bom) \in Nat /\ Skip(Bom) < Len(text)
    BY <1>2, <1>3, BomIs, SkipIs
  <1>6. CASE Refused /\ root' = 0 /\ pc' = "unwind" /\ UNCHANGED <<items, target, offset>>
    BY <1>1, <1>3, <1>4, <1>6 DEF FailStep, Still, Refused
  <1>7. CASE /\ items' = Append(items, new) /\ root' = n /\ target' = n
             /\ offset' = Skip(Bom) /\ pc' = "value" /\ UNCHANGED fails
    <2>1. /\ new \in Item /\ new.live /\ new.string = <<>> /\ new.valuestring = <<>>
          /\ new.next = 0 /\ new.prev = 0 /\ new.child = 0
      BY NewItem DEF Kinds
    <2> HIDE DEF new
    <2>2. /\ items' \in Seq(Item) /\ Len(items') = n /\ items'[n] = new
          /\ \A j \in 1..Len(items) : items'[j] = items[j]
      BY <1>4, <1>7, <2>1, SeqAppend
    <2> QED
      BY <1>1, <1>4, <1>5, <1>7, <2>1, <2>2 DEF RootStep
  <1> QED
    BY <1>1, <1>6, <1>7

LEMMA CreateIs ==
  ASSUME PlaceOK, Create
  PROVE  RootStep \/ QuietStep
  <1> DEFINE new == New("object")
  <1>1. /\ pc = "create" /\ UNCHANGED <<strings, misused, text, offset, stack, target>>
        /\ \/ items' = <<new>> /\ root' = 1 /\ pc' = "tree" /\ UNCHANGED fails
           \/ Refused /\ pc' = "failed" /\ UNCHANGED <<items, root>>
    BY DEF Create
  <1>2. TypeOK /\ PhaseOK
    BY DEF PlaceOK
  <1>3. items = <<>> /\ fails \in Nat /\ items \in Seq(Item) /\ offset \in Nat /\ target \in Nat
    BY <1>1, <1>2 DEF TypeOK, PhaseOK
  <1>4. CASE Refused /\ pc' = "failed" /\ UNCHANGED <<items, root>>
    BY <1>1, <1>3, <1>4 DEF QuietStep, Still, Refused
  <1>5. CASE items' = <<new>> /\ root' = 1 /\ pc' = "tree" /\ UNCHANGED fails
    <2>1. /\ new \in Item /\ new.live /\ new.string = <<>> /\ new.valuestring = <<>>
          /\ new.next = 0 /\ new.prev = 0 /\ new.child = 0 /\ new.type = "object"
      BY NewItem DEF Kinds
    <2> HIDE DEF new
    <2>2. /\ items' \in Seq(Item) /\ Len(items') = 1 /\ items'[1] = new /\ Len(items) = 0
          /\ \A j \in 1..Len(items) : items'[j] = items[j]
      BY <1>3, <1>5, <2>1
    <2> QED
      BY <1>1, <1>3, <1>5, <2>1, <2>2 DEF RootStep
  <1> QED
    BY <1>1, <1>4, <1>5

\* The stack with another head and current item in its top frame.
Topped(frames, n) ==
  [frames EXCEPT ![Len(frames)].head = IF @ = 0 THEN n ELSE @, ![Len(frames)].cur = n]

LEMMA ToppedIs ==
  ASSUME NEW frames \in Seq(Frame), frames # <<>>, NEW n \in Nat,
         NEW new, new = Topped(frames, n)
  PROVE  /\ new \in Seq(Frame) /\ Len(new) = Len(frames)
         /\ \A k \in 1..Len(frames) - 1 : new[k] = frames[k]
         /\ new[Len(frames)].kind = frames[Len(frames)].kind
         /\ new[Len(frames)].item = frames[Len(frames)].item
         /\ new[Len(frames)].head =
              (IF frames[Len(frames)].head = 0 THEN n ELSE frames[Len(frames)].head)
         /\ new[Len(frames)].cur = n
  <1> DEFINE m == Len(frames)
             f == frames[m]
  <1> DEFINE head == IF f.head = 0 THEN n ELSE f.head
             top == [f EXCEPT !.head = head, !.cur = n]
  <1>1. m \in Nat /\ m >= 1 /\ f \in Frame
    OBVIOUS
  <1>2. new = [frames EXCEPT ![m] = top]
    BY DEF Topped
  <1>3. head \in Nat
    BY <1>1, FrameFields
  <1> HIDE DEF head
  <1>4. /\ top \in Frame /\ top.kind = f.kind /\ top.item = f.item /\ top.head = head
        /\ top.cur = n
    BY <1>1, <1>3 DEF Frame
  <1> HIDE DEF top
  <1>5. new \in Seq(Frame) /\ Len(new) = m /\ new[m] = top /\ \A k \in 1..m - 1 : new[k] = frames[k]
    BY <1>1, <1>2, <1>4, SeqExcept
  <1> QED
    BY <1>4, <1>5 DEF head

LEMMA ElementIs ==
  ASSUME PlaceOK, Element
  PROVE  ElementStep \/ FailStep
  <1> DEFINE n == Len(items) + 1
             m == Len(stack)
             frame == stack[m]
             ends == frame.kind = LBrace /\ offset + 1 >= Len(text)
             goes == /\ items' = Attached(Append(items, New("invalid")), frame, n)
                     /\ stack' = Topped(stack, n) /\ target' = n
                     /\ offset' = IF ends THEN offset ELSE Skip(offset + 1)
                     /\ pc' = IF ends THEN "unwind" ELSE IF frame.kind = LBrace THEN "name" ELSE "value"
                     /\ UNCHANGED fails
             stops == Refused /\ Fail /\ UNCHANGED items
  <1>1. TypeOK /\ TextOK /\ FrameOK /\ PhaseOK
    BY DEF PlaceOK
  <1>2. pc = "element" /\ UNCHANGED <<strings, misused, text, root>>
    BY DEF Element
  <1>3. stack # <<>> /\ text # <<>> /\ offset + 1 < Len(text)
    BY <1>1, <1>2 DEF PhaseOK, TextOK, Parsing
  <1>4. frame = Last(stack) /\ frame \in Frame /\ m \in Nat /\ m >= 1
    BY <1>1, <1>3, TopIs
  <1>5. goes \/ stops
    BY <1>4 DEF Element, Topped
  <1>6. fails \in Nat /\ items \in Seq(Item) /\ Len(items) \in Nat /\ offset \in Nat /\ stack \in Seq(Frame) /\ Len(text) \in Nat
    BY <1>1 DEF TypeOK
  <1>7. CASE stops
    BY <1>2, <1>6, <1>7 DEF FailStep, Still, Fail, Refused, Parsing
  <1>8. CASE goes
    <2>1. Skip(offset + 1) \in Nat /\ Skip(offset + 1) < Len(text)
      BY <1>1, <1>3, <1>6, SkipIs
    <2>2. offset' \in Nat /\ offset' < Len(text)
      BY <1>3, <1>6, <1>8, <2>1
    <2>3. frame.head # 0 => frame.cur \in 1..Len(items)
      <3>1. frame.cur \in Nat /\ frame.head \in Nat
        BY <1>4, FrameFields
      <3>2. m \in 1..Len(stack)
        BY <1>4
      <3>3. frame.cur <= Len(items) /\ (frame.head # 0 => frame.head <= frame.cur)
        BY <1>1, <3>2 DEF FrameOK
      <3> HIDE DEF frame
      <3> QED
        BY <1>6, <3>1, <3>3
    <2>4. PICK nst : nst = stack'
      OBVIOUS
    <2>5. PICK new : new = items'
      OBVIOUS
    <2>6. nst = Topped(stack, n) /\ new = Attached(Append(items, New("invalid")), frame, n)
      BY <1>8, <2>4, <2>5
    <2>7. /\ nst \in Seq(Frame) /\ Len(nst) = m
          /\ \A k \in 1..m - 1 : nst[k] = stack[k]
          /\ nst[m].kind = frame.kind /\ nst[m].item = frame.item
          /\ nst[m].head = (IF frame.head = 0 THEN n ELSE frame.head) /\ nst[m].cur = n
      <3>1. n \in Nat /\ m = Len(stack) /\ frame = stack[m]
        BY <1>6
      <3>2. stack \in Seq(Frame) /\ stack # <<>> /\ nst = Topped(stack, n)
        BY <1>3, <1>6, <2>6
      <3> HIDE DEF n, m, frame
      <3> QED
        BY <3>1, <3>2, ToppedIs
    <2>8. /\ new \in Seq(Item) /\ Len(new) = n
          /\ new[n].live /\ new[n].type = "invalid" /\ new[n].string = <<>> /\ new[n].valuestring = <<>>
          /\ new[n].next = 0 /\ new[n].child = 0
          /\ new[n].prev = IF frame.head = 0 THEN 0 ELSE frame.cur
          /\ \A j \in 1..Len(items) :
               /\ new[j].live = items[j].live /\ new[j].type = items[j].type
               /\ new[j].string = items[j].string /\ new[j].valuestring = items[j].valuestring
               /\ new[j].number = items[j].number /\ new[j].prev = items[j].prev
               /\ new[j].child = items[j].child
               /\ new[j].next = IF frame.head # 0 /\ j = frame.cur THEN n ELSE items[j].next
      <3>1. n = Len(items) + 1
        OBVIOUS
      <3> HIDE DEF n, frame
      <3> QED
        BY <1>4, <1>6, <2>3, <2>6, <3>1, AttachedFields, SMTT(60)
    <2>9. pc' \in {"unwind", "name", "value"} /\ (pc' # "unwind" => (pc' = "name" <=> frame.kind = LBrace))
      BY <1>8
    <2>10. target' = n /\ fails' \in Nat
      BY <1>6, <1>8
    <2> HIDE DEF goes, ends
    <2> QED
      BY <1>2, <2>2, <2>4, <2>5, <2>7, <2>8, <2>9, <2>10 DEF ElementStep
  <1> QED
    BY <1>5, <1>7, <1>8

LEMMA NameIs ==
  ASSUME PlaceOK, Name
  PROVE  NameStep \/ FailStep
  <1> DEFINE s == ParsedString(text, offset)
             o == Skip(s.after)
             goes == /\ s.ok /\ items' = Named(items, target, s.out) /\ strings' = strings + 1
                     /\ offset' = (IF At(text, o) = Colon THEN Skip(o + 1) ELSE o)
                     /\ pc' = (IF At(text, o) = Colon THEN "value" ELSE "unwind")
                     /\ UNCHANGED <<stack, target, fails>>
             stops == (UNCHANGED fails \/ Refused) /\ Fail /\ UNCHANGED <<items, strings>>
  <1>1. pc = "name" /\ UNCHANGED <<misused, text, root>> /\ (goes \/ stops)
    BY DEF Name, Named
  <1>2. /\ s.out \in Seq(Char)
        /\ s.ok => s.after \in offset + 2..Len(text) /\ At(text, s.after - 1) = Quote
    BY ParsedStringIs DEF PlaceOK, TypeOK
  <1> HIDE DEF s
  <1>3. TypeOK /\ TextOK /\ text # <<>> /\ offset \in Nat /\ Len(text) \in Nat /\ fails \in Nat
    BY <1>1 DEF PlaceOK, TextOK, TypeOK, Parsing
  <1>4. CASE stops
    BY <1>1, <1>3, <1>4 DEF FailStep, Still, Fail, Refused, Parsing
  <1>5. CASE goes
    <2>1. s.after \in Nat /\ s.after - 1 \in Nat /\ s.after = (s.after - 1) + 1
      BY <1>2, <1>3, <1>5
    <2>2. At(text, s.after - 1) # 0 /\ At(text, s.after - 1) # Beyond
      BY <1>2, <1>5 DEF Quote, Beyond
    <2>3. (s.after - 1) + 1 < Len(text)
      BY <1>3, <2>1, <2>2, NotLast
    <2>4. o \in Nat /\ o < Len(text)
      BY <1>3, <2>1, <2>3, SkipIs
    <2> HIDE DEF o
    <2>6. offset' \in Nat /\ offset' < Len(text) /\ pc' \in {"value", "unwind"}
      <3>1. CASE At(text, o) = Colon
        <4>1. o + 1 \in Nat /\ o + 1 < Len(text)
          BY <1>3, <2>4, <3>1, MarkIs
        <4>2. Skip(o + 1) \in Nat /\ Skip(o + 1) < Len(text)
          BY <1>3, <4>1, SkipIs
        <4> QED
          BY <1>5, <3>1, <4>2
      <3>2. CASE At(text, o) # Colon
        BY <1>5, <2>4, <3>2
      <3> QED
        BY <3>1, <3>2
    <2>7. target \in 1..Len(items) /\ items \in Seq(Item)
      BY <1>1, <1>3, TargetIs DEF TypeOK
    <2>8. PICK new : new = items'
      OBVIOUS
    <2>9. new = Named(items, target, s.out)
      BY <1>5, <2>8
    <2>10. /\ Relabels(items, new, target)
           /\ new[target].type = "string" /\ new[target].string = <<s.out>>
           /\ new[target].valuestring = items[target].valuestring
      BY <1>2, <2>7, <2>9, NamedIs
    <2>11. new[target].string # <<>>
      BY <1>2, <2>10, OneString
    <2> QED
      BY <1>1, <1>3, <1>5, <2>6, <2>8, <2>10, <2>11 DEF NameStep
  <1> QED
    BY <1>1, <1>4, <1>5

LEMMA AfterIs ==
  ASSUME PlaceOK, AfterValue
  PROVE  CommaStep \/ CloseStep \/ FailStep
  <1> DEFINE m == Len(stack)
             frame == stack[m]
             closes == /\ Peek = Closing[frame.kind] /\ items' = Closed(items, frame)
                       /\ Valued(offset + 1, Front(stack)) /\ UNCHANGED target
  <1>1. TypeOK /\ TextOK /\ FrameOK /\ PhaseOK
    BY DEF PlaceOK
  <1>2. pc = "after" /\ UNCHANGED <<strings, fails, misused, text, root>>
    BY DEF AfterValue
  <1>3. stack # <<>> /\ text # <<>> /\ offset < Len(text)
    BY <1>1, <1>2 DEF PhaseOK, TextOK, Parsing
  <1>4. frame = Last(stack) /\ frame \in Frame /\ m \in Nat /\ m >= 1
    BY <1>1, <1>3, TopIs
  <1>5. \/ Peek = Comma /\ pc' = "element" /\ UNCHANGED <<items, offset, stack, target>>
        \/ closes
        \/ Fail /\ UNCHANGED items
    BY <1>4 DEF AfterValue
  <1>6. fails \in Nat /\ items \in Seq(Item) /\ Len(items) \in Nat /\ offset \in Nat /\ stack \in Seq(Frame)
    BY <1>1 DEF TypeOK
  <1>7. CASE Fail /\ UNCHANGED items
    BY <1>2, <1>6, <1>7 DEF FailStep, Still, Fail, Parsing
  <1>8. CASE Peek = Comma /\ pc' = "element" /\ UNCHANGED <<items, offset, stack, target>>
    <2>1. offset + 1 < Len(text)
      BY <1>3, <1>6, <1>8, MarkIs DEF Peek
    <2> QED
      BY <1>2, <1>8, <2>1 DEF CommaStep, Still
  <1>9. CASE closes
    <2>1. frame.kind \in {LBracket, LBrace} /\ frame.item \in Nat /\ frame.head \in Nat /\ frame.cur \in Nat
      BY <1>4, FrameFields
    <2>2. Peek \in {RBracket, RBrace}
      BY <1>9, <2>1 DEF Closing
    <2>3. offset + 1 \in Nat /\ offset + 1 < Len(text)
      BY <1>3, <1>6, <2>2, MarkIs DEF Peek
    <2>4. /\ stack' = Front(stack) /\ offset' \in Nat /\ offset' < Len(text)
          /\ pc' = (IF Front(stack) = <<>> THEN "tree" ELSE "after")
      BY <1>3, <1>9, <2>3, ValuedIs
    <2>5. /\ stack' \in Seq(Frame) /\ Len(stack') = m - 1
          /\ \A k \in 1..m - 1 : stack'[k] = stack[k]
      BY <1>1, <1>3, <2>4, TopIs
    <2>6. stack' = <<>> <=> Len(stack) = 1
      BY <1>4, <2>5
    <2>7. pc' = IF Len(stack) = 1 THEN "tree" ELSE "after"
      BY <2>4, <2>6
    <2>8. /\ frame.head \in 1..Len(items) /\ frame.item \in 1..Len(items) /\ frame.head # frame.item
      <3>1. m \in 1..Len(stack)
        BY <1>4
      <3>2. /\ frame.item >= 1 /\ frame.item <= Len(items) /\ frame.cur <= Len(items)
            /\ frame.head # 0 /\ frame.item < frame.head /\ frame.head <= frame.cur
        BY <1>1, <1>2, <3>1 DEF FrameOK
      <3> HIDE DEF frame
      <3> QED
        BY <1>6, <2>1, <3>2
    <2>9. PICK new : new = items'
      OBVIOUS
    <2>10. new = Closed(items, frame)
      BY <1>9, <2>9
    <2>11. /\ new \in Seq(Item) /\ Len(new) = Len(items)
           /\ \A j \in 1..Len(items) :
                /\ new[j].live = items[j].live /\ new[j].string = items[j].string
                /\ new[j].valuestring = items[j].valuestring
                /\ new[j].number = items[j].number /\ new[j].next = items[j].next
                /\ new[j].prev = IF j = frame.head THEN frame.cur ELSE items[j].prev
                /\ new[j].child = IF j = frame.item THEN frame.head ELSE items[j].child
                /\ new[j].type = IF j = frame.item
                                 THEN IF frame.kind = LBrace THEN "object" ELSE "array"
                                 ELSE items[j].type
      <3> HIDE DEF frame
      <3> QED
        BY <1>4, <1>6, <2>8, <2>10, ClosedFields, SMTT(60)
    <2>12. target' = target
      BY <1>9
    <2> HIDE DEF closes
    <2> QED
      BY <1>2, <2>4, <2>5, <2>7, <2>9, <2>11, <2>12 DEF CloseStep
  <1> QED
    BY <1>5, <1>7, <1>8, <1>9

LEMMA FreeStepIs ==
  ASSUME PlaceOK, NEW i, Delete(i), UNCHANGED <<fails, offset, target>>
  PROVE  FreeStep(Deleted(i))
  <1>1. items \in Seq(Item)
    BY DEF PlaceOK, TypeOK
  <1> DEFINE dead == Deleted(i)
  <1>2. /\ strings' = strings - Blocks(dead)
        /\ misused' = (misused \/ \E k \in dead : ~items[k].live)
    BY DEF Delete
  <1>3. PICK new : new = items'
    OBVIOUS
  <1>4. new = Freed(items, dead)
    BY <1>3 DEF Delete, Freed
  <1> HIDE DEF dead
  <1>5. /\ new \in Seq(Item) /\ Len(new) = Len(items)
        /\ \A j \in 1..Len(items) :
             /\ new[j].live = (items[j].live /\ j \notin dead)
             /\ new[j].type = items[j].type /\ new[j].string = items[j].string
             /\ new[j].valuestring = items[j].valuestring /\ new[j].number = items[j].number
             /\ new[j].next = items[j].next /\ new[j].prev = items[j].prev
             /\ new[j].child = items[j].child
    BY <1>1, <1>4, FreedIs
  <1>6. FreeStep(dead)
    BY <1>2, <1>3, <1>5 DEF FreeStep
  <1> QED
    BY <1>6 DEF dead

LEMMA UnwindIs ==
  ASSUME PlaceOK, Unwind
  PROVE  PopStep \/ ClearStep
  <1>1. pc = "unwind" /\ UNCHANGED <<fails, text, offset, target>>
    BY DEF Unwind
  <1>2. CASE stack # <<>>
    <2>1. Delete(Last(stack).head) /\ stack' = Front(stack) /\ UNCHANGED <<root, pc>>
      BY <1>2 DEF Unwind
    <2>2. /\ Last(stack) = stack[Len(stack)]
          /\ Front(stack) \in Seq(Frame) /\ Len(Front(stack)) = Len(stack) - 1
          /\ \A k \in 1..Len(stack) - 1 : Front(stack)[k] = stack[k]
      BY <1>2, TopIs DEF PlaceOK
    <2>3. FreeStep(Deleted(stack[Len(stack)].head))
      BY <1>1, <2>1, <2>2, FreeStepIs
    <2> QED
      BY <1>1, <1>2, <2>1, <2>2, <2>3 DEF PopStep
  <1>3. CASE stack = <<>>
    <2>1. Delete(root) /\ root' = 0 /\ pc' = "failed" /\ UNCHANGED stack
      BY <1>3 DEF Unwind
    <2>2. FreeStep(Deleted(root))
      BY <1>1, <2>1, FreeStepIs
    <2> QED
      BY <1>1, <1>3, <2>1, <2>2 DEF ClearStep
  <1> QED
    BY <1>2, <1>3

LEMMA DeleteIs ==
  ASSUME PlaceOK, PrintOK, DeleteTree
  PROVE  ClearStep
  <1>1. /\ pc \in {"tree", "printed"} /\ Delete(root) /\ root' = 0
        /\ UNCHANGED <<fails, offset, stack, target>>
        /\ IF pc = "printed"
           THEN text' = SubSeq(buffer, 1, printed + 1) /\ pc' = "parse"
           ELSE UNCHANGED text /\ pc' = "deleted"
    BY DEF DeleteTree
  <1>2. stack = <<>>
    BY <1>1 DEF PlaceOK, PhaseOK, Complete
  <1>3. FreeStep(Deleted(root))
    BY <1>1, FreeStepIs
  <1>4. CASE pc = "printed"
    <2>1. buffer \in Seq(Char) /\ printed \in Nat /\ Len(buffer) = printed + 1 /\ buffer[printed + 1] = 0
      BY <1>4 DEF PrintOK, Terminated
    <2> DEFINE n == printed + 1
    <2>2. n \in Nat /\ n >= 1 /\ Len(buffer) = n /\ buffer[n] = 0
      BY <2>1
    <2>3. text' = SubSeq(buffer, 1, n) /\ pc' = "parse"
      BY <1>1, <1>4
    <2> HIDE DEF n
    <2>4. SubSeq(buffer, 1, n) \in Seq(Char) /\ Len(SubSeq(buffer, 1, n)) = n /\ SubSeq(buffer, 1, n)[n] = 0
      BY <2>1, <2>2
    <2>5. text' # <<>>
      BY <2>2, <2>3, <2>4
    <2> QED
      BY <1>1, <1>2, <1>3, <1>4, <2>3, <2>4, <2>5 DEF ClearStep
  <1>5. CASE pc # "printed"
    BY <1>1, <1>2, <1>3, <1>5 DEF ClearStep, Printing
  <1> QED
    BY <1>4, <1>5

\* A member's item, before it is linked.
Member(name, value) == [New("string") EXCEPT !.string = <<name>>, !.valuestring = <<value>>]

LEMMA MemberIs ==
  ASSUME NEW m \in Members
  PROVE  /\ Member(m[1], m[2]) \in Item /\ Member(m[1], m[2]).live
         /\ Member(m[1], m[2]).type = "string"
         /\ Member(m[1], m[2]).string # <<>> /\ Member(m[1], m[2]).valuestring # <<>>
         /\ Member(m[1], m[2]).next = 0 /\ Member(m[1], m[2]).prev = 0 /\ Member(m[1], m[2]).child = 0
  <1> DEFINE a == m[1]
             b == m[2]
             it == New("string")
             p == <<a>>
             q == <<b>>
             both == [it EXCEPT !.string = p, !.valuestring = q]
  <1>1. a \in Seq(NonZero) /\ b \in Seq(NonZero)
    BY TextsAssumption
  <1>2. a \in Seq(Char) /\ b \in Seq(Char)
    BY <1>1, SubChars
  <1>3. Member(m[1], m[2]) = both
    BY DEF Member
  <1> HIDE DEF a, b
  <1>4. p \in Seq(Seq(Char)) /\ q \in Seq(Seq(Char)) /\ p # <<>> /\ q # <<>>
    BY <1>2, OneString
  <1>5. it \in Item /\ it.live /\ it.type = "string" /\ it.next = 0 /\ it.prev = 0 /\ it.child = 0
    BY NewItem DEF Kinds
  <1> HIDE DEF p, q, it
  <1>6. /\ both \in Item /\ both.string = p /\ both.valuestring = q /\ both.type = it.type
        /\ both.next = it.next /\ both.prev = it.prev /\ both.child = it.child /\ both.live = it.live
    BY <1>4, <1>5 DEF Item
  <1> HIDE DEF both
  <1> QED
    BY <1>3, <1>4, <1>5, <1>6

LEMMA AddIs ==
  ASSUME PlaceOK, Add
  PROVE  AddStep \/ QuietStep
  <1> DEFINE n == Len(items) + 1
             head == items[root].child
             last == items[head].prev
  <1>1. /\ pc = "tree" /\ UNCHANGED <<misused, text, offset, stack, root, target, pc>>
        /\ \/ /\ \E m \in Members : items' = Linked(Append(items, Member(m[1], m[2])), root, n)
              /\ strings' = strings + 2 /\ UNCHANGED fails
           \/ Refused /\ UNCHANGED <<items, strings>>
    BY DEF Add, AddStringToObject, Member, parser
  <1>2. /\ items \in Seq(Item) /\ Len(items) \in Nat /\ fails \in Nat /\ root \in Nat
        /\ root >= 1 /\ root <= Len(items)
    BY <1>1 DEF PlaceOK, TypeOK, PhaseOK
  <1>3. CASE Refused /\ UNCHANGED <<items, strings>>
    BY <1>1, <1>2, <1>3 DEF QuietStep, Still, Refused
  <1>4. CASE /\ \E m \in Members : items' = Linked(Append(items, Member(m[1], m[2])), root, n)
             /\ strings' = strings + 2 /\ UNCHANGED fails
    <2>1. PICK m \in Members : items' = Linked(Append(items, Member(m[1], m[2])), root, n)
      BY <1>4
    <2> DEFINE it == Member(m[1], m[2])
               list == Append(items, it)
    <2>2. /\ it \in Item /\ it.live /\ it.type = "string"
          /\ it.string # <<>> /\ it.valuestring # <<>> /\ it.next = 0 /\ it.prev = 0 /\ it.child = 0
      BY MemberIs
    <2>3. PICK new : new = items'
      OBVIOUS
    <2>4. new = Linked(list, root, n)
      BY <2>1, <2>3
    <2> HIDE DEF it
    <2>5. /\ list \in Seq(Item) /\ Len(list) = n /\ list[n] = it
          /\ \A j \in 1..Len(items) : list[j] = items[j]
      BY <1>2, <2>2, SeqAppend
    <2> HIDE DEF list
    <2>6. /\ head \in Nat /\ head < n /\ head = list[root].child
          /\ head # 0 => last = list[head].prev /\ last \in Nat /\ last < n
      <3>1. root \in 1..Len(items) /\ items[root] \in Item
        BY <1>2
      <3>2. head \in Nat /\ (head # 0 => head <= Len(items))
        BY <3>1, ItemFields DEF PlaceOK, LinksOK
      <3>3. head = list[root].child
        BY <2>5, <3>1
      <3> HIDE DEF head
      <3>4. ASSUME head # 0 PROVE last = list[head].prev /\ last \in Nat /\ last < n
        <4>1. head \in 1..Len(items) /\ items[head] \in Item
          BY <1>2, <3>2, <3>4
        <4>2. last \in Nat /\ last <= Len(items)
          BY <4>1, ItemFields DEF PlaceOK, LinksOK
        <4>3. last = list[head].prev
          BY <2>5, <4>1
        <4> HIDE DEF last
        <4> QED
          BY <1>2, <4>2, <4>3
      <3> QED
        BY <1>2, <3>2, <3>3, <3>4
    <2> HIDE DEF head, last
    <2>7. root \in 1..n - 1 /\ n = Len(list)
      BY <1>2, <2>5
    <2> HIDE DEF n
    <2>8. /\ new \in Seq(Item) /\ Len(new) = n
          /\ \A j \in 1..n :
               /\ new[j].live = list[j].live /\ new[j].type = list[j].type
               /\ new[j].string = list[j].string /\ new[j].valuestring = list[j].valuestring
               /\ new[j].number = list[j].number
               /\ new[j].child = IF head = 0 /\ j = root THEN n ELSE list[j].child
               /\ new[j].next = IF head # 0 /\ last # 0 /\ j = last THEN n ELSE list[j].next
               /\ new[j].prev = IF head = 0 THEN IF j = n THEN n ELSE list[j].prev
                                ELSE IF last = 0 THEN list[j].prev
                                ELSE IF j = head THEN n ELSE IF j = n THEN last ELSE list[j].prev
      <3>1. PICK x : x = (IF head = 0 THEN 0 ELSE last)
        OBVIOUS
      <3>2. head # 0 => x = list[head].prev /\ x \in Nat /\ x < n
        BY <2>6, <3>1
      <3> QED
        BY <2>4, <2>5, <2>6, <2>7, <3>1, <3>2, LinkedIs, SMTT(60)
    <2>9. n = Len(items) + 1
      BY DEF n
    <2>10. ASSUME NEW j \in 1..Len(items)
           PROVE  /\ new[j].live = items[j].live /\ new[j].type = items[j].type
                  /\ new[j].string = items[j].string /\ new[j].valuestring = items[j].valuestring
                  /\ new[j].child = IF head = 0 /\ j = root THEN n ELSE items[j].child
                  /\ new[j].next = IF head # 0 /\ last # 0 /\ j = last THEN n ELSE items[j].next
                  /\ new[j].prev = IF head # 0 /\ last # 0 /\ j = head THEN n ELSE items[j].prev
      <3>1. j \in 1..n /\ j # n /\ list[j] = items[j]
        BY <1>2, <2>5, <2>9
      <3> QED
        BY <2>8, <3>1
    <2>11. /\ new[n].live /\ new[n].type = "string"
           /\ new[n].string # <<>> /\ new[n].valuestring # <<>>
           /\ new[n].next = 0 /\ new[n].child = 0
           /\ new[n].prev = IF head = 0 THEN n ELSE last
      <3>1. n \in 1..n /\ n # root /\ (head # 0 => n # last) /\ n # head
        BY <1>2, <2>6, <2>9
      <3> QED
        BY <2>2, <2>5, <2>6, <2>8, <3>1
    <2>12. /\ UNCHANGED <<misused, text, offset, stack, root, target, fails>>
           /\ pc = "tree" /\ pc' = "tree" /\ strings' = strings + 2
      BY <1>1, <1>4
    <2>13. items' \in Seq(Item) /\ Len(items') = n
      BY <2>3, <2>8
    <2>14. /\ items'[n].live /\ items'[n].type = "string"
           /\ items'[n].string # <<>> /\ items'[n].valuestring # <<>>
           /\ items'[n].next = 0 /\ items'[n].child = 0
           /\ items'[n].prev = IF head = 0 THEN n ELSE last
      BY <2>3, <2>11
    <2>15. \A j \in 1..Len(items) :
             /\ items'[j].live = items[j].live /\ items'[j].type = items[j].type
             /\ items'[j].string = items[j].string /\ items'[j].valuestring = items[j].valuestring
             /\ items'[j].child = IF head = 0 /\ j = root THEN n ELSE items[j].child
             /\ items'[j].next = IF head # 0 /\ last # 0 /\ j = last THEN n ELSE items[j].next
             /\ items'[j].prev = IF head # 0 /\ last # 0 /\ j = head THEN n ELSE items[j].prev
      BY <2>3, <2>10
    <2> QED
      BY <2>12, <2>13, <2>14, <2>15, SMTT(60) DEF AddStep, n, head, last
  <1> QED
    BY <1>1, <1>3, <1>4

LEMMA PrintIs ==
  ASSUME PlaceOK, PrintTree \/ PrintStep
  PROVE  QuietStep
  <1>1. fails \in Nat
    BY DEF PlaceOK, TypeOK
  <1>2. CASE PrintTree
    BY <1>1, <1>2 DEF PrintTree, StartPrint, Refused, QuietStep, Still, Printing
  <1>3. CASE PrintCall
    BY <1>1, <1>3 DEF PrintCall, tree, parser, QuietStep, Still
  <1>4. CASE PrintWrite
    <2>1. /\ pc = "print" /\ UNCHANGED <<items, strings, misused, text, offset, stack, root, target>>
          /\ UNCHANGED fails \/ Refused
          /\ pc' = pc \/ pc' = "unprinted"
      BY <1>4 DEF PrintWrite, Unprinted
    <2> QED
      BY <1>1, <2>1 DEF Refused, QuietStep, Still, Printing
  <1>5. CASE PrintDone
    BY <1>1, <1>5 DEF PrintDone, Unprinted, Refused, QuietStep, Still, Printing
  <1> QED
    BY <1>2, <1>3, <1>4, <1>5 DEF PrintStep

Effect ==
  \/ QuietStep \/ FailStep \/ RootStep \/ ValueStep \/ NameStep \/ PushStep \/ ElementStep
  \/ CommaStep \/ CloseStep \/ PopStep \/ ClearStep \/ AddStep

LEMMA EffectIs ==
  ASSUME PlaceOK, PrintOK, [Next]_vars
  PROVE  Effect
  <1>1. CASE Create
    BY <1>1, CreateIs DEF Effect
  <1>2. CASE Add
    BY <1>2, AddIs DEF Effect
  <1>3. CASE PrintTree \/ PrintStep
    BY <1>3, PrintIs DEF Effect
  <1>4. CASE DeleteTree
    BY <1>4, DeleteIs DEF Effect
  <1>5. CASE ParseStep
    BY <1>5, StartIs, LiteralIs, StringIs, NumberIs, OpenIs, NoValueIs, ElementIs, NameIs, AfterIs,
       UnwindIs DEF ParseStep, Parse, Effect
  <1>6. CASE UNCHANGED vars
    <2>1. fails \in Nat
      BY DEF PlaceOK, TypeOK
    <2> QED
      BY <1>6, <2>1 DEF vars, tree, parser, QuietStep, Still, Effect
  <1> QED
    BY <1>1, <1>2, <1>3, <1>4, <1>5, <1>6 DEF Next

-----------------------------------------------------------------------------
(***************************************************************************)
(* The types, the places and the links are kept.                           *)
(***************************************************************************)
LEMMA PlaceQuiet ==
  ASSUME PlaceOK, QuietStep \/ FailStep \/ CommaStep
  PROVE  PlaceOK'
  <1>0. TypeOK /\ TextOK /\ LinksOK /\ FrameOK /\ PhaseOK /\ FreshOK
    BY DEF PlaceOK
  <1>1. /\ UNCHANGED <<strings, misused, text, stack, root, items, offset, target>> /\ fails' \in Nat
        /\ \/ pc' = pc
           \/ pc = "create" /\ pc' = "failed"
           \/ pc \in Printing /\ pc' \in Printing
           \/ pc \in Parsing \cup {"parse"} /\ pc' = "unwind"
           \/ pc = "after" /\ pc' = "element" /\ offset + 1 < Len(text)
    BY <1>0 DEF QuietStep, FailStep, CommaStep, Still, TypeOK
  <1>2. TypeOK'
    BY <1>0, <1>1 DEF TypeOK, Starting, Parsing, Unwinding, Complete, Printing
  <1>3. TextOK'
    BY <1>0, <1>1 DEF TextOK, Parsing, Printing
  <1>4. LinksOK'
    BY <1>0, <1>1 DEF LinksOK
  <1>5. FrameOK'
    <2>1. pc' \in {"value", "name", "after"} => pc \in {"value", "name", "after"}
      BY <1>1 DEF Printing
    <2> QED
      BY <1>0, <1>1, <2>1 DEF FrameOK
  <1>6. PhaseOK'
    BY <1>0, <1>1 DEF PhaseOK, Parsing, Starting, Complete, Printing
  <1>7. FreshOK'
    BY <1>0, <1>1 DEF FreshOK, Printing
  <1> QED
    BY <1>2, <1>3, <1>4, <1>5, <1>6, <1>7 DEF PlaceOK

LEMMA PlaceRoot ==
  ASSUME PlaceOK, RootStep
  PROVE  PlaceOK'
  <1> DEFINE n == Len(items) + 1
  <1>0. TypeOK /\ TextOK /\ LinksOK /\ FrameOK /\ PhaseOK
    BY DEF PlaceOK
  <1>1. /\ UNCHANGED <<strings, misused, text, stack>> /\ fails' \in Nat
        /\ items' \in Seq(Item) /\ Len(items') = n
        /\ \A j \in 1..Len(items) : items'[j] = items[j]
        /\ items'[n].string = <<>> /\ items'[n].valuestring = <<>>
        /\ items'[n].next = 0 /\ items'[n].prev = 0 /\ items'[n].child = 0
        /\ root' = n /\ target' \in Nat /\ offset' \in Nat
        /\ \/ pc = "create" /\ pc' = "tree"
           \/ pc = "parse" /\ pc' = "value" /\ target' = n /\ offset' < Len(text)
    BY DEF RootStep
  <1>2. Len(items) \in Nat /\ stack = <<>> /\ n \in Nat /\ text \in Seq(Char) /\ stack \in Seq(Frame)
    BY <1>0, <1>1 DEF TypeOK, PhaseOK, Starting
  <1>3. TypeOK'
    BY <1>1, <1>2 DEF TypeOK, Starting, Parsing, Unwinding, Complete
  <1>4. TextOK'
    BY <1>0, <1>1 DEF TextOK, Parsing
  <1>5. LinksOK'
    <2>1. ASSUME NEW i \in 1..n
          PROVE  /\ items'[i].next # 0 => i < items'[i].next /\ items'[i].next <= n
                 /\ items'[i].child # 0 => i < items'[i].child /\ items'[i].child <= n
                 /\ items'[i].prev <= n
      <3>1. CASE i = n
        BY <1>1, <1>2, <3>1
      <3>2. CASE i # n
        <4>1. i \in 1..Len(items) /\ items'[i] = items[i]
          BY <1>1, <1>2, <3>2
        <4>2. items[i] \in Item
          BY <1>0, <4>1 DEF TypeOK
        <4>3. items[i].next \in Nat /\ items[i].child \in Nat /\ items[i].prev \in Nat
          BY <4>2, ItemFields
        <4>4. /\ items[i].next # 0 => i < items[i].next /\ items[i].next <= Len(items)
              /\ items[i].child # 0 => i < items[i].child /\ items[i].child <= Len(items)
              /\ items[i].prev <= Len(items)
          BY <1>0, <4>1 DEF LinksOK
        <4> QED
          BY <1>2, <4>1, <4>3, <4>4
      <3> QED
        BY <3>1, <3>2
    <2> QED
      BY <1>1, <2>1 DEF LinksOK
  <1>6. FrameOK'
    BY <1>1, <1>2 DEF FrameOK
  <1>7. PhaseOK'
    BY <1>1, <1>2 DEF PhaseOK, Parsing, Starting, Complete
  <1>8. FreshOK'
    BY <1>1 DEF FreshOK
  <1> QED
    BY <1>3, <1>4, <1>5, <1>6, <1>7, <1>8 DEF PlaceOK

\* A list with the same links.
LEMMA LinksSame ==
  ASSUME LinksOK, Relabels(items, items', target)
  PROVE  LinksOK'
  BY DEF LinksOK, Relabels

LEMMA PlaceValue ==
  ASSUME PlaceOK, ValueStep
  PROVE  PlaceOK'
  <1>0. TypeOK /\ TextOK /\ LinksOK /\ FrameOK /\ PhaseOK
    BY DEF PlaceOK
  <1>1. /\ UNCHANGED <<text, stack, root, target>> /\ fails' \in Nat
        /\ pc = "value" /\ pc' = IF stack = <<>> THEN "tree" ELSE "after"
        /\ Relabels(items, items', target)
        /\ offset' \in Nat /\ offset' < Len(text)
    BY DEF ValueStep
  <1>2. items' \in Seq(Item) /\ Len(items') = Len(items)
    BY <1>1 DEF Relabels
  <1>3. TypeOK'
    BY <1>0, <1>1, <1>2 DEF TypeOK, Starting, Parsing, Unwinding, Complete
  <1>4. TextOK'
    BY <1>0, <1>1 DEF TextOK, Parsing
  <1>5. LinksOK'
    BY <1>0, <1>1, LinksSame
  <1>6. FrameOK'
    BY <1>0, <1>1, <1>2 DEF FrameOK
  <1>7. PhaseOK'
    BY <1>0, <1>1, <1>2 DEF PhaseOK, Parsing, Starting, Complete
  <1>8. FreshOK'
    BY <1>1 DEF FreshOK
  <1> QED
    BY <1>3, <1>4, <1>5, <1>6, <1>7, <1>8 DEF PlaceOK

LEMMA PlaceName ==
  ASSUME PlaceOK, NameStep
  PROVE  PlaceOK'
  <1>0. TypeOK /\ TextOK /\ LinksOK /\ FrameOK /\ PhaseOK /\ FreshOK
    BY DEF PlaceOK
  <1>1. /\ UNCHANGED <<text, stack, root, target>> /\ fails' \in Nat
        /\ pc = "name" /\ pc' \in {"value", "unwind"}
        /\ Relabels(items, items', target)
        /\ items'[target].valuestring = items[target].valuestring
        /\ offset' \in Nat /\ offset' < Len(text)
    BY DEF NameStep
  <1>2. items' \in Seq(Item) /\ Len(items') = Len(items)
    BY <1>1 DEF Relabels
  <1>3. TypeOK'
    BY <1>0, <1>1, <1>2 DEF TypeOK, Starting, Parsing, Unwinding, Complete
  <1>4. TextOK'
    BY <1>0, <1>1 DEF TextOK, Parsing
  <1>5. LinksOK'
    BY <1>0, <1>1, LinksSame
  <1>6. FrameOK'
    BY <1>0, <1>1, <1>2 DEF FrameOK
  <1>7. PhaseOK'
    BY <1>0, <1>1, <1>2 DEF PhaseOK, Parsing, Starting, Complete
  <1>8. FreshOK'
    <2>1. target \in 1..Len(items)
      BY <1>1, TargetIs
    <2> QED
      BY <1>0, <1>1, <2>1 DEF FreshOK, Relabels
  <1> QED
    BY <1>3, <1>4, <1>5, <1>6, <1>7, <1>8 DEF PlaceOK

LEMMA PlacePush ==
  ASSUME PlaceOK, PushStep
  PROVE  PlaceOK'
  <1>0. TypeOK /\ TextOK /\ LinksOK /\ FrameOK /\ PhaseOK
    BY DEF PlaceOK
  <1>1. /\ UNCHANGED <<items, text, root, target>> /\ fails' \in Nat
        /\ pc = "value" /\ pc' = "element"
        /\ offset' \in Nat /\ offset' + 1 < Len(text)
    BY DEF PushStep
  <1>2. PICK kind \in {LBracket, LBrace} :
          stack' = Append(stack, [kind |-> kind, item |-> target, head |-> 0, cur |-> 0])
    BY DEF PushStep
  <1> DEFINE top == [kind |-> kind, item |-> target, head |-> 0, cur |-> 0]
             m == Len(stack)
  <1>3. target \in 1..Len(items) /\ Len(items) \in Nat
    BY <1>1, TargetIs
  <1>4. top \in Frame /\ top.item = target /\ top.head = 0 /\ top.cur = 0
    BY <1>3 DEF Frame
  <1>5. stack \in Seq(Frame) /\ m \in Nat /\ root \in Nat /\ Len(text) \in Nat
    BY <1>0 DEF TypeOK
  <1>6. stack' = Append(stack, top)
    BY <1>2
  <1> HIDE DEF top
  <1>7. /\ stack' \in Seq(Frame) /\ Len(stack') = m + 1 /\ stack'[m + 1] = top
        /\ \A k \in 1..m : stack'[k] = stack[k]
    BY <1>4, <1>5, <1>6, SeqAppend
  <1>8. TypeOK'
    BY <1>0, <1>1, <1>7 DEF TypeOK, Starting, Parsing, Unwinding, Complete
  <1>9. TextOK'
    BY <1>0, <1>1, <1>5 DEF TextOK, Parsing
  <1>10. LinksOK'
    BY <1>0, <1>1 DEF LinksOK
  <1>11. root <= target /\ root >= 1 /\ \A j \in 1..m : stack[j].cur <= target
    <2>1. root >= 1
      BY <1>0, <1>1 DEF PhaseOK, Parsing
    <2>2. CASE stack = <<>>
      <3>1. target = root /\ m = 0
        BY <1>0, <1>1, <2>2 DEF PhaseOK
      <3> QED
        BY <1>5, <2>1, <3>1
    <2>3. CASE stack # <<>>
      <3>1. target = stack[m].cur /\ m \in 1..m
        BY <1>0, <1>1, <2>3, TopIs DEF PhaseOK
      <3>2. ASSUME NEW j \in 1..m
            PROVE  /\ stack[j].item \in Nat /\ stack[j].head \in Nat /\ stack[j].cur \in Nat
                   /\ root <= stack[j].item
                   /\ stack[j].item < stack[j].head /\ stack[j].head <= stack[j].cur
                   /\ \A k \in 1..j - 1 : stack[k].cur <= stack[j].item
        <4>1. stack[j] \in Frame
          BY <1>5
        <4>2. stack[j].head # 0 /\ root <= stack[j].item
          BY <1>0, <1>1 DEF FrameOK
        <4>3. stack[j].item < stack[j].head /\ stack[j].head <= stack[j].cur
          BY <1>0, <4>2 DEF FrameOK
        <4>4. \A k \in 1..j - 1 : stack[k].cur <= stack[j].item
          BY <1>0 DEF FrameOK
        <4> QED
          BY <4>1, <4>2, <4>3, <4>4, FrameFields
      <3>3. ASSUME NEW j \in 1..m PROVE stack[j].cur <= target
        <4>1. CASE j = m
          BY <3>1, <3>2, <4>1
        <4>2. CASE j # m
          <5>1. j \in 1..m - 1
            BY <1>5, <4>2
          <5>2. stack[j].cur <= stack[m].item /\ stack[m].item < stack[m].head /\ stack[m].head <= stack[m].cur
            BY <3>1, <3>2, <5>1
          <5>3. stack[j].cur \in Nat /\ stack[m].item \in Nat /\ stack[m].head \in Nat /\ stack[m].cur \in Nat
            BY <3>1, <3>2
          <5> QED
            BY <3>1, <5>2, <5>3
        <4> QED
          BY <4>1, <4>2
      <3>4. root <= stack[m].item /\ stack[m].item < stack[m].head /\ stack[m].head <= stack[m].cur
        BY <3>1, <3>2
      <3>5. stack[m].item \in Nat /\ stack[m].head \in Nat /\ stack[m].cur \in Nat
        BY <3>1, <3>2
      <3>6. root <= target
        BY <1>5, <3>1, <3>4, <3>5
      <3> QED
        BY <2>1, <3>3, <3>6
    <2> QED
      BY <2>2, <2>3
  <1>12. FrameOK'
    <2>1. ASSUME NEW k \in 1..m + 1
          PROVE  /\ stack'[k].item >= 1 /\ stack'[k].item <= Len(items) /\ stack'[k].cur <= Len(items)
                 /\ root >= 1 /\ root <= stack'[k].item
                 /\ stack'[k].head # 0 =>
                      stack'[k].item < stack'[k].head /\ stack'[k].head <= stack'[k].cur
                 /\ stack'[k].head = 0 => stack'[k].cur = 0
                 /\ k < m + 1 => stack'[k].head # 0
                 /\ \A j \in 1..k - 1 : stack'[j].cur <= stack'[k].item
      <3>1. CASE k = m + 1
        <4>1. ASSUME NEW j \in 1..k - 1 PROVE stack'[j].cur <= stack'[k].item
          <5>1. j \in 1..m
            BY <1>5, <3>1
          <5> QED
            BY <1>4, <1>7, <1>11, <3>1, <5>1
        <4> QED
          BY <1>3, <1>4, <1>7, <1>11, <3>1, <4>1
      <3>2. CASE k # m + 1
        <4>1. k \in 1..m /\ stack'[k] = stack[k] /\ \A j \in 1..k - 1 : stack'[j] = stack[j]
          BY <1>5, <1>7, <3>2
        <4> QED
          BY <1>0, <1>1, <4>1 DEF FrameOK
      <3> QED
        BY <3>1, <3>2
    <2> QED
      BY <1>1, <1>7, <2>1 DEF FrameOK
  <1>13. PhaseOK'
    <2>1. stack' # <<>>
      BY <1>5, <1>7
    <2> QED
      BY <1>0, <1>1, <2>1 DEF PhaseOK, Parsing, Starting, Complete
  <1>14. FreshOK'
    BY <1>1 DEF FreshOK
  <1> QED
    BY <1>8, <1>9, <1>10, <1>12, <1>13, <1>14 DEF PlaceOK

\* One frame of the stack.
LEMMA FrameIs ==
  ASSUME PlaceOK, NEW k \in 1..Len(stack)
  PROVE  /\ stack[k] \in Frame /\ stack[k].kind \in {LBracket, LBrace}
         /\ stack[k].item \in Nat /\ stack[k].head \in Nat /\ stack[k].cur \in Nat
         /\ stack[k].item \in 1..Len(items) /\ stack[k].cur <= Len(items)
         /\ root >= 1 /\ root <= stack[k].item
         /\ stack[k].head # 0 =>
              /\ stack[k].item < stack[k].head /\ stack[k].head <= stack[k].cur
              /\ stack[k].head \in 1..Len(items) /\ stack[k].cur \in 1..Len(items)
         /\ stack[k].head = 0 => stack[k].cur = 0 /\ k = Len(stack)
         /\ \A j \in 1..k - 1 : stack[j].cur <= stack[k].item
  <1>1. stack \in Seq(Frame) /\ Len(items) \in Nat /\ Len(stack) \in Nat
    BY DEF PlaceOK, TypeOK
  <1>2. stack[k] \in Frame
    BY <1>1
  <1>3. /\ stack[k].kind \in {LBracket, LBrace}
        /\ stack[k].item \in Nat /\ stack[k].head \in Nat /\ stack[k].cur \in Nat
    BY <1>2, FrameFields
  <1>4. /\ stack[k].item >= 1 /\ stack[k].item <= Len(items) /\ stack[k].cur <= Len(items)
        /\ root >= 1 /\ root <= stack[k].item
        /\ stack[k].head # 0 => stack[k].item < stack[k].head /\ stack[k].head <= stack[k].cur
        /\ stack[k].head = 0 => stack[k].cur = 0
        /\ k < Len(stack) => stack[k].head # 0
        /\ \A j \in 1..k - 1 : stack[j].cur <= stack[k].item
    BY DEF PlaceOK, FrameOK
  <1> PICK it, hd, cu : it = stack[k].item /\ hd = stack[k].head /\ cu = stack[k].cur
    OBVIOUS
  <1>5. /\ it \in 1..Len(items)
        /\ hd # 0 => hd \in 1..Len(items) /\ cu \in 1..Len(items)
    BY <1>1, <1>3, <1>4
  <1>6. ~(k < Len(stack)) => k = Len(stack)
    BY <1>1
  <1> QED
    BY <1>2, <1>3, <1>4, <1>5, <1>6

\* One item.
LEMMA ItemIs ==
  ASSUME PlaceOK, NEW i \in 1..Len(items)
  PROVE  /\ items[i] \in Item /\ items[i].live \in BOOLEAN
         /\ items[i].next \in Nat /\ items[i].child \in Nat /\ items[i].prev \in Nat
         /\ items[i].next # 0 => i < items[i].next /\ items[i].next \in 1..Len(items)
         /\ items[i].child # 0 => i < items[i].child /\ items[i].child \in 1..Len(items)
         /\ items[i].prev <= Len(items)
  <1>1. items \in Seq(Item) /\ Len(items) \in Nat
    BY DEF PlaceOK, TypeOK
  <1>2. items[i] \in Item
    BY <1>1
  <1>3. /\ items[i].next # 0 => i < items[i].next /\ items[i].next <= Len(items)
        /\ items[i].child # 0 => i < items[i].child /\ items[i].child <= Len(items)
        /\ items[i].prev <= Len(items)
    BY DEF PlaceOK, LinksOK
  <1>4. /\ items[i].live \in BOOLEAN
        /\ items[i].next \in Nat /\ items[i].child \in Nat /\ items[i].prev \in Nat
    BY <1>2, ItemFields
  <1> PICK a, b : a = items[i].next /\ b = items[i].child
    OBVIOUS
  <1>5. (a # 0 => a \in 1..Len(items)) /\ (b # 0 => b \in 1..Len(items))
    BY <1>1, <1>3, <1>4
  <1> QED
    BY <1>2, <1>3, <1>4, <1>5

LEMMA PlaceElement ==
  ASSUME PlaceOK, ElementStep
  PROVE  PlaceOK'
  <1> DEFINE n == Len(items) + 1
             m == Len(stack)
             frame == stack[m]
  <1>0. TypeOK /\ TextOK /\ LinksOK /\ FrameOK /\ PhaseOK
    BY DEF PlaceOK
  <1>1. /\ UNCHANGED <<text, root>> /\ fails' \in Nat
        /\ pc = "element" /\ pc' \in {"unwind", "name", "value"}
        /\ (pc' = "name" => frame.kind = LBrace)
        /\ items' \in Seq(Item) /\ Len(items') = n
        /\ target' = n /\ offset' \in Nat /\ offset' < Len(text)
    BY DEF ElementStep
  <1>2. /\ items'[n].string = <<>> /\ items'[n].valuestring = <<>>
        /\ items'[n].next = 0 /\ items'[n].child = 0
        /\ items'[n].prev = IF frame.head = 0 THEN 0 ELSE frame.cur
        /\ \A j \in 1..Len(items) :
             /\ items'[j].prev = items[j].prev /\ items'[j].child = items[j].child
             /\ items'[j].next = IF frame.head # 0 /\ j = frame.cur THEN n ELSE items[j].next
    BY DEF ElementStep
  <1>3. /\ stack' \in Seq(Frame) /\ Len(stack') = m
        /\ \A k \in 1..m - 1 : stack'[k] = stack[k]
        /\ stack'[m].kind = frame.kind /\ stack'[m].item = frame.item
        /\ stack'[m].head = (IF frame.head = 0 THEN n ELSE frame.head) /\ stack'[m].cur = n
    BY DEF ElementStep
  <1>4. m \in Nat /\ m >= 1 /\ m \in 1..m /\ Len(items) \in Nat /\ stack # <<>> /\ stack' # <<>>
    <2>1. stack # <<>>
      BY <1>0, <1>1 DEF PhaseOK
    <2> QED
      BY <1>0, <1>3, <2>1, TopIs DEF TypeOK
  <1>5. /\ frame.item \in 1..Len(items) /\ frame.cur \in Nat /\ frame.head \in Nat
        /\ frame.cur <= Len(items) /\ root >= 1 /\ root <= frame.item
        /\ frame.head # 0 => frame.item < frame.head /\ frame.head <= Len(items) /\ frame.cur \in 1..Len(items)
        /\ \A j \in 1..m - 1 : stack[j].cur <= frame.item
    BY <1>4, FrameIs
  <1> HIDE DEF frame, m
  <1>6. TypeOK'
    <2>1. target' \in Nat
      BY <1>1, <1>4
    <2> QED
      BY <1>0, <1>1, <1>3, <2>1 DEF TypeOK, Starting, Parsing, Unwinding, Complete
  <1>7. TextOK'
    BY <1>0, <1>1 DEF TextOK, Parsing
  <1>8. LinksOK'
    <2>1. ASSUME NEW i \in 1..n
          PROVE  /\ items'[i].next # 0 => i < items'[i].next /\ items'[i].next <= n
                 /\ items'[i].child # 0 => i < items'[i].child /\ items'[i].child <= n
                 /\ items'[i].prev <= n
      <3>1. CASE i = n
        BY <1>2, <1>4, <1>5, <3>1
      <3>2. CASE i # n
        <4>1. i \in 1..Len(items)
          BY <1>4, <3>2
        <4>2. /\ items[i].next \in Nat /\ items[i].child \in Nat /\ items[i].prev \in Nat
              /\ items[i].next # 0 => i < items[i].next /\ items[i].next \in 1..Len(items)
              /\ items[i].child # 0 => i < items[i].child /\ items[i].child \in 1..Len(items)
              /\ items[i].prev <= Len(items)
          BY <4>1, ItemIs
        <4>3. /\ items'[i].prev = items[i].prev /\ items'[i].child = items[i].child
              /\ items'[i].next = n \/ items'[i].next = items[i].next
          BY <1>2, <4>1
        <4> QED
          BY <1>4, <4>1, <4>2, <4>3
      <3> QED
        BY <3>1, <3>2
    <2> QED
      BY <1>1, <2>1 DEF LinksOK
  <1>9. FrameOK'
    <2>1. ASSUME NEW k \in 1..m
          PROVE  /\ stack'[k].item >= 1 /\ stack'[k].item <= n /\ stack'[k].cur <= n
                 /\ root >= 1 /\ root <= stack'[k].item
                 /\ stack'[k].head # 0
                 /\ stack'[k].item < stack'[k].head /\ stack'[k].head <= stack'[k].cur
                 /\ \A j \in 1..k - 1 : stack'[j].cur <= stack'[k].item
      <3>1. CASE k = m
        <4>1. ASSUME NEW j \in 1..k - 1 PROVE stack'[j].cur <= stack'[k].item
          <5>1. stack'[j] = stack[j] /\ stack[j].cur <= frame.item
            BY <1>3, <1>5, <3>1
          <5> QED
            BY <1>3, <3>1, <5>1
        <4>2. stack'[k].head = n \/ (frame.head # 0 /\ stack'[k].head = frame.head)
          BY <1>3, <3>1
        <4>3. stack'[k].item = frame.item /\ stack'[k].cur = n
          BY <1>3, <3>1
        <4> QED
          BY <1>4, <1>5, <4>1, <4>2, <4>3
      <3>2. CASE k # m
        <4>1. k \in 1..m - 1 /\ k \in 1..Len(stack) /\ k # Len(stack)
          BY <1>4, <3>2 DEF m
        <4>2. stack'[k] = stack[k] /\ \A j \in 1..k - 1 : stack'[j] = stack[j]
          BY <1>3, <1>4, <4>1
        <4>3. /\ stack[k].item \in 1..Len(items) /\ stack[k].cur \in Nat /\ stack[k].cur <= Len(items)
              /\ root >= 1 /\ root <= stack[k].item /\ stack[k].head # 0
              /\ stack[k].item < stack[k].head /\ stack[k].head <= stack[k].cur
              /\ \A j \in 1..k - 1 : stack[j].cur <= stack[k].item
          BY <4>1, FrameIs
        <4> QED
          BY <1>4, <4>2, <4>3
      <3> QED
        BY <3>1, <3>2
    <2> QED
      BY <1>1, <1>3, <2>1 DEF FrameOK
  <1>10. PhaseOK'
    <2>1. Last(stack') = stack'[m]
      BY <1>3, <1>4 DEF Last
    <2>2. root <= n
      BY <1>0, <1>4, <1>5 DEF TypeOK
    <2> QED
      BY <1>0, <1>1, <1>3, <1>4, <1>5, <2>1, <2>2 DEF PhaseOK, Parsing, Starting, Complete
  <1>11. FreshOK'
    BY <1>1, <1>2 DEF FreshOK
  <1> QED
    BY <1>6, <1>7, <1>8, <1>9, <1>10, <1>11 DEF PlaceOK

\* The stack without its top frame.
LEMMA FramesBelow ==
  ASSUME PlaceOK, NEW m, m = Len(stack), stack # <<>>, stack' \in Seq(Frame), Len(stack') = m - 1,
         \A k \in 1..m - 1 : stack'[k] = stack[k], Len(items') = Len(items), root' = root
  PROVE  FrameOK'
  <1>0. m \in Nat
    BY DEF PlaceOK, TypeOK
  <1>1. ASSUME NEW k \in 1..m - 1
        PROVE  /\ stack'[k].item >= 1 /\ stack'[k].item <= Len(items) /\ stack'[k].cur <= Len(items)
               /\ root >= 1 /\ root <= stack'[k].item
               /\ stack'[k].head # 0
               /\ stack'[k].item < stack'[k].head /\ stack'[k].head <= stack'[k].cur
               /\ \A j \in 1..k - 1 : stack'[j].cur <= stack'[k].item
    <2>1. k \in 1..Len(stack) /\ k # Len(stack)
      BY <1>0
    <2>2. stack'[k] = stack[k] /\ \A j \in 1..k - 1 : stack'[j] = stack[j]
      BY <1>0
    <2>3. /\ stack[k].item \in 1..Len(items) /\ stack[k].cur <= Len(items)
          /\ root >= 1 /\ root <= stack[k].item /\ stack[k].head # 0
          /\ stack[k].item < stack[k].head /\ stack[k].head <= stack[k].cur
          /\ \A j \in 1..k - 1 : stack[j].cur <= stack[k].item
      BY <2>1, FrameIs
    <2> QED
      BY <2>2, <2>3
  <1> QED
    BY <1>1 DEF FrameOK

LEMMA PlaceClose ==
  ASSUME PlaceOK, CloseStep
  PROVE  PlaceOK'
  <1> DEFINE m == Len(stack)
             frame == stack[m]
  <1>0. TypeOK /\ TextOK /\ LinksOK /\ FrameOK /\ PhaseOK
    BY DEF PlaceOK
  <1>1. /\ UNCHANGED <<text, root, target, fails>>
        /\ pc = "after" /\ pc' = IF m = 1 THEN "tree" ELSE "after"
        /\ items' \in Seq(Item) /\ Len(items') = Len(items)
        /\ stack' \in Seq(Frame) /\ Len(stack') = m - 1
        /\ \A k \in 1..m - 1 : stack'[k] = stack[k]
        /\ offset' \in Nat /\ offset' < Len(text)
    BY DEF CloseStep
  <1>2. \A j \in 1..Len(items) :
             /\ items'[j].next = items[j].next
             /\ items'[j].prev = IF j = frame.head THEN frame.cur ELSE items[j].prev
             /\ items'[j].child = IF j = frame.item THEN frame.head ELSE items[j].child
    BY DEF CloseStep
  <1>3. m \in Nat /\ m >= 1 /\ m \in 1..m /\ Len(items) \in Nat /\ stack # <<>>
    <2>1. stack # <<>>
      BY <1>0, <1>1 DEF PhaseOK
    <2> QED
      BY <1>0, <2>1, TopIs DEF TypeOK
  <1>4. stack' = <<>> <=> m = 1
    BY <1>1, <1>3
  <1>5. /\ frame.item \in 1..Len(items) /\ frame.cur \in Nat /\ frame.head \in Nat
        /\ frame.cur <= Len(items)
        /\ frame.head # 0 => frame.item < frame.head /\ frame.head <= Len(items)
    BY <1>3, FrameIs
  <1>6. TypeOK'
    BY <1>0, <1>1 DEF TypeOK, Starting, Parsing, Unwinding, Complete
  <1>7. TextOK'
    BY <1>0, <1>1 DEF TextOK, Parsing
  <1>8. LinksOK'
    <2>1. ASSUME NEW i \in 1..Len(items)
          PROVE  /\ items'[i].next # 0 => i < items'[i].next /\ items'[i].next <= Len(items)
                 /\ items'[i].child # 0 => i < items'[i].child /\ items'[i].child <= Len(items)
                 /\ items'[i].prev <= Len(items)
      <3>1. /\ items[i].next # 0 => i < items[i].next /\ items[i].next <= Len(items)
            /\ items[i].child # 0 => i < items[i].child /\ items[i].child <= Len(items)
            /\ items[i].prev <= Len(items)
        BY <1>0 DEF LinksOK
      <3>2. /\ items'[i].next = items[i].next
            /\ items'[i].prev = frame.cur \/ items'[i].prev = items[i].prev
            /\ (i = frame.item /\ items'[i].child = frame.head) \/ items'[i].child = items[i].child
        BY <1>2
      <3> HIDE DEF frame
      <3> QED
        BY <1>5, <3>1, <3>2
    <2> QED
      BY <1>1, <2>1 DEF LinksOK
  <1>9. FrameOK'
    BY <1>1, <1>3, FramesBelow
  <1>10. PhaseOK'
    BY <1>0, <1>1, <1>4 DEF PhaseOK, Parsing, Starting, Complete
  <1>11. FreshOK'
    BY <1>1 DEF FreshOK
  <1> QED
    BY <1>6, <1>7, <1>8, <1>9, <1>10, <1>11 DEF PlaceOK

LEMMA PlacePop ==
  ASSUME PlaceOK, PopStep
  PROVE  PlaceOK'
  <1> DEFINE m == Len(stack)
  <1>0. TypeOK /\ TextOK /\ LinksOK /\ PhaseOK
    BY DEF PlaceOK
  <1>1. /\ UNCHANGED <<text, root, target, fails, offset>>
        /\ pc = "unwind" /\ pc' = "unwind" /\ stack # <<>>
        /\ items' \in Seq(Item) /\ Len(items') = Len(items)
        /\ stack' \in Seq(Frame) /\ Len(stack') = m - 1
        /\ \A k \in 1..m - 1 : stack'[k] = stack[k]
        /\ \A j \in 1..Len(items) :
             /\ items'[j].next = items[j].next /\ items'[j].prev = items[j].prev
             /\ items'[j].child = items[j].child
    BY DEF PopStep, FreeStep
  <1>2. TypeOK'
    BY <1>0, <1>1 DEF TypeOK
  <1>3. TextOK'
    BY <1>0, <1>1 DEF TextOK, Parsing
  <1>4. LinksOK'
    BY <1>0, <1>1 DEF LinksOK
  <1>5. FrameOK'
    BY <1>1, FramesBelow
  <1>6. PhaseOK'
    BY <1>0, <1>1 DEF PhaseOK, Parsing, Starting, Complete
  <1>7. FreshOK'
    BY <1>1 DEF FreshOK
  <1> QED
    BY <1>2, <1>3, <1>4, <1>5, <1>6, <1>7 DEF PlaceOK

LEMMA PlaceClear ==
  ASSUME PlaceOK, ClearStep
  PROVE  PlaceOK'
  <1>0. TypeOK /\ TextOK /\ LinksOK /\ PhaseOK
    BY DEF PlaceOK
  <1>1. /\ UNCHANGED <<target, fails, offset>> /\ stack' = <<>> /\ root' = 0
        /\ items' \in Seq(Item) /\ Len(items') = Len(items)
        /\ \A j \in 1..Len(items) :
             /\ items'[j].next = items[j].next /\ items'[j].prev = items[j].prev
             /\ items'[j].child = items[j].child
        /\ \/ pc = "unwind" /\ pc' = "failed" /\ text' = text
           \/ pc \in Printing /\ pc' = "deleted" /\ text' = text
           \/ /\ pc = "printed" /\ pc' = "parse"
              /\ text' \in Seq(Char) /\ text' # <<>> /\ text'[Len(text')] = 0
    BY DEF ClearStep, FreeStep
  <1>2. TypeOK'
    BY <1>0, <1>1 DEF TypeOK, Starting, Parsing, Unwinding, Complete
  <1>3. TextOK'
    BY <1>0, <1>1 DEF TextOK, Parsing
  <1>4. LinksOK'
    BY <1>0, <1>1 DEF LinksOK
  <1>5. FrameOK'
    BY <1>1 DEF FrameOK
  <1>6. PhaseOK'
    <2>1. Len(items') \in Nat
      BY <1>1
    <2> QED
      BY <1>1, <2>1 DEF PhaseOK, Parsing, Starting, Complete
  <1>7. FreshOK'
    BY <1>1 DEF FreshOK
  <1> QED
    BY <1>2, <1>3, <1>4, <1>5, <1>6, <1>7 DEF PlaceOK

LEMMA PlaceAdd ==
  ASSUME PlaceOK, AddStep
  PROVE  PlaceOK'
  <1> DEFINE n == Len(items) + 1
             head == items[root].child
             last == items[head].prev
  <1>0. TypeOK /\ TextOK /\ LinksOK /\ PhaseOK
    BY DEF PlaceOK
  <1>1. /\ UNCHANGED <<text, offset, stack, root, target, fails>>
        /\ pc = "tree" /\ pc' = "tree"
        /\ items' \in Seq(Item) /\ Len(items') = n
        /\ items'[n].next = 0 /\ items'[n].child = 0
        /\ items'[n].prev = IF head = 0 THEN n ELSE last
        /\ \A j \in 1..Len(items) :
             /\ items'[j].child = IF head = 0 /\ j = root THEN n ELSE items[j].child
             /\ items'[j].next = IF head # 0 /\ last # 0 /\ j = last THEN n ELSE items[j].next
             /\ items'[j].prev = IF head # 0 /\ last # 0 /\ j = head THEN n ELSE items[j].prev
    BY DEF AddStep
  <1>2. Len(items) \in Nat /\ stack = <<>> /\ root \in Nat /\ root \in 1..Len(items)
    BY <1>0, <1>1 DEF TypeOK, PhaseOK, Complete
  <1>3. head \in Nat /\ (head # 0 => head \in 1..Len(items) /\ last \in Nat /\ last <= Len(items))
    <2>1. head \in Nat /\ (head # 0 => head \in 1..Len(items))
      BY <1>2, ItemIs
    <2> HIDE DEF head
    <2> QED
      BY <2>1, ItemIs
  <1> HIDE DEF head, last
  <1>4. TypeOK'
    BY <1>0, <1>1 DEF TypeOK
  <1>5. TextOK'
    BY <1>0, <1>1 DEF TextOK, Parsing
  <1>6. LinksOK'
    <2>1. ASSUME NEW i \in 1..n
          PROVE  /\ items'[i].next # 0 => i < items'[i].next /\ items'[i].next <= n
                 /\ items'[i].child # 0 => i < items'[i].child /\ items'[i].child <= n
                 /\ items'[i].prev <= n
      <3>1. CASE i = n
        BY <1>1, <1>2, <1>3, <3>1
      <3>2. CASE i # n
        <4>1. i \in 1..Len(items)
          BY <1>2, <3>2
        <4>2. /\ items[i].next \in Nat /\ items[i].child \in Nat /\ items[i].prev \in Nat
              /\ items[i].next # 0 => i < items[i].next /\ items[i].next \in 1..Len(items)
              /\ items[i].child # 0 => i < items[i].child /\ items[i].child \in 1..Len(items)
              /\ items[i].prev <= Len(items)
          BY <4>1, ItemIs
        <4>3. /\ items'[i].prev = n \/ items'[i].prev = items[i].prev
              /\ items'[i].child = n \/ items'[i].child = items[i].child
              /\ items'[i].next = n \/ items'[i].next = items[i].next
          BY <1>1, <4>1
        <4> QED
          BY <1>2, <4>1, <4>2, <4>3
      <3> QED
        BY <3>1, <3>2
    <2> QED
      BY <1>1, <2>1 DEF LinksOK
  <1>7. FrameOK'
    BY <1>1, <1>2 DEF FrameOK
  <1>8. PhaseOK'
    <2>1. root <= n
      BY <1>2
    <2> QED
      BY <1>0, <1>1, <1>2, <2>1 DEF PhaseOK, Parsing, Starting, Complete
  <1>9. FreshOK'
    BY <1>1 DEF FreshOK
  <1> QED
    BY <1>4, <1>5, <1>6, <1>7, <1>8, <1>9 DEF PlaceOK

LEMMA PlaceStep ==
  ASSUME PlaceOK, Effect
  PROVE  PlaceOK'
  BY PlaceQuiet, PlaceRoot, PlaceValue, PlaceName, PlacePush, PlaceElement, PlaceClose, PlacePop,
     PlaceClear, PlaceAdd DEF Effect

LEMMA PlaceInit ==
  ASSUME Init
  PROVE  PlaceOK
  <1>1. /\ items = <<>> /\ fails = 0 /\ stack = <<>> /\ offset = 0 /\ root = 0 /\ target = 0
        /\ \/ (\E t \in Texts : text = Append(t, 0)) /\ pc = "parse"
           \/ text = <<>> /\ pc = "create"
    BY DEF Init, TreeInit
  <1>2. ASSUME NEW t \in Texts, text = Append(t, 0)
        PROVE  text \in Seq(Char) /\ text # <<>> /\ text[Len(text)] = 0
    <2>1. t \in Seq(Char)
      BY SubChars, TextsAssumption
    <2>2. 0 \in Char
      BY DEF Char
    <2> QED
      BY <1>2, <2>1, <2>2, SeqAppend
  <1>3. /\ text \in Seq(Char) /\ (text # <<>> => text[Len(text)] = 0)
        /\ (pc = "parse" /\ text # <<>>) \/ pc = "create"
    <2>1. CASE text = <<>> /\ pc = "create"
      <3>1. text \in Seq(Char)
        BY <2>1
      <3> QED
        BY <2>1, <3>1
    <2>2. CASE (\E t \in Texts : text = Append(t, 0)) /\ pc = "parse"
      BY <1>2, <2>2
    <2> QED
      BY <1>1, <2>1, <2>2
  <1>4. TypeOK
    BY <1>1, <1>3 DEF TypeOK, Starting
  <1>5. TextOK
    BY <1>3 DEF TextOK, Parsing
  <1>6. LinksOK /\ FrameOK /\ PhaseOK /\ FreshOK
    BY <1>1 DEF LinksOK, FrameOK, PhaseOK, FreshOK, Starting, Parsing, Complete
  <1> QED
    BY <1>4, <1>5, <1>6 DEF PlaceOK

-----------------------------------------------------------------------------
(***************************************************************************)
(* Every item has a value of its type and every member a name.             *)
(***************************************************************************)
\* KindOK, for one item and for one frame.
ItemKind(i) ==
  /\ Printable(i) \/ Unfinished(i)
  /\ items[i].type = "object" /\ items[i].child # 0 => Called(items[i].child)
  /\ items[i].string # <<>> /\ items[i].next # 0 => Called(items[i].next)
FrameKind(k) ==
  stack[k].head # 0 =>
    IF stack[k].kind = LBrace THEN Called(stack[k].head) /\ Called(stack[k].cur)
    ELSE items[stack[k].cur].string = <<>>

LEMMA KindIs ==
  KindOK <=> (pc \notin Unwinding =>
                (\A i \in 1..Len(items) : ItemKind(i)) /\ (\A k \in 1..Len(stack) : FrameKind(k)))
  BY DEF KindOK, ItemKind, FrameKind

LEMMA KindQuiet ==
  ASSUME PlaceOK, KindOK, QuietStep \/ FailStep \/ CommaStep
  PROVE  KindOK'
  <1>1. /\ UNCHANGED <<stack, items, target>>
        /\ \/ pc' = pc
           \/ pc' \in Unwinding
           \/ pc \in Printing /\ pc' \in Printing
           \/ pc = "after" /\ pc' = "element"
    BY DEF QuietStep, FailStep, CommaStep, Still, Unwinding
  <1>2. CASE pc' = pc
    BY <1>1, <1>2 DEF KindOK, Printable, Unfinished, Called
  <1>3. CASE pc' \in Unwinding
    BY <1>3 DEF KindOK
  <1>4. CASE \/ pc \in Printing /\ pc' \in Printing
             \/ pc = "after" /\ pc' = "element"
    <2>1. pc \notin {"value", "name"} /\ pc' \notin {"value", "name"} /\ pc \notin Unwinding
      BY <1>4 DEF Printing, Unwinding
    <2> QED
      BY <1>1, <2>1 DEF KindOK, Printable, Unfinished, Called
  <1> QED
    BY <1>1, <1>2, <1>3, <1>4

LEMMA KindRoot ==
  ASSUME PlaceOK, KindOK, RootStep
  PROVE  KindOK'
  <1> DEFINE n == Len(items) + 1
  <1>1. /\ stack' = stack
        /\ items' \in Seq(Item) /\ Len(items') = n
        /\ \A j \in 1..Len(items) : items'[j] = items[j]
        /\ items'[n].string = <<>> /\ items'[n].child = 0
        /\ \/ pc = "create" /\ pc' = "tree" /\ items'[n].type = "object"
           \/ pc = "parse" /\ pc' = "value" /\ target' = n
    BY DEF RootStep
  <1>2. Len(items) \in Nat /\ stack = <<>>
    BY <1>1 DEF PlaceOK, TypeOK, PhaseOK, Starting
  <1>3. pc \notin {"value", "name"} /\ pc \notin Unwinding /\ pc' # "name"
    BY <1>1 DEF Unwinding
  <1>4. ASSUME NEW i \in 1..n PROVE ItemKind(i)'
    <2>1. CASE i = n
      BY <1>1, <2>1 DEF ItemKind, Printable, Unfinished
    <2>2. CASE i # n
      <3>1. i \in 1..Len(items) /\ items'[i] = items[i]
        BY <1>1, <1>2, <2>2
      <3>2. ItemKind(i)
        BY <1>3, <3>1, KindIs
      <3>3. Printable(i)'
        BY <1>2, <1>3, <3>1, <3>2 DEF ItemKind, Unfinished, Printable
      <3>4. /\ items[i].next # 0 => items[i].next \in 1..Len(items)
            /\ items[i].child # 0 => items[i].child \in 1..Len(items)
        BY <3>1, ItemIs
      <3> QED
        BY <1>1, <1>3, <3>1, <3>2, <3>3, <3>4 DEF ItemKind, Called
    <2> QED
      BY <2>1, <2>2
  <1>5. \A k \in 1..Len(stack') : FrameKind(k)'
    BY <1>1, <1>2
  <1>6. \A i \in 1..Len(items') : ItemKind(i)'
    BY <1>1, <1>4
  <1> QED
    BY <1>5, <1>6 DEF KindOK, ItemKind, FrameKind

LEMMA KindValue ==
  ASSUME PlaceOK, KindOK, ValueStep
  PROVE  KindOK'
  <1>1. /\ UNCHANGED <<stack, target>>
        /\ pc = "value" /\ pc' \in {"tree", "after"}
        /\ Relabels(items, items', target)
        /\ items'[target].type # "invalid" /\ items'[target].string = items[target].string
        /\ items'[target].type = "string" => items'[target].valuestring # <<>>
    BY DEF ValueStep
  <1>2. /\ target \in 1..Len(items) /\ items[target].child = 0
    BY <1>1, TargetIs DEF PlaceOK, FreshOK
  <1>3. pc \notin Unwinding /\ pc # "name" /\ pc' # "name"
    BY <1>1 DEF Unwinding
  <1>4. /\ Len(items') = Len(items)
        /\ \A j \in 1..Len(items) :
             /\ items'[j].string = items[j].string /\ items'[j].next = items[j].next
             /\ items'[j].child = items[j].child
             /\ j # target => /\ items'[j].type = items[j].type
                              /\ items'[j].valuestring = items[j].valuestring
    BY <1>1 DEF Relabels
  <1>5. ASSUME NEW i \in 1..Len(items) PROVE ItemKind(i)'
    <2>1. ItemKind(i)
      BY <1>3, KindIs
    <2>2. /\ items[i].next # 0 => items[i].next \in 1..Len(items)
          /\ items[i].child # 0 => items[i].child \in 1..Len(items)
      BY ItemIs
    <2>3. CASE i = target
      BY <1>1, <1>2, <1>3, <1>4, <2>1, <2>2, <2>3 DEF ItemKind, Printable, Called
    <2>4. CASE i # target
      <3>1. (Printable(i) \/ Unfinished(i))'
        BY <1>1, <1>4, <2>1, <2>4 DEF ItemKind, Printable, Unfinished
      <3> QED
        BY <1>3, <1>4, <2>1, <2>2, <2>4, <3>1 DEF ItemKind, Called
    <2> QED
      BY <2>3, <2>4
  <1>6. ASSUME NEW k \in 1..Len(stack) PROVE FrameKind(k)'
    <2>1. FrameKind(k)
      BY <1>3, KindIs
    <2>2. stack[k].head # 0 => stack[k].head \in 1..Len(items) /\ stack[k].cur \in 1..Len(items)
      BY FrameIs
    <2> QED
      BY <1>1, <1>3, <1>4, <2>1, <2>2 DEF FrameKind, Called
  <1>7. (\A i \in 1..Len(items') : ItemKind(i)') /\ (\A k \in 1..Len(stack') : FrameKind(k)')
    BY <1>1, <1>4, <1>5, <1>6
  <1> QED
    BY <1>7 DEF KindOK, ItemKind, FrameKind

\* The items below the current one.
LEMMA CurBelow ==
  ASSUME PlaceOK, NEW k \in 1..Len(stack) - 1
  PROVE  /\ stack[k].cur < stack[Len(stack)].cur \/ stack[Len(stack)].head = 0
         /\ stack[k].cur <= stack[Len(stack)].item /\ stack[k].cur \in 1..Len(items)
         /\ stack[k].item < stack[Len(stack)].item /\ stack[k].head # 0
         /\ stack[k].head \in 1..Len(items) /\ stack[k].head <= stack[k].cur
         /\ stack[k].item < stack[k].head
  <1> DEFINE m == Len(stack)
  <1>0. m \in Nat /\ k \in 1..m /\ m \in 1..m /\ k # m /\ k \in 1..m - 1 /\ Len(items) \in Nat
    BY DEF PlaceOK, TypeOK
  <1>1. /\ stack[m].item \in Nat /\ stack[m].head \in Nat /\ stack[m].cur \in Nat
        /\ stack[m].head # 0 => stack[m].item < stack[m].head /\ stack[m].head <= stack[m].cur
        /\ stack[k].cur <= stack[m].item
    BY <1>0, FrameIs
  <1>2. /\ stack[k].item \in Nat /\ stack[k].head \in Nat /\ stack[k].cur \in Nat
        /\ stack[k].head # 0 /\ stack[k].item < stack[k].head /\ stack[k].head <= stack[k].cur
        /\ stack[k].head \in 1..Len(items) /\ stack[k].cur \in 1..Len(items)
    BY <1>0, FrameIs
  <1> HIDE DEF m
  <1>3. /\ stack[k].cur < stack[m].cur \/ stack[m].head = 0
        /\ stack[k].item < stack[m].item
    BY <1>1, <1>2, SMTT(30)
  <1> QED
    BY <1>1, <1>2, <1>3 DEF m

LEMMA KindName ==
  ASSUME PlaceOK, KindOK, NameStep
  PROVE  KindOK'
  <1>1. /\ UNCHANGED <<stack, target>>
        /\ pc = "name" /\ pc' \in {"value", "unwind"}
        /\ Relabels(items, items', target)
        /\ items'[target].string # <<>>
    BY DEF NameStep
  <1>2. /\ target \in 1..Len(items) /\ items[target].child = 0 /\ items[target].next = 0
    BY <1>1, TargetIs DEF PlaceOK, FreshOK
  <1>3. pc \notin Unwinding /\ pc' # "name"
    BY <1>1 DEF Unwinding
  <1>4. /\ Len(items') = Len(items)
        /\ \A j \in 1..Len(items) :
             /\ items'[j].next = items[j].next /\ items'[j].child = items[j].child
             /\ j # target => /\ items'[j].type = items[j].type
                              /\ items'[j].string = items[j].string
                              /\ items'[j].valuestring = items[j].valuestring
    BY <1>1 DEF Relabels
  <1>5. CASE pc' = "unwind"
    BY <1>5 DEF KindOK, Unwinding
  <1>6. CASE pc' = "value"
    <2>0. ASSUME NEW j \in 1..Len(items), Called(j) PROVE Called(j)'
      BY <1>1, <1>4, <2>0 DEF Called
    <2>1. ASSUME NEW i \in 1..Len(items) PROVE ItemKind(i)'
      <3>1. ItemKind(i)
        BY <1>3, KindIs
      <3>2. /\ items[i].next # 0 => items[i].next \in 1..Len(items)
            /\ items[i].child # 0 => items[i].child \in 1..Len(items)
        BY ItemIs
      <3>3. CASE i = target
        <4>1. Unfinished(i)'
          BY <1>1, <1>6, <3>3 DEF Unfinished
        <4> QED
          BY <1>2, <1>4, <3>3, <4>1 DEF ItemKind
      <3>4. CASE i # target
        <4>1. (Printable(i) \/ Unfinished(i))'
          BY <1>1, <1>4, <3>1, <3>4 DEF ItemKind, Printable, Unfinished
        <4>2. /\ items'[i].type = "object" /\ items'[i].child # 0 => Called(items[i].child)'
              /\ items'[i].string # <<>> /\ items'[i].next # 0 => Called(items[i].next)'
          BY <1>4, <2>0, <3>1, <3>2, <3>4 DEF ItemKind
        <4> QED
          BY <1>4, <4>1, <4>2 DEF ItemKind, Called
      <3> QED
        BY <3>3, <3>4
    <2>2. ASSUME NEW k \in 1..Len(stack) PROVE FrameKind(k)'
      <3>1. FrameKind(k)
        BY <1>3, KindIs
      <3>2. stack[k].head # 0 => stack[k].head \in 1..Len(items) /\ stack[k].cur \in 1..Len(items)
        BY FrameIs
      <3>3. stack # <<>> /\ stack[Len(stack)].kind = LBrace /\ target = stack[Len(stack)].cur /\ Len(stack) \in Nat
        <4>1. stack # <<>> /\ target = Last(stack).cur /\ Last(stack).kind = LBrace
          BY <1>1 DEF PlaceOK, PhaseOK
        <4>2. Last(stack) = stack[Len(stack)] /\ Len(stack) \in Nat
          BY <4>1, TopIs DEF PlaceOK
        <4> QED
          BY <4>1, <4>2
      <3>4. CASE stack[k].kind = LBrace
        <4>1. ASSUME stack[k].head # 0
              PROVE  items'[stack[k].head].string # <<>> /\ items'[stack[k].cur].string # <<>>
          <5>1. Called(stack[k].head) /\ Called(stack[k].cur)
            BY <3>1, <3>4, <4>1 DEF FrameKind
          <5> QED
            BY <1>1, <1>4, <3>2, <4>1, <5>1 DEF Called
        <4> QED
          BY <1>1, <3>4, <4>1 DEF FrameKind, Called
      <3>5. CASE stack[k].kind # LBrace /\ stack[k].head # 0
        <4>1. k # Len(stack)
          BY <3>3, <3>5
        <4>2. k \in 1..Len(stack) - 1
          BY <3>3, <4>1
        <4>3. Len(stack) \in 1..Len(stack) /\ stack[Len(stack)].head # 0
          <5>1. Len(stack) \in 1..Len(stack)
            BY <3>3
          <5>2. stack[Len(stack)].head # 0
            BY <1>1, <5>1 DEF PlaceOK, FrameOK
          <5> QED
            BY <5>1, <5>2
        <4>4. stack[k].cur < target /\ stack[k].cur \in 1..Len(items)
          BY <3>3, <4>2, <4>3, CurBelow
        <4>5. stack[k].cur # target
          BY <1>2, <4>4
        <4>6. items'[stack[k].cur].string = <<>>
          BY <1>4, <3>1, <3>5, <4>4, <4>5 DEF FrameKind
        <4> QED
          BY <1>1, <3>5, <4>6 DEF FrameKind
      <3>6. CASE stack[k].head = 0
        BY <1>1, <3>6 DEF FrameKind
      <3> QED
        BY <3>4, <3>5, <3>6
    <2>3. (\A i \in 1..Len(items') : ItemKind(i)') /\ (\A k \in 1..Len(stack') : FrameKind(k)')
      BY <1>1, <1>4, <2>1, <2>2
    <2> QED
      BY <2>3 DEF KindOK, ItemKind, FrameKind
  <1> QED
    BY <1>1, <1>5, <1>6

LEMMA KindPush ==
  ASSUME PlaceOK, KindOK, PushStep
  PROVE  KindOK'
  <1>1. /\ UNCHANGED <<items, target>> /\ pc = "value" /\ pc' = "element"
        /\ \E kind \in {LBracket, LBrace} :
             stack' = Append(stack, [kind |-> kind, item |-> target, head |-> 0, cur |-> 0])
    BY DEF PushStep
  <1>2. stack \in Seq(Frame) /\ Len(stack) \in Nat
    BY DEF PlaceOK, TypeOK
  <1> DEFINE m == Len(stack) + 1
  <1>3. PICK top : stack' = Append(stack, top) /\ top.item = target /\ top.head = 0
    BY <1>1
  <1>4. /\ Len(stack') = m /\ stack'[m] = top /\ m \in 1..m
        /\ \A k \in 1..Len(stack) : stack'[k] = stack[k] /\ k \in 1..m
    BY <1>2, <1>3
  <1>5. pc \notin Unwinding
    BY <1>1 DEF Unwinding
  <1>6. ASSUME NEW i \in 1..Len(items) PROVE ItemKind(i)'
    <2>1. ItemKind(i)
      BY <1>5, KindIs
    <2>2. Unfinished(i) => Unfinished(i)'
      BY <1>1, <1>3, <1>4 DEF Unfinished
    <2> QED
      BY <1>1, <2>1, <2>2 DEF ItemKind, Printable, Called
  <1>7. ASSUME NEW k \in 1..m PROVE FrameKind(k)'
    <2>1. CASE k = m
      BY <1>3, <1>4, <2>1 DEF FrameKind
    <2>2. CASE k # m
      <3>1. k \in 1..Len(stack)
        BY <1>2, <2>2
      <3>2. FrameKind(k)
        BY <1>5, <3>1, KindIs
      <3> QED
        BY <1>1, <1>4, <3>1, <3>2 DEF FrameKind, Called
    <2> QED
      BY <2>1, <2>2
  <1>8. (\A i \in 1..Len(items') : ItemKind(i)') /\ (\A k \in 1..Len(stack') : FrameKind(k)')
    BY <1>1, <1>4, <1>6, <1>7
  <1> QED
    BY <1>8 DEF KindOK, ItemKind, FrameKind

LEMMA KindElement ==
  ASSUME PlaceOK, KindOK, ElementStep
  PROVE  KindOK'
  <1> PICK n : n = Len(items) + 1
    OBVIOUS
  <1> DEFINE m == Len(stack)
             frame == stack[m]
  <1>1. /\ pc = "element" /\ pc' \in {"unwind", "name", "value"}
        /\ pc' # "unwind" => (pc' = "name" <=> frame.kind = LBrace)
        /\ Len(items') = n /\ target' = n
    BY DEF ElementStep
  <1>2. /\ items'[n].type = "invalid" /\ items'[n].string = <<>>
        /\ items'[n].next = 0 /\ items'[n].child = 0
        /\ \A j \in 1..Len(items) :
             /\ items'[j].type = items[j].type
             /\ items'[j].string = items[j].string /\ items'[j].valuestring = items[j].valuestring
             /\ items'[j].child = items[j].child
             /\ items'[j].next = IF frame.head # 0 /\ j = frame.cur THEN n ELSE items[j].next
    BY DEF ElementStep
  <1>3. /\ Len(stack') = m
        /\ \A k \in 1..m - 1 : stack'[k] = stack[k]
        /\ stack'[m].kind = frame.kind /\ stack'[m].item = frame.item
        /\ stack'[m].head = (IF frame.head = 0 THEN n ELSE frame.head) /\ stack'[m].cur = n
    BY DEF ElementStep
  <1>4. m \in Nat /\ m >= 1 /\ m \in 1..m /\ Len(items) \in Nat
    <2>1. stack # <<>>
      BY <1>1 DEF PlaceOK, PhaseOK
    <2> QED
      BY <2>1, TopIs DEF PlaceOK, TypeOK
  <1>5. FrameKind(m) /\ pc # "name" /\ pc # "value" /\ pc \notin Unwinding
    <2>1. pc \notin Unwinding
      BY <1>1 DEF Unwinding
    <2> QED
      BY <1>1, <1>4, <2>1, KindIs
  <1>6. frame.head # 0 => frame.head \in 1..Len(items) /\ frame.cur \in 1..Len(items)
    BY <1>4, FrameIs
  <1>7. frame.head # 0 =>
           IF frame.kind = LBrace THEN Called(frame.head) /\ Called(frame.cur)
           ELSE items[frame.cur].string = <<>>
    BY <1>5 DEF FrameKind
  <1>8. CASE pc' = "unwind"
    BY <1>8 DEF KindOK, Unwinding
  <1>9. CASE pc' # "unwind"
    <2>1. ASSUME NEW j \in 1..Len(items), items[j].string # <<>> PROVE items'[j].string # <<>>
      BY <1>2, <2>1
    <2>2. pc' = "name" <=> frame.kind = LBrace
      BY <1>1, <1>9
    <2>3. frame.kind = LBrace => Called(n)'
      BY <1>1, <2>2 DEF Called
    <2>4. ASSUME NEW i \in 1..n PROVE ItemKind(i)'
      <3>1. CASE i = n
        <4>1. Unfinished(n)'
          BY <1>1, <1>9 DEF Unfinished
        <4> QED
          BY <1>2, <3>1, <4>1 DEF ItemKind
      <3>2. CASE i # n
        <4>1. i \in 1..Len(items)
          BY <1>4, <3>2
        <4>2. ItemKind(i)
          BY <1>5, <4>1, KindIs
        <4>3. /\ items[i].next # 0 => items[i].next \in 1..Len(items)
              /\ items[i].child # 0 => items[i].child \in 1..Len(items)
          BY <4>1, ItemIs
        <4>4. (Printable(i) \/ Unfinished(i))'
          <5>1. CASE Printable(i)
            BY <1>2, <4>1, <5>1 DEF Printable
          <5>2. CASE Unfinished(i)
            <6>1. PICK k \in 1..m : stack[k].item = i
              BY <1>5, <5>2 DEF Unfinished
            <6>2. stack'[k].item = i
              BY <1>3, <1>4, <6>1
            <6> QED
              BY <1>3, <6>1, <6>2 DEF Unfinished
          <5> QED
            BY <4>2, <5>1, <5>2 DEF ItemKind
        <4>5. ASSUME items'[i].type = "object", items'[i].child # 0 PROVE Called(items[i].child)'
          <5>1. items'[items[i].child].string # <<>> /\ items'[i].child = items[i].child
            BY <1>2, <1>5, <2>1, <4>1, <4>2, <4>3, <4>5 DEF ItemKind, Called
          <5> QED
            BY <1>2, <4>1, <5>1 DEF Called
        <4>6. ASSUME items'[i].string # <<>>, items'[i].next # 0 PROVE Called(items[i].next)'
          <5>1. CASE frame.head # 0 /\ i = frame.cur
            <6>1. frame.kind = LBrace
              BY <1>2, <1>7, <4>1, <4>6, <5>1
            <6>2. items'[i].next = n
              BY <1>2, <4>1, <5>1
            <6> QED
              BY <2>3, <6>1, <6>2 DEF Called
          <5>2. CASE ~(frame.head # 0 /\ i = frame.cur)
            <6>1. items'[i].next = items[i].next
              BY <1>2, <4>1, <5>2
            <6>2. items'[items[i].next].string # <<>>
              BY <1>2, <1>5, <2>1, <4>1, <4>2, <4>3, <4>6, <6>1 DEF ItemKind, Called
            <6> QED
              BY <6>1, <6>2 DEF Called
          <5> QED
            BY <5>1, <5>2
        <4> QED
          BY <4>4, <4>5, <4>6 DEF ItemKind, Called
      <3> QED
        BY <3>1, <3>2
    <2>5. ASSUME NEW k \in 1..m PROVE FrameKind(k)'
      <3>1. CASE k = m
        <4>1. stack'[k].cur = n /\ stack'[k].kind = frame.kind
          BY <1>3, <3>1
        <4>2. CASE frame.kind # LBrace
          BY <1>2, <4>1, <4>2 DEF FrameKind
        <4>3. CASE frame.kind = LBrace
          <5>1. pc' = "name" /\ target' = n
            BY <1>1, <2>2, <4>3
          <5>2. CASE frame.head = 0
            BY <1>3, <3>1, <4>1, <4>3, <5>1, <5>2 DEF FrameKind, Called
          <5>3. CASE frame.head # 0
            <6>1. stack'[k].head = frame.head
              BY <1>3, <3>1, <5>3
            <6>2. items'[frame.head].string # <<>>
              BY <1>5, <1>6, <1>7, <2>1, <4>3, <5>3 DEF Called
            <6> QED
              BY <4>1, <4>3, <5>1, <6>1, <6>2 DEF FrameKind, Called
          <5> QED
            BY <5>2, <5>3
        <4> QED
          BY <4>2, <4>3
      <3>2. CASE k # m
        <4>1. k \in 1..m - 1 /\ k \in 1..Len(stack)
          BY <1>4, <3>2
        <4>2. stack'[k] = stack[k]
          BY <1>3, <4>1
        <4>3. FrameKind(k)
          BY <1>5, <4>1, KindIs
        <4>4. stack[k].head # 0 => stack[k].head \in 1..Len(items) /\ stack[k].cur \in 1..Len(items)
          BY <4>1, FrameIs
        <4> QED
          BY <1>2, <1>5, <4>2, <4>3, <4>4 DEF FrameKind, Called
      <3> QED
        BY <3>1, <3>2
    <2>6. (\A i \in 1..Len(items') : ItemKind(i)') /\ (\A k \in 1..Len(stack') : FrameKind(k)')
      BY <1>1, <1>3, <2>4, <2>5
    <2> QED
      BY <2>6 DEF KindOK, ItemKind, FrameKind
  <1> QED
    BY <1>8, <1>9

LEMMA KindClose ==
  ASSUME PlaceOK, KindOK, CloseStep
  PROVE  KindOK'
  <1> DEFINE m == Len(stack)
             frame == stack[m]
  <1>1. /\ pc = "after" /\ pc' \in {"tree", "after"}
        /\ Len(items') = Len(items)
        /\ Len(stack') = m - 1
        /\ \A k \in 1..m - 1 : stack'[k] = stack[k]
    BY DEF CloseStep
  <1>2. \A j \in 1..Len(items) :
          /\ items'[j].string = items[j].string
          /\ items'[j].valuestring = items[j].valuestring /\ items'[j].next = items[j].next
          /\ items'[j].child = IF j = frame.item THEN frame.head ELSE items[j].child
          /\ items'[j].type = IF j = frame.item
                              THEN IF frame.kind = LBrace THEN "object" ELSE "array"
                              ELSE items[j].type
    BY DEF CloseStep
  <1>3. m \in Nat /\ m >= 1 /\ m \in 1..m /\ stack # <<>>
    <2>1. stack # <<>>
      BY <1>1 DEF PlaceOK, PhaseOK
    <2> QED
      BY <2>1, TopIs DEF PlaceOK, TypeOK
  <1>4. /\ pc \notin Unwinding /\ pc \notin {"name", "value"} /\ pc' # "name"
    BY <1>1 DEF Unwinding
  <1>5. /\ FrameKind(m)
        /\ frame.head # 0 => frame.head \in 1..Len(items)
    BY <1>3, <1>4, KindIs, FrameIs
  <1>6. ASSUME NEW i \in 1..Len(items) PROVE ItemKind(i)'
    <2>1. ItemKind(i)
      BY <1>4, KindIs
    <2>2. /\ items[i].next # 0 => items[i].next \in 1..Len(items)
          /\ items[i].child # 0 => items[i].child \in 1..Len(items)
      BY ItemIs
    <2>3. /\ items'[i].string # <<>> /\ items'[i].next # 0 => Called(items[i].next)'
      BY <1>2, <1>4, <2>1, <2>2 DEF ItemKind, Called
    <2>4. CASE i = frame.item
      <3>1. Printable(i)'
        BY <1>2, <2>4 DEF Printable
      <3>2. items'[i].type = "object" => frame.kind = LBrace
        BY <1>2, <2>4
      <3>3. items'[i].child = frame.head
        BY <1>2, <2>4
      <3>4. ASSUME frame.kind = LBrace, frame.head # 0
            PROVE  items'[frame.head].string # <<>>
        <4>1. Called(frame.head)
          BY <1>5, <3>4 DEF FrameKind
        <4> QED
          BY <1>2, <1>4, <1>5, <3>4, <4>1 DEF Called
      <3> QED
        BY <1>2, <2>3, <3>1, <3>2, <3>3, <3>4 DEF ItemKind, Called
    <2>5. CASE i # frame.item
      <3>1. (Printable(i) \/ Unfinished(i))'
        <4>1. CASE Printable(i)
          BY <1>2, <2>5, <4>1 DEF Printable
        <4>2. CASE Unfinished(i)
          <5>1. PICK k \in 1..m : stack[k].item = i
            BY <1>4, <4>2 DEF Unfinished
          <5>2. k \in 1..m - 1
            BY <1>3, <2>5, <5>1
          <5> QED
            BY <1>1, <5>1, <5>2 DEF Unfinished
        <4> QED
          BY <2>1, <4>1, <4>2 DEF ItemKind
      <3>2. items'[i].type = "object" /\ items'[i].child # 0 => items'[items[i].child].string # <<>>
        BY <1>2, <1>4, <2>1, <2>2, <2>5 DEF ItemKind, Called
      <3>3. items'[i].child = items[i].child
        BY <1>2, <2>5
      <3> QED
        BY <1>2, <2>3, <3>1, <3>2, <3>3 DEF ItemKind, Called
    <2> QED
      BY <2>4, <2>5
  <1>7. ASSUME NEW k \in 1..m - 1 PROVE FrameKind(k)'
    <2>1. k \in 1..Len(stack) /\ stack'[k] = stack[k]
      BY <1>1, <1>3
    <2>2. FrameKind(k)
      BY <1>4, <2>1, KindIs
    <2>3. stack[k].head # 0 => stack[k].head \in 1..Len(items) /\ stack[k].cur \in 1..Len(items)
      BY <2>1, FrameIs
    <2> QED
      BY <1>2, <1>4, <2>1, <2>2, <2>3 DEF FrameKind, Called
  <1>8. (\A i \in 1..Len(items') : ItemKind(i)') /\ (\A k \in 1..Len(stack') : FrameKind(k)')
    BY <1>1, <1>6, <1>7
  <1> QED
    BY <1>8 DEF KindOK, ItemKind, FrameKind

LEMMA KindClear ==
  ASSUME PlaceOK, KindOK, PopStep \/ ClearStep
  PROVE  KindOK'
  <1>1. CASE PopStep
    BY <1>1 DEF PopStep, KindOK, Unwinding
  <1>2. CASE ClearStep
    <2>1. CASE pc = "unwind"
      BY <1>2, <2>1 DEF ClearStep, Printing, KindOK, Unwinding
    <2>2. CASE pc # "unwind"
      <3>1. /\ pc \in Printing /\ pc' \in {"deleted", "parse"} /\ stack = <<>> /\ stack' = <<>>
            /\ Len(items') = Len(items)
            /\ \A j \in 1..Len(items) :
                 /\ items'[j].type = items[j].type /\ items'[j].string = items[j].string
                 /\ items'[j].valuestring = items[j].valuestring
                 /\ items'[j].next = items[j].next /\ items'[j].child = items[j].child
        BY <1>2, <2>2 DEF ClearStep, FreeStep, Printing
      <3>2. pc \notin Unwinding /\ pc \notin {"name", "value"} /\ pc' \notin {"name", "value"}
        BY <3>1 DEF Printing, Unwinding
      <3>3. ASSUME NEW i \in 1..Len(items) PROVE ItemKind(i)'
        <4>1. ItemKind(i)
          BY <3>2, KindIs
        <4>2. /\ items[i].next # 0 => items[i].next \in 1..Len(items)
              /\ items[i].child # 0 => items[i].child \in 1..Len(items)
          BY ItemIs
        <4>3. Printable(i)
          BY <3>1, <3>2, <4>1 DEF ItemKind, Unfinished
        <4>4. Printable(i)'
          BY <3>1, <4>3 DEF Printable
        <4> QED
          BY <3>1, <3>2, <4>1, <4>2, <4>4 DEF ItemKind, Called
      <3>4. (\A i \in 1..Len(items') : ItemKind(i)') /\ (\A k \in 1..Len(stack') : FrameKind(k)')
        BY <3>1, <3>3
      <3> QED
        BY <3>4 DEF KindOK, ItemKind, FrameKind
    <2> QED
      BY <2>1, <2>2
  <1> QED
    BY <1>1, <1>2

LEMMA KindAdd ==
  ASSUME PlaceOK, KindOK, AddStep
  PROVE  KindOK'
  <1> DEFINE n == Len(items) + 1
             head == items[root].child
             last == items[head].prev
  <1>1. /\ stack' = stack /\ pc = "tree" /\ pc' = "tree" /\ Len(items') = n
        /\ items'[n].type = "string" /\ items'[n].string # <<>> /\ items'[n].valuestring # <<>>
        /\ items'[n].next = 0 /\ items'[n].child = 0
        /\ \A j \in 1..Len(items) :
             /\ items'[j].type = items[j].type
             /\ items'[j].string = items[j].string /\ items'[j].valuestring = items[j].valuestring
             /\ items'[j].child = n \/ items'[j].child = items[j].child
             /\ items'[j].next = n \/ items'[j].next = items[j].next
    BY DEF AddStep
  <1>2. stack = <<>> /\ Len(items) \in Nat /\ pc \notin Unwinding
    BY <1>1 DEF PlaceOK, TypeOK, PhaseOK, Complete, Unwinding
  <1>3. ASSUME NEW i \in 1..n PROVE ItemKind(i)'
    <2>1. CASE i = n
      BY <1>1, <2>1 DEF ItemKind, Printable
    <2>2. CASE i # n
      <3>1. i \in 1..Len(items)
        BY <1>2, <2>2
      <3>2. ItemKind(i)
        BY <1>2, <3>1, KindIs
      <3>3. /\ items[i].next # 0 => items[i].next \in 1..Len(items)
            /\ items[i].child # 0 => items[i].child \in 1..Len(items)
        BY <3>1, ItemIs
      <3>4. Printable(i)
        BY <1>1, <1>2, <3>2 DEF ItemKind, Unfinished
      <3>5. Printable(i)'
        BY <1>1, <3>1, <3>4 DEF Printable
      <3> QED
        BY <1>1, <3>1, <3>2, <3>3, <3>5 DEF ItemKind, Called
    <2> QED
      BY <2>1, <2>2
  <1>4. (\A i \in 1..Len(items') : ItemKind(i)') /\ (\A k \in 1..Len(stack') : FrameKind(k)')
    BY <1>1, <1>2, <1>3
  <1> QED
    BY <1>4 DEF KindOK, ItemKind, FrameKind

LEMMA KindStep ==
  ASSUME PlaceOK, KindOK, Effect
  PROVE  KindOK'
  BY KindQuiet, KindRoot, KindValue, KindName, KindPush, KindElement, KindClose, KindClear, KindAdd
  DEF Effect

LEMMA KindInit ==
  ASSUME Init
  PROVE  KindOK
  <1>1. items = <<>> /\ stack = <<>>
    BY DEF Init, TreeInit
  <1> QED
    BY <1>1 DEF KindOK

-----------------------------------------------------------------------------
(***************************************************************************)
(* What is to be printed: every task is one that fits, and the last one of *)
(* a value ends in a terminator.                                           *)
(***************************************************************************)
LEMMA CharConsts ==
  /\ {Quote, Backslash, Comma, Colon, LBracket, RBracket, LBrace, RBrace, Minus} \subseteq NonZero
  /\ {9, 10, 32} \subseteq NonZero /\ 0 \in Char
  BY SMT DEF Quote, Backslash, Comma, Colon, LBracket, RBracket, LBrace, RBrace, Minus, NonZero, Char

LEMMA WriteIs ==
  ASSUME NEW needed \in Nat, NEW bytes \in Seq(Char), NEW advance \in Nat,
         Len(bytes) <= needed, advance <= Len(bytes)
  PROVE  Write(needed, bytes, advance) \in Task
  <1> DEFINE w == Write(needed, bytes, advance)
  <1>1. /\ w \in WriteTask /\ w.needed = needed /\ w.bytes = bytes /\ w.advance = advance
        /\ w.update = FALSE
    BY DEF Write, WriteTask
  <1> HIDE DEF w
  <1>2. WriteFits(w)
    BY <1>1 DEF WriteFits
  <1> QED
    BY <1>1, <1>2 DEF Task, w

LEMMA AppendZero ==
  ASSUME NEW body \in Seq(NonZero)
  PROVE  Append(body, 0) \in Seq(Char) /\ Len(Append(body, 0)) = Len(body) + 1
  <1>1. body \in Seq(Char) /\ 0 \in Char
    BY SubChars, CharConsts
  <1> QED
    BY <1>1

LEMMA WriteValueIs ==
  ASSUME NEW needed \in Nat, NEW body \in Seq(NonZero), NEW bytes, bytes = Append(body, 0),
         NEW advance \in Nat, Len(body) + 1 <= needed, advance <= Len(body)
  PROVE  WriteValue(needed, bytes, advance) \in Task /\ EndsIn(WriteValue(needed, bytes, advance))
  <1> DEFINE w == WriteValue(needed, bytes, advance)
  <1>1. bytes \in Seq(Char) /\ Len(bytes) = Len(body) + 1 /\ Len(body) \in Nat
    BY AppendZero
  <1>2. /\ w \in WriteTask /\ w.needed = needed /\ w.bytes = bytes /\ w.advance = advance
        /\ w.update = TRUE
    BY <1>1 DEF WriteValue, Write, WriteTask
  <1> HIDE DEF w
  <1>3. Len(bytes) <= needed /\ advance <= Len(bytes)
    BY <1>1
  <1>4. WriteFits(w)
    BY <1>2, <1>3 DEF WriteFits
  <1> QED
    BY <1>2, <1>4 DEF Task, EndsIn, w

LEMMA CallIs ==
  ASSUME NEW function \in {"value", "elements", "members"}, NEW item \in Nat, NEW depth \in Nat,
         item <= Len(items), function = "value" => item # 0,
         function = "members" => depth >= 1 /\ (item # 0 => items[item].string # <<>>)
  PROVE  Call(function, item, depth) \in Task /\ EndsIn(Call(function, item, depth))
  <1> DEFINE c == Call(function, item, depth)
  <1>1. c \in CallTask /\ c.do = function /\ c.item = item /\ c.depth = depth
    BY DEF Call, CallTask
  <1> HIDE DEF c
  <1>2. CallReads(c)
    BY <1>1 DEF CallReads
  <1>3. EndsIn(c)
    BY <1>1 DEF EndsIn
  <1> QED
    BY <1>1, <1>2, <1>3 DEF Task, c

\* Tasks that end well.
Plan(s) == s \in Seq(Task) /\ s # <<>> /\ EndsIn(Last(s))

LEMMA PlanOne ==
  ASSUME NEW S, NEW a \in S
  PROVE  <<a>> \in Seq(S) /\ <<a>> # <<>> /\ Last(<<a>>) = a
  <1>1. <<a>> \in Seq(S) /\ <<a>> # <<>> /\ Len(<<a>>) = 1 /\ <<a>>[1] = a
    OBVIOUS
  <1> QED
    BY <1>1 DEF Last

LEMMA PlanAfter ==
  ASSUME NEW s \in Seq(Task), NEW t, Plan(t)
  PROVE  Plan(s \o t)
  <1>1. t \in Seq(Task) /\ Len(t) \in Nat /\ Len(t) >= 1 /\ EndsIn(t[Len(t)]) /\ Len(s) \in Nat
    BY DEF Plan, Last
  <1>2. /\ s \o t \in Seq(Task) /\ Len(s \o t) = Len(s) + Len(t)
        /\ (s \o t)[Len(s) + Len(t)] = t[Len(t)]
    BY <1>1
  <1> DEFINE u == s \o t
  <1>3. u \in Seq(Task) /\ Len(u) >= 1 /\ u[Len(u)] = t[Len(t)]
    BY <1>1, <1>2
  <1> HIDE DEF u
  <1>4. Plan(u)
    BY <1>1, <1>3 DEF Plan, Last
  <1> QED
    BY <1>4 DEF u

LEMMA PlanSingle ==
  ASSUME NEW a \in Task, EndsIn(a)
  PROVE  Plan(<<a>>)
  BY PlanOne DEF Plan

LEMMA TabsAre ==
  ASSUME NEW n \in Nat
  PROVE  Tabs(n) \in Seq(NonZero) /\ Len(Tabs(n)) = n
  BY CharConsts DEF Tabs

LEMMA OptionalIs ==
  ASSUME NEW c \in BOOLEAN, NEW b \in NonZero
  PROVE  Optional(c, b) \in Seq(NonZero) /\ Len(Optional(c, b)) \in {0, 1}
  BY DEF Optional

LEMMA ConcatIs ==
  ASSUME NEW S, NEW s \in Seq(S), NEW t \in Seq(S)
  PROVE  s \o t \in Seq(S) /\ Len(s \o t) = Len(s) + Len(t) /\ Len(s) \in Nat /\ Len(t) \in Nat
  OBVIOUS

LEMMA ConcatTwo ==
  ASSUME NEW a, NEW s \in Seq(a), NEW b \in a, NEW z
  PROVE  s \o <<b, z>> = Append(s \o <<b>>, z)
  OBVIOUS

\* print_string_ptr
LEMMA WriteStringIs ==
  ASSUME NEW s \in Seq(NonZero)
  PROVE  WriteString(s) \in Task /\ EndsIn(WriteString(s))
  <1> DEFINE e == Escapes(s)
             n == OutputLength(s)
             q == <<Quote>> \o e
             body == q \o <<Quote>>
  <1>1. e \in Seq(NonZero) /\ Len(e) = n /\ n \in Nat
    BY EscapesAre
  <1>2. Quote \in NonZero /\ <<Quote>> \in Seq(NonZero) /\ Len(<<Quote>>) = 1
    BY CharConsts
  <1>3. WriteString(s) = WriteValue(n + 3, q \o <<Quote, 0>>, 0)
    BY DEF WriteString
  <1> HIDE DEF e, n
  <1>4. q \in Seq(NonZero) /\ Len(q) = n + 1
    BY <1>1, <1>2, ConcatIs
  <1> HIDE DEF q
  <1>5. body \in Seq(NonZero) /\ Len(body) = n + 2
    <2>1. body \in Seq(NonZero) /\ Len(body) = Len(q) + 1
      BY <1>2, <1>4, ConcatIs
    <2> HIDE DEF body
    <2> QED
      BY <1>1, <1>4, <2>1
  <1>6. q \o <<Quote, 0>> = Append(body, 0)
    BY <1>2, <1>4, ConcatTwo
  <1> HIDE DEF body
  <1>7. n + 3 \in Nat /\ Len(body) + 1 <= n + 3 /\ 0 <= Len(body)
    BY <1>1, <1>5
  <1> QED
    BY <1>3, <1>5, <1>6, <1>7, WriteValueIs

LEMMA DigitsAre ==
  ASSUME NEW n \in Nat
  PROVE  Digits(n) \in Seq(NonZero)
  <1> DEFINE body(m, g) == [k \in 0..m |->
                              IF k < 10 THEN <<48 + k>> ELSE Append(g[k \div 10], 48 + (k % 10))]
             digits == CHOOSE g : g = body(n, g)
  <1>0. ASSUME NEW k \in Nat PROVE k < 10 => 48 + k \in NonZero
    BY <1>0 DEF NonZero, Char
  <1>1. ASSUME NEW k \in Nat, k >= 10
        PROVE  48 + (k % 10) \in NonZero /\ k \div 10 \in Nat /\ k \div 10 < k
    BY <1>1, SMT DEF NonZero, Char
  <1> DEFINE Done == {m \in 0..n : \E g \in [0..m -> Seq(NonZero)] : g = body(m, g)}
  <1>2. \A m \in 0..n : m \in Done
    <2>1. 0 \in Done
      <3> DEFINE g == [k \in 0..0 |-> <<48>>]
      <3>1. <<48>> \in Seq(NonZero) /\ 48 + 0 = 48 /\ 0..0 = {0}
        BY <1>0
      <3>2. g \in [0..0 -> Seq(NonZero)]
        BY <3>1
      <3>3. body(0, g) = g
        BY <3>1
      <3> HIDE DEF g, body
      <3> QED
        BY <3>2, <3>3
    <2>2. ASSUME NEW m \in 1..n, m - 1 \in Done PROVE m \in Done
      <3>1. PICK g \in [0..m - 1 -> Seq(NonZero)] : g = body(m - 1, g)
        BY <2>2
      <3> DEFINE new == IF m < 10 THEN <<48 + m>> ELSE Append(g[m \div 10], 48 + (m % 10))
                 h == [k \in 0..m |-> IF k = m THEN new ELSE g[k]]
      <3>2. new \in Seq(NonZero)
        <4>1. CASE m < 10
          BY <1>0, <4>1
        <4>2. CASE ~(m < 10)
          <5>1. 48 + (m % 10) \in NonZero /\ m \div 10 \in Nat /\ m \div 10 < m
            BY <1>1, <4>2
          <5>2. m \div 10 \in 0..m - 1
            BY <5>1
          <5>3. g[m \div 10] \in Seq(NonZero)
            BY <5>2
          <5> QED
            BY <4>2, <5>1, <5>3
        <4> QED
          BY <4>1, <4>2
      <3>3. h \in [0..m -> Seq(NonZero)]
        <4> HIDE DEF new
        <4> QED
          BY <3>2
      <3>4. ASSUME NEW k \in 0..m
            PROVE  h[k] = IF k < 10 THEN <<48 + k>> ELSE Append(h[k \div 10], 48 + (k % 10))
        <4>1. k \div 10 = k \div 10 /\ (k >= 10 => k \div 10 \in 0..m - 1 /\ k \div 10 \in 0..m /\ k \div 10 # m)
          <5>1. ASSUME k >= 10 PROVE k \div 10 \in Nat /\ k \div 10 < k
            BY <1>1, <5>1
          <5> PICK d : d = k \div 10
            OBVIOUS
          <5> QED
            BY <5>1
        <4>2. k >= 10 => h[k \div 10] = g[k \div 10]
          <5> HIDE DEF new
          <5> QED
            BY <4>1
        <4>3. CASE k = m
          <5>1. h[k] = new
            <6> HIDE DEF new
            <6> QED
              BY <4>3
          <5> QED
            BY <4>2, <4>3, <5>1
        <4>4. CASE k # m
          <5>1. h[k] = g[k] /\ k \in 0..m - 1
            <6> HIDE DEF new
            <6> QED
              BY <4>4
          <5>2. g[k] = IF k < 10 THEN <<48 + k>> ELSE Append(g[k \div 10], 48 + (k % 10))
            BY <3>1, <5>1
          <5> QED
            BY <4>2, <5>1, <5>2
        <4> QED
          BY <4>3, <4>4
      <3> HIDE DEF h
      <3>5. h = body(m, h)
        BY <3>3, <3>4
      <3> HIDE DEF body
      <3> QED
        BY <3>3, <3>5
    <2> HIDE DEF Done
    <2> QED
      BY <2>1, <2>2, Induction
  <1>3. digits = body(n, digits)
    <2>1. n \in 0..n
      OBVIOUS
    <2>2. \E g : g = body(n, g)
      BY <1>2, <2>1
    <2> QED
      BY <2>2
  <1>4. Digits(n) = digits[n]
    BY DEF Digits
  <1> HIDE DEF digits
  <1> DEFINE T == {k \in 0..n : digits[k] \in Seq(NonZero)}
  <1>5. ASSUME NEW k \in 0..n, \A j \in 0..k - 1 : j \in T PROVE k \in T
    <2>1. digits[k] = IF k < 10 THEN <<48 + k>> ELSE Append(digits[k \div 10], 48 + (k % 10))
      BY <1>3
    <2>2. CASE k < 10
      <3>1. 48 + k \in NonZero
        BY <1>0, <2>2
      <3>2. <<48 + k>> \in Seq(NonZero)
        BY <3>1
      <3>3. digits[k] = <<48 + k>>
        BY <2>1, <2>2
      <3>4. digits[k] \in Seq(NonZero)
        BY <3>2, <3>3
      <3> QED
        BY <3>4
    <2>3. CASE ~(k < 10)
      <3>1. 48 + (k % 10) \in NonZero /\ k \div 10 \in Nat /\ k \div 10 < k
        BY <1>1, <2>3
      <3>2. k \div 10 \in 0..k - 1
        BY <3>1
      <3>3. digits[k \div 10] \in Seq(NonZero)
        BY <1>5, <3>2
      <3>4. digits[k] \in Seq(NonZero)
        BY <2>1, <2>3, <3>1, <3>3
      <3> QED
        BY <3>4
    <2> QED
      BY <2>2, <2>3
  <1>6. \A k \in 0..n : k \in T
    <2> HIDE DEF T
    <2> QED
      BY <1>5, StrongInduction
  <1> QED
    BY <1>4, <1>6

LEMMA DecimalIs ==
  ASSUME NEW n \in Int
  PROVE  Decimal(n) \in Seq(NonZero)
  <1>1. CASE n < 0
    <2>1. Digits(-n) \in Seq(NonZero)
      BY <1>1, DigitsAre
    <2>2. <<Minus>> \in Seq(NonZero)
      BY CharConsts
    <2> QED
      BY <1>1, <2>1, <2>2, ConcatIs DEF Decimal
  <1>2. CASE ~(n < 0)
    BY <1>2, DigitsAre DEF Decimal
  <1> QED
    BY <1>1, <1>2

LEMMA WriteNumberIs ==
  ASSUME NEW n \in Int
  PROVE  WriteNumber(n) \in Task /\ EndsIn(WriteNumber(n))
  <1> DEFINE d == Decimal(n)
  <1>1. d \in Seq(NonZero)
    BY DecimalIs
  <1>2. WriteNumber(n) = WriteValue(Len(d) + 1, Append(d, 0), Len(d))
    BY DEF WriteNumber
  <1> HIDE DEF d
  <1>3. Len(d) \in Nat /\ Len(d) + 1 \in Nat /\ Len(d) + 1 <= Len(d) + 1 /\ Len(d) <= Len(d)
    BY <1>1
  <1> QED
    BY <1>1, <1>2, <1>3, WriteValueIs

-----------------------------------------------------------------------------
(***************************************************************************)
(* The functions of the printer write what fits.                           *)
(***************************************************************************)
\* A pointer the printer follows.
Pointer(i) == i \in Nat /\ i <= Len(items)

LEMMA ValueTask ==
  ASSUME NEW i \in Nat, i # 0, Pointer(i), NEW depth \in Nat
  PROVE  Call("value", i, depth) \in Task /\ EndsIn(Call("value", i, depth))
  BY CallIs DEF Pointer

LEMMA ElementsTask ==
  ASSUME NEW i, Pointer(i), NEW depth \in Nat
  PROVE  Call("elements", i, depth) \in Task /\ EndsIn(Call("elements", i, depth))
  BY CallIs DEF Pointer

LEMMA MembersTask ==
  ASSUME NEW i, Pointer(i), NEW depth \in Nat, depth >= 1, i # 0 => items[i].string # <<>>
  PROVE  Call("members", i, depth) \in Task /\ EndsIn(Call("members", i, depth))
  BY CallIs DEF Pointer

LEMMA OneWrite ==
  ASSUME NEW b \in NonZero
  PROVE  Write(1, <<b>>, 1) \in Task
  <1>1. <<b>> \in Seq(NonZero) /\ Len(<<b>>) = 1
    OBVIOUS
  <1>2. <<b>> \in Seq(Char)
    BY <1>1, SubChars
  <1> DEFINE s == <<b>>
  <1>3. s \in Seq(Char) /\ Len(s) = 1
    BY <1>1, <1>2
  <1> HIDE DEF s
  <1>4. 1 \in Nat /\ Len(s) <= 1 /\ 1 <= Len(s)
    BY <1>3
  <1>5. Write(1, s, 1) \in Task
    BY <1>3, <1>4, WriteIs
  <1> QED
    BY <1>5 DEF s

\* Bytes and a terminator that the next write overwrites.
LEMMA EndedWrite ==
  ASSUME NEW s \in Seq(NonZero)
  PROVE  Write(Len(s) + 1, Append(s, 0), Len(s)) \in Task
  <1>1. Append(s, 0) \in Seq(Char) /\ Len(Append(s, 0)) = Len(s) + 1 /\ Len(s) \in Nat
    BY AppendZero
  <1>2. Len(s) + 1 \in Nat /\ Len(s) <= Len(s) + 1 /\ Len(s) + 1 <= Len(s) + 1
    BY <1>1
  <1> QED
    BY <1>1, <1>2, WriteIs

\* Bytes without one, in at least their length.
LEMMA PlainWrite ==
  ASSUME NEW s \in Seq(NonZero), NEW n \in Nat, Len(s) <= n
  PROVE  Write(n, s, Len(s)) \in Task
  <1>1. s \in Seq(Char) /\ Len(s) \in Nat /\ Len(s) <= Len(s)
    BY SubChars
  <1> QED
    BY <1>1, WriteIs

LEMMA PairIs ==
  ASSUME NEW S, NEW a \in S, NEW c \in S
  PROVE  <<a, c>> = <<a>> \o <<c>>
  <1> DEFINE u == <<a>> \o <<c>>
             v == <<a, c>>
  <1>1. <<a>> \in Seq(S) /\ <<c>> \in Seq(S)
    OBVIOUS
  <1>2. u \in Seq(S) /\ Len(u) = 2 /\ u[1] = a /\ u[2] = c
    BY <1>1
  <1>3. v \in Seq(S) /\ Len(v) = 2 /\ v[1] = a /\ v[2] = c
    OBVIOUS
  <1> HIDE DEF u, v
  <1>4. \A k \in 1..2 : u[k] = v[k]
    BY <1>2, <1>3
  <1>5. u = v
    BY <1>2, <1>3, <1>4
  <1> QED
    BY <1>5 DEF u, v

LEMMA ArrayIs ==
  ASSUME NEW i, Pointer(items[i].child), NEW depth \in Nat
  PROVE  Plan(PrintArray(i, depth))
  <1> DEFINE a == Write(1, <<LBracket>>, 1)
             c == Call("elements", items[i].child, depth + 1)
  <1>1. a \in Task
    BY OneWrite, CharConsts
  <1>2. c \in Task /\ EndsIn(c)
    <2>1. depth + 1 \in Nat
      OBVIOUS
    <2> QED
      BY <2>1, ElementsTask
  <1>3. PrintArray(i, depth) = <<a, c>>
    BY DEF PrintArray
  <1> HIDE DEF a, c
  <1>4. <<a>> \in Seq(Task) /\ Plan(<<c>>)
    BY <1>1, <1>2, PlanOne, PlanSingle
  <1>5. <<a, c>> = <<a>> \o <<c>>
    BY <1>1, <1>2, PairIs
  <1> QED
    BY <1>3, <1>4, <1>5, PlanAfter

LEMMA ElementPlan ==
  ASSUME NEW i \in Nat, i # 0, Pointer(i), Pointer(items[i].next), NEW depth \in Nat, format \in BOOLEAN
  PROVE  Plan(PrintElement(i, depth))
  <1> DEFINE comma == <<Comma>> \o Optional(format, 32)
             a == Call("value", i, depth)
             b == Write(Len(comma) + 1, Append(comma, 0), Len(comma))
             c == Call("elements", items[i].next, depth)
             x == IF items[i].next = 0 THEN <<>> ELSE <<b>>
  <1>1. comma \in Seq(NonZero)
    <2>1. Optional(format, 32) \in Seq(NonZero) /\ <<Comma>> \in Seq(NonZero)
      BY OptionalIs, CharConsts
    <2> QED
      BY <2>1, ConcatIs
  <1>2. PrintElement(i, depth) = <<a>> \o x \o <<c>>
    BY DEF PrintElement
  <1> HIDE DEF comma
  <1>3. a \in Task /\ b \in Task /\ c \in Task /\ EndsIn(c)
    BY <1>1, ValueTask, EndedWrite, ElementsTask
  <1> HIDE DEF a, b, c
  <1>4. <<a>> \in Seq(Task) /\ x \in Seq(Task) /\ Plan(<<c>>)
    BY <1>3, PlanOne, PlanSingle
  <1> HIDE DEF x
  <1>5. <<a>> \o x \in Seq(Task)
    BY <1>4, ConcatIs
  <1> QED
    BY <1>2, <1>4, <1>5, PlanAfter

LEMMA EndArrayIs == Plan(EndArray)
  <1> DEFINE body == <<RBracket>>
  <1>1. body \in Seq(NonZero) /\ Len(body) = 1 /\ <<RBracket, 0>> = Append(body, 0)
    BY CharConsts
  <1>2. EndArray = <<WriteValue(2, Append(body, 0), 0)>>
    BY <1>1 DEF EndArray
  <1> HIDE DEF body
  <1>3. Len(body) + 1 <= 2 /\ 0 <= Len(body) /\ 2 \in Nat
    BY <1>1
  <1>4. WriteValue(2, Append(body, 0), 0) \in Task /\ EndsIn(WriteValue(2, Append(body, 0), 0))
    BY <1>1, <1>3, WriteValueIs
  <1> QED
    BY <1>2, <1>4, PlanSingle

LEMMA ObjectIs ==
  ASSUME NEW i, Pointer(items[i].child), NEW depth \in Nat, format \in BOOLEAN,
         items[i].child # 0 => items[items[i].child].string # <<>>
  PROVE  Plan(PrintObject(i, depth))
  <1> DEFINE opening == <<LBrace>> \o Optional(format, 10)
             a == Write(Len(opening) + 1, opening, Len(opening))
             c == Call("members", items[i].child, depth + 1)
  <1>1. opening \in Seq(NonZero)
    <2>1. Optional(format, 10) \in Seq(NonZero) /\ <<LBrace>> \in Seq(NonZero)
      BY OptionalIs, CharConsts
    <2> QED
      BY <2>1, ConcatIs
  <1>2. PrintObject(i, depth) = <<a, c>>
    BY DEF PrintObject
  <1> HIDE DEF opening
  <1>3. a \in Task
    <2>1. Len(opening) + 1 \in Nat /\ Len(opening) <= Len(opening) + 1
      BY <1>1
    <2> QED
      BY <1>1, <2>1, PlainWrite
  <1>4. c \in Task /\ EndsIn(c)
    <2>1. depth + 1 \in Nat /\ depth + 1 >= 1
      OBVIOUS
    <2> QED
      BY <2>1, MembersTask
  <1> HIDE DEF a, c
  <1>5. <<a>> \in Seq(Task) /\ Plan(<<c>>)
    BY <1>3, <1>4, PlanOne, PlanSingle
  <1>6. <<a, c>> = <<a>> \o <<c>>
    BY <1>3, <1>4, PairIs
  <1> QED
    BY <1>2, <1>5, <1>6, PlanAfter

LEMMA MemberPlan ==
  ASSUME NEW i \in Nat, i # 0, Pointer(i), Pointer(items[i].next), NEW depth \in Nat, depth >= 1,
         format \in BOOLEAN, items[i].string[1] \in Seq(Char),
         items[i].next # 0 => items[items[i].next].string # <<>>
  PROVE  Plan(PrintMember(i, depth))
  <1> DEFINE colon == <<Colon>> \o Optional(format, 9)
             comma == Optional(items[i].next # 0, Comma) \o Optional(format, 10)
             t == Write(depth, Tabs(depth), depth)
             a == WriteString(CString(items[i].string[1]))
             b == Write(Len(colon), colon, Len(colon))
             c == Call("value", i, depth)
             d == Write(Len(comma) + 1, Append(comma, 0), Len(comma))
             e == Call("members", items[i].next, depth)
             x == IF format THEN <<t>> ELSE <<>>
  <1>1. colon \in Seq(NonZero) /\ comma \in Seq(NonZero)
    <2>1. /\ Optional(format, 9) \in Seq(NonZero) /\ <<Colon>> \in Seq(NonZero)
          /\ Optional(format, 10) \in Seq(NonZero)
      BY OptionalIs, CharConsts
    <2>2. Optional(items[i].next # 0, Comma) \in Seq(NonZero)
      <3>1. PICK more \in BOOLEAN : more = (items[i].next # 0)
        OBVIOUS
      <3>2. Optional(more, Comma) \in Seq(NonZero)
        BY OptionalIs, CharConsts
      <3> QED
        BY <3>1, <3>2
    <2> QED
      BY <2>1, <2>2, ConcatIs
  <1>2. PrintMember(i, depth) = x \o <<a, b, c, d, e>>
    BY DEF PrintMember
  <1> HIDE DEF colon, comma
  <1>3. t \in Task
    <2>1. Tabs(depth) \in Seq(NonZero) /\ Len(Tabs(depth)) = depth /\ depth <= depth
      BY TabsAre
    <2> QED
      BY <2>1, PlainWrite
  <1>4. a \in Task
    BY CStringIs, WriteStringIs
  <1>5. b \in Task /\ d \in Task
    <2>1. Len(colon) \in Nat /\ Len(colon) <= Len(colon)
      BY <1>1
    <2> QED
      BY <1>1, <2>1, PlainWrite, EndedWrite
  <1>6. c \in Task /\ e \in Task /\ EndsIn(e)
    BY ValueTask, MembersTask
  <1> HIDE DEF t, a, b, c, d, e
  <1>7. x \in Seq(Task) /\ <<a, b, c, d>> \in Seq(Task) /\ Plan(<<e>>)
    BY <1>3, <1>4, <1>5, <1>6, PlanOne, PlanSingle
  <1> HIDE DEF x
  <1>8. <<a, b, c, d, e>> = <<a, b, c, d>> \o <<e>>
    OBVIOUS
  <1>9. Plan(<<a, b, c, d, e>>)
    BY <1>7, <1>8, PlanAfter
  <1> QED
    BY <1>2, <1>7, <1>9, PlanAfter

LEMMA EndObjectIs ==
  ASSUME NEW depth \in Nat, depth >= 1, format \in BOOLEAN
  PROVE  Plan(EndObject(depth))
  <1> DEFINE tabs == IF format THEN Tabs(depth - 1) ELSE <<>>
             n == IF format THEN depth + 1 ELSE 2
             body == tabs \o <<RBrace>>
  <1>1. EndObject(depth) = <<WriteValue(n, tabs \o <<RBrace, 0>>, 0)>>
    BY DEF EndObject
  <1>2. tabs \in Seq(NonZero) /\ Len(tabs) + 2 <= n /\ n \in Nat
    <2>1. depth - 1 \in Nat
      OBVIOUS
    <2>2. Tabs(depth - 1) \in Seq(NonZero) /\ Len(Tabs(depth - 1)) = depth - 1
      BY <2>1, TabsAre
    <2>3. CASE format
      <3>1. tabs = Tabs(depth - 1) /\ n = depth + 1
        BY <2>3
      <3> HIDE DEF tabs, n
      <3> QED
        BY <2>2, <3>1
    <2>4. CASE ~format
      <3>1. tabs = <<>> /\ n = 2
        BY <2>4
      <3> HIDE DEF tabs, n
      <3> QED
        BY <3>1
    <2> QED
      BY <2>3, <2>4
  <1> HIDE DEF tabs, n
  <1>3. <<RBrace>> \in Seq(NonZero) /\ Len(<<RBrace>>) = 1 /\ RBrace \in NonZero
    BY CharConsts
  <1>4. body \in Seq(NonZero) /\ Len(body) = Len(tabs) + 1 /\ Len(tabs) \in Nat
    BY <1>2, <1>3, ConcatIs
  <1>5. tabs \o <<RBrace, 0>> = Append(body, 0)
    BY <1>2, <1>3, ConcatTwo
  <1> HIDE DEF body
  <1>6. Len(body) + 1 <= n /\ 0 <= Len(body)
    BY <1>2, <1>4
  <1>7. WriteValue(n, Append(body, 0), 0) \in Task /\ EndsIn(WriteValue(n, Append(body, 0), 0))
    BY <1>2, <1>4, <1>6, WriteValueIs
  <1> QED
    BY <1>1, <1>5, <1>7, PlanSingle

LEMMA LiteralPlan ==
  ASSUME NEW type \in {"null", "false", "true"}
  PROVE  Plan(<<WriteValue(Len(Literal[type]) + 1, Append(Literal[type], 0), 0)>>)
  <1> DEFINE w == Literal[type]
  <1>1. w \in Seq(NonZero)
    <2>0. {97, 101, 102, 108, 110, 114, 115, 116, 117} \subseteq NonZero
      BY SMT DEF NonZero, Char
    <2>1. CASE type = "null"
      <3>1. w = <<110, 117, 108, 108>>
        BY <2>1 DEF Literal
      <3> HIDE DEF w
      <3> QED
        BY <2>0, <3>1
    <2>2. CASE type = "false"
      <3>1. w = <<102, 97, 108, 115, 101>>
        BY <2>2 DEF Literal
      <3> HIDE DEF w
      <3> QED
        BY <2>0, <3>1
    <2>3. CASE type = "true"
      <3>1. w = <<116, 114, 117, 101>>
        BY <2>3 DEF Literal
      <3> HIDE DEF w
      <3> QED
        BY <2>0, <3>1
    <2> QED
      BY <2>1, <2>2, <2>3
  <1> HIDE DEF w
  <1>2. Len(w) \in Nat /\ Len(w) + 1 \in Nat /\ Len(w) + 1 <= Len(w) + 1 /\ 0 <= Len(w)
    BY <1>1
  <1>3. WriteValue(Len(w) + 1, Append(w, 0), 0) \in Task /\ EndsIn(WriteValue(Len(w) + 1, Append(w, 0), 0))
    BY <1>1, <1>2, WriteValueIs
  <1>4. Plan(<<WriteValue(Len(w) + 1, Append(w, 0), 0)>>)
    BY <1>3, PlanSingle
  <1> QED
    BY <1>4 DEF w

\* What the invariant says of a pointer that is printed.
LEMMA Reachable ==
  ASSUME PlaceOK, NEW i \in 1..Len(items)
  PROVE  items[i] \in Item /\ Pointer(items[i].next) /\ Pointer(items[i].child)
  <1>1. items[i] \in Item /\ Len(items) \in Nat
    BY DEF PlaceOK, TypeOK
  <1>2. items[i].next \in Nat /\ items[i].child \in Nat
    BY <1>1, ItemFields
  <1>3. /\ items[i].next # 0 => items[i].next <= Len(items)
        /\ items[i].child # 0 => items[i].child <= Len(items)
    BY DEF PlaceOK, LinksOK
  <1> QED
    BY <1>1, <1>2, <1>3 DEF Pointer

LEMMA ReachableKind ==
  ASSUME PlaceOK, KindOK, pc = "print", NEW i \in 1..Len(items)
  PROVE  /\ items[i].type \in Kinds \ {"invalid"}
         /\ items[i].type = "string" => items[i].valuestring # <<>>
         /\ items[i].type = "object" /\ items[i].child # 0 => items[items[i].child].string # <<>>
         /\ items[i].string # <<>> /\ items[i].next # 0 => items[items[i].next].string # <<>>
  <1>1. items[i].type \in Kinds
    BY Reachable, ItemFields
  <1>2. stack = <<>>
    BY DEF PlaceOK, PhaseOK, Complete
  <1>3. ItemKind(i)
    BY KindIs DEF Unwinding
  <1> QED
    BY <1>1, <1>2, <1>3 DEF ItemKind, Unfinished, Printable, Called

LEMMA StoredIs ==
  ASSUME NEW p \in Seq(Seq(Char)), p # <<>>
  PROVE  p[1] \in Seq(Char)
  OBVIOUS

LEMMA ValuePlan ==
  ASSUME PlaceOK, KindOK, PrintOK, pc = "print", NEW i \in 1..Len(items), NEW depth \in Nat
  PROVE  Plan(PrintValue(i, depth))
  <1>1. /\ items[i] \in Item /\ Pointer(items[i].child) /\ format \in BOOLEAN
    BY Reachable DEF PrintOK
  <1>2. items[i].valuestring \in Seq(Seq(Char)) /\ items[i].number \in Int
    BY <1>1 DEF Item
  <1>3. /\ items[i].type \in Kinds \ {"invalid"}
        /\ items[i].type = "string" => items[i].valuestring # <<>>
        /\ items[i].type = "object" /\ items[i].child # 0 => items[items[i].child].string # <<>>
    BY ReachableKind
  <1>4. CASE items[i].type = "string"
    <2>1. items[i].valuestring[1] \in Seq(Char)
      BY <1>2, <1>3, <1>4, StoredIs
    <2>2. CString(items[i].valuestring[1]) \in Seq(NonZero)
      BY <2>1, CStringIs
    <2>3. PrintValue(i, depth) = <<WriteString(CString(items[i].valuestring[1]))>>
      BY <1>4 DEF PrintValue
    <2> QED
      BY <2>2, <2>3, WriteStringIs, PlanSingle
  <1>5. CASE items[i].type = "number"
    <2>1. PrintValue(i, depth) = <<WriteNumber(items[i].number)>>
      BY <1>5 DEF PrintValue
    <2> QED
      BY <1>2, <2>1, WriteNumberIs, PlanSingle
  <1>6. CASE items[i].type = "array"
    <2>1. PrintValue(i, depth) = PrintArray(i, depth)
      BY <1>6 DEF PrintValue
    <2> QED
      BY <1>1, <2>1, ArrayIs
  <1>7. CASE items[i].type = "object"
    <2>1. PrintValue(i, depth) = PrintObject(i, depth)
      BY <1>7 DEF PrintValue
    <2> QED
      BY <1>1, <1>3, <1>7, <2>1, ObjectIs
  <1>8. CASE items[i].type \in {"null", "false", "true"}
    <2>1. PrintValue(i, depth)
            = <<WriteValue(Len(Literal[items[i].type]) + 1, Append(Literal[items[i].type], 0), 0)>>
      BY <1>8 DEF PrintValue
    <2> QED
      BY <1>8, <2>1, LiteralPlan
  <1> QED
    BY <1>3, <1>4, <1>5, <1>6, <1>7, <1>8 DEF Kinds

LEMMA StepsPlan ==
  ASSUME PlaceOK, KindOK, PrintOK, pc = "print", NEW c \in CallTask, CallReads(c)
  PROVE  Plan(Steps(c))
  <1>1. /\ c.do \in {"value", "elements", "members"} /\ c.item \in Nat /\ c.depth \in Nat
        /\ Len(items) \in Nat /\ format \in BOOLEAN
    BY DEF CallTask, PlaceOK, TypeOK, PrintOK
  <1>2. /\ c.item <= Len(items)
        /\ c.do = "value" => c.item # 0
        /\ c.do = "members" => c.depth >= 1 /\ (c.item # 0 => items[c.item].string # <<>>)
    BY DEF CallReads
  <1> DEFINE i == c.item
             d == c.depth
  <1>3. i \in Nat /\ d \in Nat /\ (i # 0 => i \in 1..Len(items)) /\ Pointer(i)
    BY <1>1, <1>2 DEF Pointer
  <1>4. CASE c.do = "value"
    <2>1. Steps(c) = PrintValue(i, d)
      BY <1>4 DEF Steps
    <2>2. i \in 1..Len(items)
      BY <1>2, <1>3, <1>4
    <2> HIDE DEF i, d
    <2> QED
      BY <1>3, <2>1, <2>2, ValuePlan
  <1>5. CASE c.do = "elements"
    <2>1. Steps(c) = IF i = 0 THEN EndArray ELSE PrintElement(i, d)
      BY <1>5 DEF Steps
    <2> HIDE DEF i, d
    <2>2. CASE i = 0
      BY <2>1, <2>2, EndArrayIs
    <2>3. CASE i # 0
      <3>1. Pointer(items[i].next)
        BY <1>3, <2>3, Reachable
      <3> QED
        BY <1>1, <1>3, <2>1, <2>3, <3>1, ElementPlan
    <2> QED
      BY <2>2, <2>3
  <1>6. CASE c.do = "members"
    <2>1. Steps(c) = IF i = 0 THEN EndObject(d) ELSE PrintMember(i, d)
      BY <1>6 DEF Steps
    <2>2. d >= 1 /\ (i # 0 => items[i].string # <<>>)
      BY <1>2, <1>6
    <2> HIDE DEF i, d
    <2>3. CASE i = 0
      BY <1>1, <1>3, <2>1, <2>2, <2>3, EndObjectIs
    <2>4. CASE i # 0
      <3>1. i \in 1..Len(items) /\ items[i] \in Item /\ Pointer(items[i].next)
        BY <1>3, <2>4, Reachable
      <3>2. items[i].string[1] \in Seq(Char)
        BY <2>2, <2>4, <3>1, ItemFields, StoredIs
      <3>3. items[i].next # 0 => items[items[i].next].string # <<>>
        BY <2>2, <2>4, <3>1, ReachableKind
      <3> QED
        BY <1>1, <1>3, <2>1, <2>2, <2>4, <3>1, <3>2, <3>3, MemberPlan
    <2> QED
      BY <2>3, <2>4
  <1> QED
    BY <1>1, <1>4, <1>5, <1>6

-----------------------------------------------------------------------------
(***************************************************************************)
(* A write stays within what ensure has made of the buffer.                *)
(***************************************************************************)
LEMMA MaxTwo ==
  ASSUME NEW a \in Int, NEW b \in Int
  PROVE  Max({a, b}) \in Int /\ Max({a, b}) >= a /\ Max({a, b}) >= b
  <1>1. \E z \in {a, b} : \A y \in {a, b} : z >= y
    OBVIOUS
  <1>2. Max({a, b}) \in {a, b} /\ \A y \in {a, b} : Max({a, b}) >= y
    BY <1>1 DEF Max
  <1> QED
    BY <1>2

LEMMA GrownIs ==
  ASSUME NEW n \in Nat, printed \in Nat, size \in Nat, size <= Max({IntMax, DefaultSize}),
         Grown(n) > 0
  PROVE  Grown(n) \in Nat /\ n + printed + 1 <= Grown(n) /\ Grown(n) <= Max({IntMax, DefaultSize})
  <1> DEFINE all == n + printed + 1
             most == Max({IntMax, DefaultSize})
  <1>1. IntMax \in Nat /\ most \in Int /\ most >= IntMax /\ all \in Nat
    <2>1. IntMax \in Nat /\ DefaultSize \in Nat /\ IntMax \in Int /\ DefaultSize \in Int
      BY SizeAssumption
    <2> QED
      BY <2>1, MaxTwo
  <1>2. Grown(n) = IF printed >= size \/ n > IntMax THEN 0
                   ELSE IF all <= size THEN size
                   ELSE IF all <= IntMax \div 2 THEN all * 2
                   ELSE IF all <= IntMax THEN IntMax ELSE 0
    BY DEF Grown
  <1>3. size <= most
    OBVIOUS
  <1> HIDE DEF most, all
  <1>4. all <= IntMax \div 2 => all * 2 <= IntMax /\ all * 2 \in Nat /\ all <= all * 2
    BY <1>1, SMT
  <1>5. Grown(n) \in Nat /\ all <= Grown(n) /\ Grown(n) <= most
    <2>1. Grown(n) # 0
      OBVIOUS
    <2> QED
      BY <1>1, <1>2, <1>3, <1>4, <2>1
  <1> QED
    BY <1>5 DEF most, all

\* What the buffer holds after a write.
LEMMA WrittenIs ==
  ASSUME NEW b \in Seq(Char), NEW p \in Nat, p <= Len(b), NEW s \in Seq(Char),
         NEW after, after = SubSeq(b, 1, p) \o s
  PROVE  /\ after \in Seq(Char) /\ Len(after) = p + Len(s)
         /\ \A k \in 1..Len(s) : after[p + k] = s[k]
  <1> DEFINE front == SubSeq(b, 1, p)
  <1>1. front \in Seq(Char) /\ Len(front) = p
    OBVIOUS
  <1>2. after = front \o s
    OBVIOUS
  <1> HIDE DEF front
  <1> QED
    BY <1>1, <1>2, SMTT(30)

LEMMA StrlenAfter ==
  ASSUME NEW b \in Seq(Char), NEW body \in Seq(NonZero), NEW p \in Nat, NEW d \in Nat,
         d <= Len(body), Len(b) = p + Len(body) + 1,
         \A k \in 1..Len(body) + 1 : b[p + k] = Append(body, 0)[k]
  PROVE  Strlen(b, p + d) = Len(body) - d /\ b[p + Len(body) + 1] = 0
  <1> DEFINE n == Len(body)
             s == SubSeq(b, p + d + 1, Len(b))
             z == n - d + 1
  <1>1. /\ n \in Nat /\ Append(body, 0)[n + 1] = 0
        /\ \A k \in 1..n : Append(body, 0)[k] = body[k] /\ body[k] # 0
    <2>1. Append(body, 0)[Len(body) + 1] = 0 /\ \A k \in 1..Len(body) : Append(body, 0)[k] = body[k]
      OBVIOUS
    <2>2. \A k \in 1..Len(body) : body[k] # 0
      BY DEF NonZero
    <2> QED
      BY <2>1, <2>2
  <1>2. b[p + n + 1] = 0
    <2>1. n + 1 \in 1..n + 1 /\ p + (n + 1) = p + n + 1
      BY <1>1
    <2> QED
      BY <1>1, <2>1
  <1>3. \A k \in 1..n : b[p + k] # 0
    <2>1. \A k \in 1..n : k \in 1..n + 1
      BY <1>1
    <2> QED
      BY <1>1, <2>1
  <1> HIDE DEF n
  <1>4. /\ s \in Seq(Char) /\ Len(s) = z
        /\ \A k \in 1..z : s[k] = b[p + d + k]
    <2>1. p + d + 1 \in Nat /\ Len(b) = p + n + 1 /\ d <= n /\ n = Len(body)
      BY <1>1 DEF n
    <2>2. Len(b) - (p + d + 1) + 1 = z /\ z \in Nat /\ z >= 1
      BY <1>1, <2>1
    <2> DEFINE q == p + d + 1
    <2>3. q \in Nat /\ q >= 1 /\ q <= Len(b) /\ Len(b) \in Nat /\ Len(b) - q + 1 = z
      BY <1>1, <2>1, <2>2
    <2> HIDE DEF q, z
    <2>4. Len(SubSeq(b, q, Len(b))) = z /\ \A k \in 1..z : SubSeq(b, q, Len(b))[k] = b[q + k - 1]
      BY <2>3
    <2>5. SubSeq(b, q, Len(b)) \in Seq(Char)
      BY <2>3
    <2>6. \A k \in 1..z : q + k - 1 = p + d + k
      BY <2>2 DEF q
    <2> QED
      BY <2>4, <2>5, <2>6 DEF q
  <1>5. z \in 1..z /\ s[z] = 0 /\ \A k \in 1..z - 1 : s[k] # 0
    <2>1. d <= n
      BY DEF n
    <2>2. z \in 1..z /\ p + d + z = p + n + 1
      BY <1>1, <2>1
    <2>3. ASSUME NEW k \in 1..z - 1 PROVE s[k] # 0
      <3>1. k \in 1..z /\ d + k \in 1..n /\ p + d + k = p + (d + k)
        BY <1>1, <2>1
      <3> HIDE DEF s, z
      <3> QED
        BY <1>3, <1>4, <3>1
    <2> HIDE DEF s, z
    <2> QED
      BY <1>2, <1>4, <2>2, <2>3
  <1>6. Strlen(b, p + d) = Len(CString(s))
    BY DEF Strlen
  <1> HIDE DEF s
  <1>7. Len(CString(s)) = z - 1
    BY <1>4, <1>5, StrlenIs
  <1>8. z - 1 = n - d
    BY <1>1
  <1> QED
    BY <1>2, <1>6, <1>7, <1>8 DEF n

-----------------------------------------------------------------------------
LEMMA HeadIs ==
  ASSUME NEW S, NEW s \in Seq(S), s # <<>>
  PROVE  /\ Head(s) \in S /\ Tail(s) \in Seq(S)
         /\ Tail(s) = <<>> => Last(s) = Head(s)
         /\ Tail(s) # <<>> => Last(s) = Last(Tail(s))
  <1> DEFINE n == Len(s)
             t == Tail(s)
  <1>1. n \in Nat /\ n >= 1 /\ Head(s) = s[1] /\ s[1] \in S
    OBVIOUS
  <1>2. t \in Seq(S) /\ Len(t) = n - 1 /\ \A k \in 1..n - 1 : t[k] = s[k + 1]
    OBVIOUS
  <1>3. Last(s) = s[n] /\ Last(t) = t[Len(t)]
    BY DEF Last
  <1> HIDE DEF n, t
  <1>4. t = <<>> => n = 1
    BY <1>1, <1>2
  <1>5. t # <<>> => n - 1 \in 1..n - 1 /\ (n - 1) + 1 = n
    BY <1>1, <1>2
  <1> QED
    BY <1>1, <1>2, <1>3, <1>4, <1>5 DEF t

LEMMA MostIs ==
  /\ Max({IntMax, DefaultSize}) \in Int /\ Max({IntMax, DefaultSize}) >= 0
  /\ Max({IntMax, DefaultSize}) >= DefaultSize
  <1> DEFINE most == Max({IntMax, DefaultSize})
  <1>1. IntMax \in Nat /\ DefaultSize \in Nat /\ IntMax \in Int /\ DefaultSize \in Int
    BY SizeAssumption
  <1>2. most \in Int /\ most >= IntMax /\ most >= DefaultSize
    BY <1>1, MaxTwo
  <1> HIDE DEF most
  <1>3. most >= 0
    BY <1>1, <1>2
  <1> QED
    BY <1>2, <1>3 DEF most

\* The buffer is gone.
LEMMA PrintUnprinted ==
  ASSUME PrintOK, pc = "print", Unprinted, UNCHANGED <<format, said>>
  PROVE  PrintOK'
  <1>1. size' = 0 /\ buffer' = <<>> /\ printed' = printed /\ pc' = "unprinted" /\ format' = format
    BY DEF Unprinted
  <1>2. Max({IntMax, DefaultSize}) \in Int /\ Max({IntMax, DefaultSize}) >= 0
    BY MostIs
  <1> DEFINE most == Max({IntMax, DefaultSize})
  <1> HIDE DEF most
  <1>3. buffer' \in Seq(Char) /\ Len(buffer') <= size' /\ size' \in Nat /\ size' <= most
    BY <1>1, <1>2 DEF most
  <1> QED
    BY <1>1, <1>3 DEF PrintOK, most

LEMMA PrintCallKeeps ==
  ASSUME PlaceOK, KindOK, PrintOK, PrintCall, UNCHANGED said
  PROVE  PrintOK'
  <1>1. /\ pc = "print" /\ pc' = pc /\ tasks # <<>> /\ Head(tasks).do # "write"
        /\ tasks' = Steps(Head(tasks)) \o Tail(tasks)
        /\ UNCHANGED <<items, buffer, size, printed, format, said>>
    BY DEF PrintCall, tree, parser
  <1>2. tasks \in Seq(Task) /\ printed < size /\ printed <= Len(buffer) /\ EndsIn(Last(tasks))
    BY <1>1 DEF PrintOK
  <1> DEFINE c == Head(tasks)
             t == Tail(tasks)
  <1>3. c \in Task /\ t \in Seq(Task) /\ (t # <<>> => EndsIn(Last(t)))
    BY <1>1, <1>2, HeadIs
  <1>4. c \in CallTask /\ CallReads(c)
    <2>1. c.do # "write"
      BY <1>1
    <2> HIDE DEF c
    <2> QED
      BY <1>3, <2>1 DEF Task, WriteTask
  <1>5. Plan(Steps(c))
    BY <1>1, <1>4, StepsPlan
  <1>6. Plan(Steps(c) \o t)
    <2>1. CASE t = <<>>
      <3>1. Steps(c) \in Seq(Task)
        BY <1>5 DEF Plan
      <3> PICK u \in Seq(Task) : u = Steps(c)
        BY <3>1
      <3>2. u \o <<>> = u
        OBVIOUS
      <3>3. Steps(c) \o t = Steps(c)
        BY <2>1, <3>2
      <3> QED
        BY <1>5, <3>3
    <2>2. CASE t # <<>>
      <3>1. Plan(t)
        BY <1>3, <2>2 DEF Plan
      <3> HIDE DEF t, c
      <3> QED
        BY <1>5, <3>1, PlanAfter DEF Plan
    <2> QED
      BY <2>1, <2>2
  <1>7. tasks' = Steps(c) \o t
    BY <1>1
  <1> HIDE DEF c, t
  <1>8. tasks' \in Seq(Task) /\ tasks' # <<>> /\ EndsIn(Last(tasks'))
    BY <1>6, <1>7 DEF Plan
  <1>9. Task' = Task
    BY <1>1 DEF Task, CallReads, WriteFits, WriteTask, CallTask
  <1> QED
    BY <1>1, <1>2, <1>8, <1>9 DEF PrintOK, Terminated, EndsIn

LEMMA PrintWriteKeeps ==
  ASSUME PrintOK, PrintWrite, UNCHANGED said
  PROVE  PrintOK'
  <1> DEFINE w == Head(tasks)
             t == Tail(tasks)
             grown == Grown(w.needed)
             after == SubSeq(buffer, 1, printed) \o w.bytes
             most == Max({IntMax, DefaultSize})
  <1>1. /\ pc = "print" /\ tasks # <<>> /\ w.do = "write" /\ UNCHANGED <<items, format>>
        /\ \/ /\ grown > 0 /\ size' = grown /\ buffer' = after
              /\ printed' = printed + w.advance
                            + (IF w.update THEN Strlen(after, printed + w.advance) ELSE 0)
              /\ tasks' = t /\ UNCHANGED <<fails, pc>>
           \/ Unprinted
    BY DEF PrintWrite
  <1>2. CASE Unprinted
    BY <1>1, <1>2, PrintUnprinted
  <1>3. CASE /\ grown > 0 /\ size' = grown /\ buffer' = after
             /\ printed' = printed + w.advance
                           + (IF w.update THEN Strlen(after, printed + w.advance) ELSE 0)
             /\ tasks' = t /\ UNCHANGED <<fails, pc>>
    <2>1. /\ tasks \in Seq(Task) /\ buffer \in Seq(Char) /\ printed \in Nat /\ size \in Nat
          /\ printed < size /\ printed <= Len(buffer) /\ size <= most /\ EndsIn(Last(tasks))
          /\ format \in BOOLEAN /\ said # <<>>
      BY <1>1 DEF PrintOK
    <2>2. /\ w \in Task /\ t \in Seq(Task)
          /\ t = <<>> => EndsIn(w)
          /\ t # <<>> => EndsIn(Last(t))
      BY <1>1, <2>1, HeadIs
    <2>3. w \in WriteTask /\ WriteFits(w)
      <3>1. w.do = "write"
        BY <1>1
      <3> HIDE DEF w
      <3> QED
        BY <2>2, <3>1 DEF Task, CallTask
    <2> DEFINE bytes == w.bytes
               advance == w.advance
    <2>4. /\ w.needed \in Nat /\ bytes \in Seq(Char) /\ advance \in Nat /\ w.update \in BOOLEAN
      <3> HIDE DEF w
      <3> QED
        BY <2>3 DEF WriteTask
    <2>5. /\ Len(bytes) <= w.needed /\ advance <= Len(bytes)
          /\ w.update => \E body \in Seq(NonZero) : bytes = Append(body, 0) /\ advance <= Len(body)
      BY <2>3 DEF WriteFits
    <2>6. grown \in Nat /\ w.needed + printed + 1 <= grown /\ grown <= most
      BY <1>3, <2>1, <2>4, GrownIs
    <2>7. after \in Seq(Char) /\ Len(after) = printed + Len(bytes)
          /\ \A k \in 1..Len(bytes) : after[printed + k] = bytes[k]
      <3>1. after = SubSeq(buffer, 1, printed) \o bytes
        OBVIOUS
      <3> HIDE DEF after, bytes, w, t, grown, most, advance
      <3>2. bytes \in Seq(Char) /\ buffer \in Seq(Char) /\ printed \in Nat /\ printed <= Len(buffer)
        BY <2>1, <2>4
      <3> QED
        BY <3>1, <3>2, WrittenIs
    <2>8. w.do = "write" /\ (t = <<>> => w.update)
      BY <1>1, <2>2 DEF EndsIn
    <2>9. Task' = Task
      BY <1>1 DEF Task, CallReads, WriteFits, WriteTask, CallTask
    <2>10. /\ size' = grown /\ buffer' = after /\ tasks' = t /\ pc' = pc /\ pc = "print"
           /\ format' = format /\ said' = said
           /\ printed' = printed + advance
                         + (IF w.update THEN Strlen(after, printed + advance) ELSE 0)
      BY <1>1, <1>3
    <2> DEFINE needed == w.needed
               update == w.update
    <2>u. update \in BOOLEAN /\ needed \in Nat
      BY <2>4
    <2> HIDE DEF w, t, grown, after, most, bytes, advance, needed, update
    <2>11. Len(bytes) \in Nat /\ Len(after) < grown /\ Len(after) <= grown
      <3>1. Len(bytes) <= needed /\ needed + printed + 1 <= grown
        BY <2>5, <2>6 DEF needed
      <3> QED
        BY <2>1, <2>u, <2>4, <2>6, <2>7, <3>1
    <2>12. /\ printed' \in Nat /\ printed' <= Len(after)
           /\ update => Len(after) = printed' + 1 /\ after[printed' + 1] = 0
      <3>1. CASE ~update
        <4>1. printed' = printed + advance
          BY <2>1, <2>4, <2>10, <3>1 DEF update
        <4>2. advance <= Len(bytes)
          BY <2>5
        <4> QED
          BY <2>1, <2>4, <2>7, <2>11, <3>1, <4>1, <4>2
      <3>2. CASE update
        <4>1. PICK body \in Seq(NonZero) : bytes = Append(body, 0) /\ advance <= Len(body)
          BY <2>5, <3>2 DEF update
        <4>2. Len(bytes) = Len(body) + 1 /\ Len(body) \in Nat
          BY <4>1
        <4>3. Len(after) = printed + Len(body) + 1
          BY <2>1, <2>7, <4>2
        <4>4. \A k \in 1..Len(body) + 1 : after[printed + k] = Append(body, 0)[k]
          BY <2>7, <4>1, <4>2
        <4>5. Strlen(after, printed + advance) = Len(body) - advance
              /\ after[printed + Len(body) + 1] = 0
          BY <2>1, <2>4, <2>7, <4>1, <4>3, <4>4, StrlenAfter
        <4>6. printed' = printed + advance + Strlen(after, printed + advance)
          BY <2>10, <3>2 DEF update
        <4>7. printed' = printed + Len(body)
          BY <2>1, <2>4, <4>2, <4>5, <4>6
        <4> QED
          BY <2>1, <4>2, <4>3, <4>5, <4>7
      <3> QED
        BY <2>u, <3>1, <3>2
    <2>13. printed' < grown
      BY <2>6, <2>7, <2>11, <2>12, <2>1
    <2>14. t = <<>> => Len(after) = printed' + 1 /\ after[printed' + 1] = 0
      BY <2>8, <2>12 DEF update
    <2>15. /\ buffer' \in Seq(Char) /\ size' \in Nat /\ printed' \in Nat /\ format' \in BOOLEAN
           /\ Len(buffer') <= size' /\ size' <= most
           /\ tasks' \in Seq(Task)' /\ printed' < size' /\ printed' <= Len(buffer')
           /\ tasks' # <<>> => EndsIn(Last(tasks'))
           /\ tasks' = <<>> => Len(buffer') = printed' + 1 /\ buffer'[printed' + 1] = 0
           /\ said' # <<>> /\ pc' = "print"
      BY <2>1, <2>2, <2>6, <2>7, <2>9, <2>10, <2>11, <2>12, <2>13, <2>14
    <2> QED
      BY <2>15 DEF PrintOK, Terminated, EndsIn, most
  <1> QED
    BY <1>1, <1>2, <1>3

LEMMA PrintDoneKeeps ==
  ASSUME PrintOK, PrintDone, UNCHANGED said
  PROVE  PrintOK'
  <1> DEFINE most == Max({IntMax, DefaultSize})
  <1>1. /\ pc = "print" /\ tasks = <<>> /\ format' = format /\ said' = said
        /\ \/ /\ pc' = "printed" /\ size' = printed + 1
              /\ UNCHANGED <<buffer, printed, tasks, fails>>
           \/ Unprinted
    BY DEF PrintDone
  <1>2. CASE Unprinted
    BY <1>1, <1>2, PrintUnprinted
  <1>3. CASE /\ pc' = "printed" /\ size' = printed + 1
             /\ UNCHANGED <<buffer, printed, tasks, fails>>
    <2>1. /\ buffer \in Seq(Char) /\ printed \in Nat /\ size \in Nat /\ printed < size
          /\ size <= most /\ Terminated /\ format \in BOOLEAN /\ said # <<>>
      BY <1>1 DEF PrintOK
    <2>2. most \in Int
      BY MostIs
    <2> HIDE DEF most
    <2>3. size' \in Nat /\ size' <= most /\ Len(buffer') <= size'
      BY <1>3, <2>1, <2>2 DEF Terminated
    <2>4. Terminated'
      BY <1>3, <2>1 DEF Terminated
    <2> QED
      BY <1>1, <1>3, <2>1, <2>3, <2>4 DEF PrintOK, most
  <1> QED
    BY <1>1, <1>2, <1>3

LEMMA PrintStartKeeps ==
  ASSUME PlaceOK, PrintOK, PrintTree
  PROVE  PrintOK'
  <1> DEFINE most == Max({IntMax, DefaultSize})
             c == Call("value", root, 0)
  <1>1. /\ said = <<>> /\ said' # <<>> /\ pc = "tree" /\ format' \in BOOLEAN
        /\ \/ size' = DefaultSize /\ tasks' = <<c>> /\ pc' = "print"
           \/ pc' = "unprinted" /\ UNCHANGED <<size, tasks>>
        /\ buffer' = <<>> /\ printed' = 0 /\ items' = items
    BY DEF PrintTree, StartPrint
  <1>2. size = 0
    BY <1>1 DEF PrintOK
  <1>3. most \in Int /\ DefaultSize \in Nat /\ DefaultSize > 0 /\ DefaultSize <= most /\ 0 <= most
    <2>1. DefaultSize \in Nat /\ DefaultSize > 0 /\ most \in Int /\ most >= 0 /\ most >= DefaultSize
      BY SizeAssumption, MostIs
    <2> HIDE DEF most
    <2> QED
      BY <2>1
  <1> HIDE DEF most
  <1>4. /\ buffer' \in Seq(Char) /\ size' \in Nat /\ printed' \in Nat /\ Len(buffer') = 0
        /\ Len(buffer') <= size' /\ size' <= most
    BY <1>1, <1>2, <1>3
  <1>5. CASE pc' = "unprinted" /\ UNCHANGED <<size, tasks>>
    BY <1>1, <1>2, <1>4, <1>5 DEF PrintOK, most
  <1>6. CASE size' = DefaultSize /\ tasks' = <<c>> /\ pc' = "print"
    <2>1. root \in Nat /\ root # 0 /\ root <= Len(items) /\ Pointer(root)
      BY <1>1 DEF PlaceOK, TypeOK, PhaseOK, Pointer
    <2>2. c \in Task /\ EndsIn(c)
      BY <2>1, ValueTask
    <2> HIDE DEF c
    <2>3. Plan(<<c>>)
      BY <2>2, PlanSingle
    <2>4. tasks' \in Seq(Task) /\ tasks' # <<>> /\ EndsIn(Last(tasks'))
      BY <1>6, <2>3 DEF Plan
    <2>5. Task' = Task
      BY <1>1 DEF Task, CallReads, WriteFits, WriteTask, CallTask
    <2>6. printed' < size' /\ printed' <= Len(buffer')
      BY <1>1, <1>3, <1>4, <1>6
    <2> QED
      BY <1>1, <1>4, <1>6, <2>4, <2>5, <2>6 DEF PrintOK, EndsIn, most
  <1> QED
    BY <1>1, <1>5, <1>6

\* The parser, the builder and cJSON_Delete leave the print buffer alone.
LEMMA PrintOther ==
  ASSUME PrintOK, UNCHANGED <<printbuffer, said>>, pc' \notin {"print", "printed"},
         pc' = "unprinted" => pc = "unprinted"
  PROVE  PrintOK'
  BY DEF PrintOK, printbuffer

LEMMA PrintKeeps ==
  ASSUME PlaceOK, KindOK, PrintOK, [Next]_vars
  PROVE  PrintOK'
  <1>1. CASE PrintTree
    BY <1>1, PrintStartKeeps
  <1>2. CASE PrintStep
    BY <1>2, PrintCallKeeps, PrintWriteKeeps, PrintDoneKeeps DEF PrintStep
  <1>3. CASE Create
    BY <1>3, PrintOther DEF Create
  <1>4. CASE Add
    BY <1>4, PrintOther DEF Add, parser
  <1>5. CASE DeleteTree
    BY <1>5, PrintOther DEF DeleteTree
  <1>6. CASE ParseStep
    <2>1. pc' \notin {"print", "printed", "unprinted"} /\ UNCHANGED <<printbuffer, said>>
      BY <1>6 DEF ParseStep, Parse, ParseWithLengthOpts, ParseLiteral, ParseString, ParseNumber, Open,
         NoValue, Element, Name, AfterValue, Unwind, Valued, Fail
    <2> QED
      BY <2>1, PrintOther
  <1>7. CASE UNCHANGED vars
    <2>1. UNCHANGED <<items, pc, buffer, size, printed, format, tasks, said>>
      BY <1>7 DEF vars, tree, parser, printbuffer
    <2>2. Task' = Task
      BY <2>1 DEF Task, CallReads, WriteFits, WriteTask, CallTask
    <2> QED
      BY <2>1, <2>2 DEF PrintOK, Terminated, EndsIn
  <1> QED
    BY <1>1, <1>2, <1>3, <1>4, <1>5, <1>6, <1>7 DEF Next

LEMMA PrintInit ==
  ASSUME Init
  PROVE  PrintOK
  <1>1. buffer = <<>> /\ size = 0 /\ printed = 0 /\ format = FALSE /\ pc \in {"parse", "create"}
    BY DEF Init
  <1> DEFINE most == Max({IntMax, DefaultSize})
  <1>2. most \in Int /\ most >= 0
    BY MostIs
  <1> HIDE DEF most
  <1>3. buffer \in Seq(Char) /\ Len(buffer) = 0 /\ Len(buffer) <= size /\ size <= most
    BY <1>1, <1>2
  <1> QED
    BY <1>1, <1>3 DEF PrintOK, most

-----------------------------------------------------------------------------
(***************************************************************************)
(* What the decoder reads of the bytes that the encoder wrote.             *)
(***************************************************************************)
LEMMA DecodedOne ==
  ASSUME NEW a \in Nat, a < 128
  PROVE  Decoded(<<a>>) = a
  <1> DEFINE s == <<a>>
  <1>1. Len(s) = 1 /\ s[1] = a
    OBVIOUS
  <1> HIDE DEF s
  <1>2. Decoded(s) = a
    BY <1>1, SMT DEF Decoded
  <1> QED
    BY <1>2 DEF s

LEMMA DecodedTwo ==
  ASSUME NEW a \in Nat, 2 <= a, a <= 31, NEW b \in Nat, b <= 63
  PROVE  Decoded(<<192 + a, 128 + b>>) = a * 64 + b
  <1> DEFINE s == <<192 + a, 128 + b>>
  <1>1. Len(s) = 2 /\ s[1] = 192 + a /\ s[2] = 128 + b
    OBVIOUS
  <1> HIDE DEF s
  <1>2. \A k \in 2..2 : k = 2
    OBVIOUS
  <1>3. Decoded(s) = a * 64 + b
    BY <1>1, <1>2, SMT DEF Decoded
  <1> QED
    BY <1>3 DEF s

LEMMA DecodedThree ==
  ASSUME NEW a \in Nat, a <= 15, NEW b \in Nat, b <= 63, NEW c \in Nat, c <= 63, a > 0 \/ b > 31
  PROVE  Decoded(<<224 + a, 128 + b, 128 + c>>) = (a * 64 + b) * 64 + c
  <1> DEFINE s == <<224 + a, 128 + b, 128 + c>>
  <1>1. Len(s) = 3 /\ s[1] = 224 + a /\ s[2] = 128 + b /\ s[3] = 128 + c
    OBVIOUS
  <1> HIDE DEF s
  <1>2. \A k \in 2..3 : k = 2 \/ k = 3
    OBVIOUS
  <1>3. Decoded(s) = (a * 64 + b) * 64 + c
    BY <1>1, <1>2, SMT DEF Decoded
  <1> QED
    BY <1>3 DEF s

LEMMA DecodedFour ==
  ASSUME NEW a \in Nat, a <= 4, NEW b \in Nat, b <= 63, NEW c \in Nat, c <= 63,
         NEW d \in Nat, d <= 63, a > 0 \/ b > 15
  PROVE  Decoded(<<240 + a, 128 + b, 128 + c, 128 + d>>) = ((a * 64 + b) * 64 + c) * 64 + d
  <1> DEFINE s == <<240 + a, 128 + b, 128 + c, 128 + d>>
  <1>1. Len(s) = 4 /\ s[1] = 240 + a /\ s[2] = 128 + b /\ s[3] = 128 + c /\ s[4] = 128 + d
    OBVIOUS
  <1> HIDE DEF s
  <1>2. \A k \in 2..4 : k = 2 \/ k = 3 \/ k = 4
    OBVIOUS
  <1>3. Decoded(s) = ((a * 64 + b) * 64 + c) * 64 + d
    BY <1>1, <1>2, SMT DEF Decoded
  <1> QED
    BY <1>3 DEF s

LEMMA DecodedUtf8 ==
  ASSUME NEW c \in Nat, c < 1114112
  PROVE  Decoded(Utf8(c)) = c
  <1>1. CASE c < 128
    BY <1>1, Utf8One, DecodedOne, SMT
  <1>2. CASE 128 <= c /\ c < 2048
    <2> DEFINE x == c \div 64
               y == c % 64
    <2>1. Utf8(c) = <<192 + x, 128 + y>> /\ x \in 2..31 /\ y \in 0..63
      BY <1>2, Utf8Two, SMT
    <2>2. c = x * 64 + y
      BY SMT
    <2> HIDE DEF x, y
    <2> QED
      BY <2>1, <2>2, DecodedTwo, SMT
  <1>3. CASE 2048 <= c /\ c < 65536
    <2> DEFINE x == c \div 4096
               y == (c \div 64) % 64
               z == c % 64
    <2>1. Utf8(c) = <<224 + x, 128 + y, 128 + z>> /\ x \in 0..15 /\ y \in 0..63 /\ z \in 0..63
      BY <1>3, Utf8Three, SMT
    <2>2. c = (x * 64 + y) * 64 + z /\ (x > 0 \/ y > 31)
      BY <1>3, SMT
    <2> HIDE DEF x, y, z
    <2> QED
      BY <2>1, <2>2, DecodedThree, SMT
  <1>4. CASE 65536 <= c
    <2> DEFINE w == c \div 262144
               x == (c \div 4096) % 64
               y == (c \div 64) % 64
               z == c % 64
    <2>0. c \in Nat /\ 65536 <= c /\ c < 1114112
      BY <1>4, SMT
    <2>1. Utf8(c) = <<240 + w, 128 + x, 128 + y, 128 + z>>
      BY <2>0, Utf8Four, SMT
    <2>2. /\ w \in Nat /\ w <= 4 /\ x \in Nat /\ x <= 63
          /\ y \in Nat /\ y <= 63 /\ z \in Nat /\ z <= 63
      BY <2>0, SMT
    <2>3. c = ((w * 64 + x) * 64 + y) * 64 + z /\ (w > 0 \/ x > 15)
      BY <1>4, SMT
    <2> HIDE DEF w, x, y, z
    <2>4. Decoded(<<240 + w, 128 + x, 128 + y, 128 + z>>) = ((w * 64 + x) * 64 + y) * 64 + z
      BY <2>2, <2>3, DecodedFour, SMT
    <2> QED
      BY <2>1, <2>3, <2>4
  <1> QED
    BY <1>1, <1>2, <1>3, <1>4, SMT

LEMMA LiteralDecoded ==
  ASSUME text \in Seq(Char), NEW i \in Nat, NEW e \in Int
  PROVE  LET literal == Utf16Literal(text, i, e)
         IN /\ literal.length \in {0, 6, 12}
            /\ literal.length = 6 => ~Surrogate(CodeUnit(i)) /\ Decoded(literal.out) = CodeUnit(i)
            /\ literal.length = 12 => Decoded(literal.out) = CodePoint(i)
  <1> DEFINE first == Hex4(text, i + 2)
             second == Hex4(text, i + 8)
             c == 65536 + (first % 1024) * 1024 + (second % 1024)
             None == [length |-> 0, out |-> <<>>]
             literal == Utf16Literal(text, i, e)
  <1>1. first \in Nat /\ first < 65536 /\ second \in Nat /\ second < 65536
    <2>1. i + 2 \in Nat /\ i + 8 \in Nat
      OBVIOUS
    <2>2. Bits16(first) /\ Bits16(second)
      BY <2>1, Hex4Range
    <2> HIDE DEF first, second
    <2> QED
      BY <2>2, SMT DEF Bits16
  <1>2. CodeUnit(i) = first /\ CodeUnit(i + 6) = second
    <2>1. i + 6 + 2 = i + 8
      OBVIOUS
    <2> QED
      BY <2>1 DEF CodeUnit
  <1>3. literal =
          IF e - i < 6 \/ LowSurrogate(first) THEN None
          ELSE IF ~HighSurrogate(first) THEN [length |-> 6, out |-> Utf8(first)]
          ELSE IF \/ e - (i + 6) < 6
                  \/ Bytes(text, i + 6, 2) # <<Backslash, 117>>
                  \/ ~LowSurrogate(second)
               THEN None
          ELSE [length |-> 12, out |-> Utf8(c)]
    BY DEF Utf16Literal
  <1> HIDE DEF first, second, literal
  <1>4. CASE literal = None
    BY <1>4 DEF literal
  <1>5. CASE literal = [length |-> 6, out |-> Utf8(first)] /\ ~LowSurrogate(first) /\ ~HighSurrogate(first)
    <2>1. Decoded(Utf8(first)) = first
      <3>1. first < 1114112
        BY <1>1, SMT
      <3> QED
        BY <1>1, <3>1, DecodedUtf8, SMT
    <2>2. literal.length = 6 /\ literal.out = Utf8(first)
      BY <1>5
    <2> QED
      BY <1>2, <1>5, <2>1, <2>2 DEF literal, Surrogate
  <1>6. CASE literal = [length |-> 12, out |-> Utf8(c)] /\ LowSurrogate(second) /\ HighSurrogate(first)
    <2>1. c \in Nat /\ c < 1114112 /\ c = 65536 + 1024 * (first - 55296) + (second - 56320)
      BY <1>1, <1>6, SMT DEF HighSurrogate, LowSurrogate
    <2> HIDE DEF c
    <2>2. Decoded(Utf8(c)) = c
      BY <2>1, DecodedUtf8, SMT
    <2>3. literal.length = 12 /\ literal.out = Utf8(c)
      BY <1>6
    <2>4. Decoded(literal.out) = CodePoint(i)
      BY <1>2, <2>1, <2>2, <2>3, SMT DEF CodePoint
    <2> QED
      BY <2>3, <2>4 DEF literal
  <1> HIDE DEF c, None
  <1>7. \/ literal = None
        \/ literal = [length |-> 6, out |-> Utf8(first)] /\ ~LowSurrogate(first) /\ ~HighSurrogate(first)
        \/ literal = [length |-> 12, out |-> Utf8(c)] /\ LowSurrogate(second) /\ HighSurrogate(first)
    BY <1>3
  <1> QED
    BY <1>4, <1>5, <1>6, <1>7

-----------------------------------------------------------------------------
(***************************************************************************)
(* The heap.  What a pointer reaches is computed from the last item down.  *)
(***************************************************************************)
Follows(g, n, z, step, a, b) ==
  g[0] = z /\ \A k \in 1..n : g[k] = step[k][<<g[a[k]], g[b[k]]>>]

LEMMA Descend ==
  ASSUME NEW n \in Nat, NEW S, NEW z \in S, NEW step \in [1..n -> [S \X S -> S]],
         NEW a \in [1..n -> Nat], NEW b \in [1..n -> Nat],
         \A k \in 1..n : (a[k] # 0 => k < a[k] /\ a[k] <= n) /\ (b[k] # 0 => k < b[k] /\ b[k] <= n)
  PROVE  \E g \in [0..n -> S] : Follows(g, n, z, step, a, b)
  <1> DEFINE Right(g, m) == g[0] = z /\ \A k \in m..n : g[k] = step[k][<<g[a[k]], g[b[k]]>>]
             Done == {d \in 0..n : \E g \in [0..n -> S] : Right(g, n - d + 1)}
  <1>1. 0 \in Done
    <2> DEFINE g == [k \in 0..n |-> z]
    <2>1. g \in [0..n -> S] /\ g[0] = z /\ n - 0 + 1 = n + 1 /\ (n + 1)..n = {}
      OBVIOUS
    <2> HIDE DEF g
    <2>2. Right(g, n - 0 + 1)
      BY <2>1
    <2> HIDE DEF Right
    <2> QED
      BY <2>1, <2>2
  <1>2. ASSUME NEW d \in 1..n, d - 1 \in Done PROVE d \in Done
    <2> DEFINE m == n - d + 1
    <2>1. m \in 1..n /\ n - (d - 1) + 1 = m + 1
      OBVIOUS
    <2>2. PICK g \in [0..n -> S] : Right(g, m + 1)
      <3> HIDE DEF Right
      <3> QED
        BY <1>2, <2>1
    <2> HIDE DEF m
    <2> DEFINE new == step[m][<<g[a[m]], g[b[m]]>>]
               h == [k \in 0..n |-> IF k = m THEN new ELSE g[k]]
    <2>3. new \in S
      <3>1. a[m] \in 0..n /\ b[m] \in 0..n
        BY <2>1
      <3>2. <<g[a[m]], g[b[m]]>> \in S \X S /\ step[m] \in [S \X S -> S]
        BY <2>1, <3>1
      <3> QED
        BY <3>2
    <2> HIDE DEF new
    <2>4. h \in [0..n -> S] /\ h[m] = new /\ \A k \in 0..n : k # m => h[k] = g[k]
      BY <2>1, <2>3
    <2> HIDE DEF h
    <2>5. h[0] = z
      BY <2>1, <2>2, <2>4
    <2>6. ASSUME NEW k \in m..n PROVE h[k] = step[k][<<h[a[k]], h[b[k]]>>]
      <3>1. k \in 1..n /\ k >= m
        BY <2>1
      <3>2. /\ a[k] \in 0..n /\ a[k] # m
            /\ b[k] \in 0..n /\ b[k] # m
        BY <2>1, <3>1
      <3>3. h[a[k]] = g[a[k]] /\ h[b[k]] = g[b[k]]
        BY <2>4, <3>2
      <3>4. CASE k = m
        BY <2>4, <3>3, <3>4 DEF new
      <3>5. CASE k # m
        <4>1. k \in m + 1..n /\ k \in 0..n
          BY <2>1, <3>1, <3>5
        <4>2. g[k] = step[k][<<g[a[k]], g[b[k]]>> ]
          BY <2>2, <4>1
        <4> QED
          BY <2>4, <3>3, <3>5, <4>1, <4>2
      <3> QED
        BY <3>4, <3>5
    <2>7. Right(h, m)
      BY <2>5, <2>6
    <2> HIDE DEF Right
    <2>8. \E f \in [0..n -> S] : Right(f, n - d + 1)
      BY <2>4, <2>7 DEF m
    <2> QED
      BY <2>8
  <1>3. n \in Done
    <2> HIDE DEF Done
    <2>1. \A d \in 1..n : d - 1 \in Done => d \in Done
      BY <1>2
    <2>2. \A d \in 0..n : d \in Done
      BY <1>1, <2>1, Induction
    <2>3. n \in 0..n
      OBVIOUS
    <2> QED
      BY <2>2, <2>3
  <1>4. PICK g \in [0..n -> S] : Right(g, n - n + 1)
    <2> HIDE DEF Right
    <2> QED
      BY <1>3
  <1>5. n - n + 1 = 1
    OBVIOUS
  <1> QED
    BY <1>4, <1>5 DEF Follows

LEMMA HangingIs ==
  ASSUME PlaceOK
  PROVE  /\ Hanging(0) = {}
         /\ \A k \in 1..Len(items) :
              Hanging(k) = {k} \cup Hanging(items[k].next) \cup Hanging(items[k].child)
  <1> DEFINE n == Len(items)
             S == SUBSET Nat
             a == [k \in 1..n |-> items[k].next]
             b == [k \in 1..n |-> items[k].child]
             step == [k \in 1..n |-> [p \in S \X S |-> {k} \cup p[1] \cup p[2]]]
             body(g) == [k \in 0..n |->
                           IF k = 0 THEN {} ELSE {k} \cup g[items[k].next] \cup g[items[k].child]]
             hanging == CHOOSE g : g = body(g)
  <1>0. n \in Nat
    BY DEF PlaceOK, TypeOK
  <1>1. /\ a \in [1..n -> Nat] /\ b \in [1..n -> Nat]
        /\ \A k \in 1..n : (a[k] # 0 => k < a[k] /\ a[k] <= n) /\ (b[k] # 0 => k < b[k] /\ b[k] <= n)
        /\ \A k \in 1..n : a[k] = items[k].next /\ b[k] = items[k].child
    <2>1. \A k \in 1..n : /\ items[k].next \in Nat /\ items[k].child \in Nat
                          /\ items[k].next # 0 => k < items[k].next /\ items[k].next <= n
                          /\ items[k].child # 0 => k < items[k].child /\ items[k].child <= n
      BY ItemIs, <1>0
    <2> QED
      BY <2>1
  <1>2. step \in [1..n -> [S \X S -> S]] /\ {} \in S
    <2>1. \A k \in 1..n : \A p \in S \X S : {k} \cup p[1] \cup p[2] \in S
      BY <1>0
    <2> QED
      BY <2>1
  <1>3. \A k \in 1..n : \A p \in S \X S : step[k][p] = {k} \cup p[1] \cup p[2]
    OBVIOUS
  <1> HIDE DEF a, b, step, n
  <1>4. PICK g \in [0..n -> S] : Follows(g, n, {}, step, a, b)
    <2> HIDE DEF S
    <2> QED
      BY <1>0, <1>1, <1>2, Descend
  <1>5. ASSUME NEW k \in 0..n
        PROVE  g[k] = IF k = 0 THEN {} ELSE {k} \cup g[items[k].next] \cup g[items[k].child]
    <2>1. CASE k = 0
      BY <1>4, <2>1 DEF Follows
    <2>2. CASE k # 0
      <3>1. k \in 1..n
        BY <1>0, <2>2
      <3>2. a[k] \in 0..n /\ b[k] \in 0..n
        BY <1>0, <1>1, <3>1
      <3>3. <<g[a[k]], g[b[k]]>> \in S \X S
        BY <3>2
      <3>4. g[k] = step[k][<<g[a[k]], g[b[k]]>>]
        BY <1>4, <3>1 DEF Follows
      <3>5. g[k] = {k} \cup g[a[k]] \cup g[b[k]]
        BY <1>3, <3>1, <3>3, <3>4
      <3> QED
        BY <1>1, <2>2, <3>1, <3>5
    <2> QED
      BY <2>1, <2>2
  <1>6. g = body(g)
    BY <1>5
  <1>7. hanging = body(hanging)
    <2>1. \E f : f = body(f)
      BY <1>6
    <2> QED
      BY <2>1
  <1>8. \A i : Hanging(i) = hanging[i]
    BY DEF Hanging, n
  <1> HIDE DEF hanging
  <1>9. hanging[0] = {}
    BY <1>0, <1>7
  <1>10. ASSUME NEW k \in 1..n
         PROVE  hanging[k] = {k} \cup hanging[items[k].next] \cup hanging[items[k].child]
    <2>1. k \in 0..n /\ k # 0
      BY <1>0
    <2> QED
      BY <1>7, <2>1
  <1> QED
    BY <1>8, <1>9, <1>10 DEF n

\* What is deleted with item k: live items, with all that hangs on them, and each
\* but k itself hanging on another one.
Hangs(k) ==
  /\ Hanging(k) \subseteq Live
  /\ k # 0 => k \in Hanging(k)
  /\ \A j \in Hanging(k) :
       /\ k <= j
       /\ items[j].next # 0 => items[j].next \in Hanging(k)
       /\ items[j].child # 0 => items[j].child \in Hanging(k)
       /\ j # k => \E p \in Hanging(k) : items[p].next = j \/ items[p].child = j

LEMMA HangsIs ==
  ASSUME PlaceOK, Reaching, NEW i \in Nat, i = 0 \/ i \in Live
  PROVE  Hangs(i)
  <1> DEFINE n == Len(items)
             T == {k \in 1..n : k \in Live => Hangs(k)}
  <1>0. n \in Nat /\ Live \subseteq 1..n
    BY DEF PlaceOK, TypeOK, Live
  <1>1. Hangs(0)
    BY HangingIs DEF Hangs
  <1>2. ASSUME NEW k \in 1..n, \A j \in k + 1..n : j \in T PROVE k \in T
    <2> SUFFICES ASSUME k \in Live PROVE Hangs(k)
      OBVIOUS
    <2> DEFINE a == items[k].next
               b == items[k].child
    <2>1. Hanging(k) = {k} \cup Hanging(a) \cup Hanging(b)
      BY HangingIs
    <2>2. /\ a \in Nat /\ (a # 0 => k < a /\ a \in k + 1..n)
          /\ b \in Nat /\ (b # 0 => k < b /\ b \in k + 1..n)
      <3>1. /\ a \in Nat /\ b \in Nat
            /\ a # 0 => k < a /\ a \in 1..n
            /\ b # 0 => k < b /\ b \in 1..n
        BY ItemIs
      <3> HIDE DEF a, b
      <3> QED
        BY <1>0, <3>1
    <2>3. (a # 0 => a \in Live) /\ (b # 0 => b \in Live)
      BY DEF Reaching
    <2>4. items[k].next = a /\ items[k].child = b
      OBVIOUS
    <2> HIDE DEF a, b
    <2>5. Hangs(a) /\ Hangs(b)
      BY <1>1, <1>2, <2>2, <2>3
    <2>6. Hanging(k) \subseteq Live /\ k \in Hanging(k)
      BY <2>1, <2>5 DEF Hangs
    <2>7. /\ a # 0 => a \in Hanging(k)
          /\ b # 0 => b \in Hanging(k)
          /\ a = 0 => Hanging(a) = {}
          /\ b = 0 => Hanging(b) = {}
      BY <2>1, <2>5, HangingIs DEF Hangs
    <2>9. Hanging(k) \subseteq Nat
      <3>1. Live \subseteq Nat
        BY <1>0
      <3> QED
        BY <2>6, <3>1
    <2>8. ASSUME NEW j \in Hanging(k)
          PROVE  /\ k <= j
                 /\ items[j].next # 0 => items[j].next \in Hanging(k)
                 /\ items[j].child # 0 => items[j].child \in Hanging(k)
                 /\ j # k => \E p \in Hanging(k) : items[p].next = j \/ items[p].child = j
      <3>0. j \in Nat
        BY <2>9
      <3>1. CASE j = k
        BY <2>4, <2>7, <3>1
      <3>2. ASSUME NEW c, c \in {a, b}, j \in Hanging(c), items[k].next = c \/ items[k].child = c
            PROVE  /\ k <= j
                   /\ items[j].next # 0 => items[j].next \in Hanging(k)
                   /\ items[j].child # 0 => items[j].child \in Hanging(k)
                   /\ \E p \in Hanging(k) : items[p].next = j \/ items[p].child = j
        <4>1. Hangs(c) /\ Hanging(c) \subseteq Hanging(k) /\ c # 0 /\ c \in Nat /\ k < c
          BY <2>1, <2>2, <2>5, <2>7, <3>2
        <4>2. /\ c <= j
              /\ items[j].next # 0 => items[j].next \in Hanging(c)
              /\ items[j].child # 0 => items[j].child \in Hanging(c)
              /\ j # c => \E p \in Hanging(c) : items[p].next = j \/ items[p].child = j
          BY <3>2, <4>1 DEF Hangs
        <4>3. k <= j
          BY <3>0, <4>1, <4>2
        <4>4. \E p \in Hanging(k) : items[p].next = j \/ items[p].child = j
          <5>1. CASE j = c
            BY <2>6, <3>2, <5>1
          <5>2. CASE j # c
            BY <4>1, <4>2, <5>2
          <5> QED
            BY <5>1, <5>2
        <4> QED
          BY <4>1, <4>2, <4>3, <4>4
      <3>3. CASE j \in Hanging(a)
        BY <2>4, <3>2, <3>3
      <3>4. CASE j \in Hanging(b)
        BY <2>4, <3>2, <3>4
      <3> QED
        BY <2>1, <3>1, <3>3, <3>4
    <2> QED
      BY <2>6, <2>8 DEF Hangs
  <1>3. \A k \in 1..n : k \in T
    <2> HIDE DEF T
    <2> QED
      BY <1>0, <1>2, DownInduction
  <1> QED
    BY <1>0, <1>1, <1>3

-----------------------------------------------------------------------------
\* The strings of a set of items.
LEMMA BlocksAre ==
  ASSUME PlaceOK, NEW set \in SUBSET (1..Len(items)), NEW dead \in SUBSET set
  PROVE  Blocks(set) \in Int /\ Blocks(set) - Blocks(dead) = Blocks(set \ dead) /\ Blocks({}) = 0
  <1> DEFINE A(s) == {i \in s : items[i].string # <<>>}
             B(s) == {i \in s : items[i].valuestring # <<>>}
  <1>1. IsFiniteSet(1..Len(items))
    BY FS_Interval DEF PlaceOK, TypeOK
  <1>2. ASSUME NEW s, NEW d \in SUBSET s, IsFiniteSet(s)
        PROVE  /\ Cardinality(s) \in Nat /\ Cardinality(d) \in Nat /\ Cardinality(s \ d) \in Nat
               /\ Cardinality(s) - Cardinality(d) = Cardinality(s \ d)
    <2>1. IsFiniteSet(d) /\ IsFiniteSet(s \ d)
      BY <1>2, FS_Subset
    <2>2. d \cup (s \ d) = s /\ d \cap (s \ d) = {}
      OBVIOUS
    <2>3. Cardinality(s) = Cardinality(d) + Cardinality(s \ d) - Cardinality({})
      BY <2>1, <2>2, FS_Union
    <2>4. Cardinality({}) = 0
      BY FS_EmptySet
    <2>5. Cardinality(s) \in Nat /\ Cardinality(d) \in Nat /\ Cardinality(s \ d) \in Nat
      BY <1>2, <2>1, FS_CardinalityType
    <2> QED
      BY <2>3, <2>4, <2>5
  <1>3. IsFiniteSet(A(set)) /\ IsFiniteSet(B(set))
    BY <1>1, FS_Subset
  <1>4. A(dead) \in SUBSET A(set) /\ B(dead) \in SUBSET B(set)
    OBVIOUS
  <1>5. A(set) \ A(dead) = A(set \ dead) /\ B(set) \ B(dead) = B(set \ dead)
    OBVIOUS
  <1>6. \A s : Blocks(s) = Cardinality(A(s)) + Cardinality(B(s))
    BY DEF Blocks
  <1>7. A({}) = {} /\ B({}) = {}
    OBVIOUS
  <1>8. Cardinality({}) = 0
    BY FS_EmptySet
  <1> HIDE DEF A, B
  <1>9. /\ Cardinality(A(set)) \in Nat /\ Cardinality(A(dead)) \in Nat
        /\ Cardinality(A(set \ dead)) \in Nat
        /\ Cardinality(A(set)) - Cardinality(A(dead)) = Cardinality(A(set \ dead))
    BY <1>2, <1>3, <1>4, <1>5
  <1>10. /\ Cardinality(B(set)) \in Nat /\ Cardinality(B(dead)) \in Nat
         /\ Cardinality(B(set \ dead)) \in Nat
         /\ Cardinality(B(set)) - Cardinality(B(dead)) = Cardinality(B(set \ dead))
    BY <1>2, <1>3, <1>4, <1>5
  <1>11. PICK a1, a2, a3 \in Nat : /\ a1 = Cardinality(A(set)) /\ a2 = Cardinality(A(dead))
                                   /\ a3 = Cardinality(A(set \ dead)) /\ a1 - a2 = a3
    BY <1>9
  <1>12. PICK b1, b2, b3 \in Nat : /\ b1 = Cardinality(B(set)) /\ b2 = Cardinality(B(dead))
                                   /\ b3 = Cardinality(B(set \ dead)) /\ b1 - b2 = b3
    BY <1>10
  <1>13. Blocks(set) = a1 + b1 /\ Blocks(dead) = a2 + b2 /\ Blocks(set \ dead) = a3 + b3
    BY <1>6, <1>11, <1>12
  <1>14. Blocks({}) = 0
    <2>1. Blocks({}) = Cardinality({}) + Cardinality({})
      BY <1>6, <1>7
    <2> QED
      BY <1>8, <2>1
  <1>15. a1 + b1 \in Int /\ (a1 + b1) - (a2 + b2) = a3 + b3
    BY <1>11, <1>12, SMTT(30)
  <1> QED
    BY <1>13, <1>14, <1>15

\* The strings of a set of a list's items.
Count(list, set) ==
  Cardinality({i \in set : list[i].string # <<>>})
  + Cardinality({i \in set : list[i].valuestring # <<>>})

LEMMA OneMore ==
  ASSUME NEW S, IsFiniteSet(S), NEW x, x \notin S
  PROVE  Cardinality(S) \in Nat /\ Cardinality(S \cup {x}) = Cardinality(S) + 1
  BY FS_AddElement, FS_CardinalityType

LEMMA CountSame ==
  ASSUME NEW list, NEW new, NEW set,
         \A i \in set : new[i].string = list[i].string /\ new[i].valuestring = list[i].valuestring
  PROVE  Count(new, set) = Count(list, set)
  <1>1. {i \in set : new[i].string # <<>>} = {i \in set : list[i].string # <<>>}
    OBVIOUS
  <1>2. {i \in set : new[i].valuestring # <<>>} = {i \in set : list[i].valuestring # <<>>}
    OBVIOUS
  <1> QED
    BY <1>1, <1>2 DEF Count

\* One of its items gets a value, or a name.
GetsText(list, new, set, t) ==
  /\ \A i \in set : /\ new[i].string = list[i].string
                    /\ i # t => new[i].valuestring = list[i].valuestring
  /\ list[t].valuestring = <<>> /\ new[t].valuestring # <<>>
GetsName(list, new, set, t) ==
  /\ \A i \in set : /\ new[i].valuestring = list[i].valuestring
                    /\ i # t => new[i].string = list[i].string
  /\ list[t].string = <<>> /\ new[t].string # <<>>

LEMMA CountText ==
  ASSUME NEW list, NEW new, NEW set, IsFiniteSet(set), NEW t \in set, GetsText(list, new, set, t)
  PROVE  Count(new, set) = Count(list, set) + 1
  <1> DEFINE A(l) == {i \in set : l[i].string # <<>>}
             B(l) == {i \in set : l[i].valuestring # <<>>}
  <1>1. A(new) = A(list) /\ t \notin B(list) /\ B(new) = B(list) \cup {t}
    BY DEF GetsText
  <1>2. IsFiniteSet(A(list)) /\ IsFiniteSet(B(list))
    BY FS_Subset
  <1>3. \A l : Count(l, set) = Cardinality(A(l)) + Cardinality(B(l))
    BY DEF Count
  <1> HIDE DEF A, B
  <1>4. /\ Cardinality(A(list)) \in Nat /\ Cardinality(B(list)) \in Nat
        /\ Cardinality(B(list) \cup {t}) = Cardinality(B(list)) + 1
    BY <1>1, <1>2, OneMore, FS_CardinalityType
  <1> PICK a, b \in Nat : a = Cardinality(A(list)) /\ b = Cardinality(B(list))
    BY <1>4
  <1>5. Count(new, set) = a + (b + 1) /\ Count(list, set) = a + b
    BY <1>1, <1>3, <1>4
  <1> QED
    BY <1>5

LEMMA CountName ==
  ASSUME NEW list, NEW new, NEW set, IsFiniteSet(set), NEW t \in set, GetsName(list, new, set, t)
  PROVE  Count(new, set) = Count(list, set) + 1
  <1> DEFINE A(l) == {i \in set : l[i].valuestring # <<>>}
             B(l) == {i \in set : l[i].string # <<>>}
  <1>1. A(new) = A(list) /\ t \notin B(list) /\ B(new) = B(list) \cup {t}
    BY DEF GetsName
  <1>2. IsFiniteSet(A(list)) /\ IsFiniteSet(B(list))
    BY FS_Subset
  <1>3. \A l : Count(l, set) = Cardinality(B(l)) + Cardinality(A(l))
    BY DEF Count
  <1> HIDE DEF A, B
  <1>4. /\ Cardinality(A(list)) \in Nat /\ Cardinality(B(list)) \in Nat
        /\ Cardinality(B(list) \cup {t}) = Cardinality(B(list)) + 1
    BY <1>1, <1>2, OneMore, FS_CardinalityType
  <1> PICK a, b \in Nat : a = Cardinality(A(list)) /\ b = Cardinality(B(list))
    BY <1>4
  <1>5. Count(new, set) = (b + 1) + a /\ Count(list, set) = b + a
    BY <1>1, <1>3, <1>4
  <1> QED
    BY <1>5

\* A new item with neither, or with both.
LEMMA CountNew ==
  ASSUME NEW list, NEW new, NEW set, IsFiniteSet(set), NEW n, n \notin set,
         \A i \in set : new[i].string = list[i].string /\ new[i].valuestring = list[i].valuestring
  PROVE  /\ new[n].string = <<>> /\ new[n].valuestring = <<>> =>
              Count(new, set \cup {n}) = Count(list, set)
         /\ new[n].string # <<>> /\ new[n].valuestring # <<>> =>
              Count(new, set \cup {n}) = Count(list, set) + 2
  <1> DEFINE A == {i \in set : list[i].string # <<>>}
             B == {i \in set : list[i].valuestring # <<>>}
             C == {i \in set \cup {n} : new[i].string # <<>>}
             D == {i \in set \cup {n} : new[i].valuestring # <<>>}
  <1>1. /\ new[n].string = <<>> => C = A
        /\ new[n].valuestring = <<>> => D = B
        /\ new[n].string # <<>> => C = A \cup {n}
        /\ new[n].valuestring # <<>> => D = B \cup {n}
        /\ n \notin A /\ n \notin B
    OBVIOUS
  <1>2. IsFiniteSet(A) /\ IsFiniteSet(B)
    BY FS_Subset
  <1>3. /\ Count(list, set) = Cardinality(A) + Cardinality(B)
        /\ Count(new, set \cup {n}) = Cardinality(C) + Cardinality(D)
    BY DEF Count
  <1> HIDE DEF A, B, C, D
  <1>4. /\ Cardinality(A) \in Nat /\ Cardinality(B) \in Nat
        /\ Cardinality(A \cup {n}) = Cardinality(A) + 1
        /\ Cardinality(B \cup {n}) = Cardinality(B) + 1
    BY <1>1, <1>2, OneMore
  <1> PICK a, b \in Nat : a = Cardinality(A) /\ b = Cardinality(B)
    BY <1>4
  <1>5. ASSUME new[n].string = <<>>, new[n].valuestring = <<>>
        PROVE  Count(new, set \cup {n}) = Count(list, set)
    BY <1>1, <1>3, <1>5
  <1>6. ASSUME new[n].string # <<>>, new[n].valuestring # <<>>
        PROVE  Count(new, set \cup {n}) = Count(list, set) + 2
    <2>1. Count(new, set \cup {n}) = (a + 1) + (b + 1) /\ Count(list, set) = a + b
      BY <1>1, <1>3, <1>4, <1>6
    <2> QED
      BY <2>1
  <1> QED
    BY <1>5, <1>6

-----------------------------------------------------------------------------
(***************************************************************************)
(* The heap is kept.                                                       *)
(***************************************************************************)
LEMMA LiveIs ==
  ASSUME PlaceOK
  PROVE  /\ Len(items) \in Nat /\ Live \subseteq 1..Len(items) /\ IsFiniteSet(Live)
         /\ Live \subseteq Nat
         /\ \A i : i \in Live <=> i \in 1..Len(items) /\ items[i].live
         /\ \A i : i \in Live' <=> i \in 1..Len(items') /\ items'[i].live
         /\ Blocks(Live) = Count(items, Live) /\ Blocks(Live)' = Count(items', Live')
  <1>1. Len(items) \in Nat
    BY DEF PlaceOK, TypeOK
  <1>2. Live \subseteq 1..Len(items)
    BY DEF Live
  <1>3. IsFiniteSet(1..Len(items))
    BY <1>1, FS_Interval
  <1>4. IsFiniteSet(Live)
    BY <1>2, <1>3, FS_Subset
  <1>5. /\ \A i : i \in Live <=> i \in 1..Len(items) /\ items[i].live
        /\ \A i : i \in Live' <=> i \in 1..Len(items') /\ items'[i].live
    BY DEF Live
  <1>6. Blocks(Live) = Count(items, Live) /\ Blocks(Live)' = Count(items', Live')
    BY DEF Blocks, Count
  <1>7. Live \subseteq Nat
    BY <1>1, <1>2
  <1> QED
    BY <1>1, <1>2, <1>4, <1>5, <1>6, <1>7

LEMMA HeapSame ==
  ASSUME HeapOK, QuietStep \/ FailStep \/ CommaStep
  PROVE  HeapOK'
  <1>1. UNCHANGED <<items, strings, misused, stack, root>>
    BY DEF QuietStep, FailStep, CommaStep, Still
  <1>2. Live' = Live /\ Blocks(Live)' = Blocks(Live)
    BY <1>1 DEF Live, Blocks
  <1>3. Rooted' /\ Reaching' /\ OwnedOnce'
    BY <1>1, <1>2 DEF HeapOK, Rooted, Reaching, OwnedOnce
  <1>4. \A j \in Live' : j # root' => Owned(j)'
    BY <1>1, <1>2 DEF HeapOK, Owned
  <1> QED
    BY <1>1, <1>2, <1>3, <1>4 DEF HeapOK

LEMMA HeapRoot ==
  ASSUME PlaceOK, HeapOK, RootStep
  PROVE  HeapOK' /\ Live' = {root'}
  <1> DEFINE n == Len(items) + 1
  <1>1. /\ UNCHANGED <<strings, misused, stack>> /\ root' = n
        /\ Len(items') = n /\ \A j \in 1..Len(items) : items'[j] = items[j]
        /\ items'[n].live /\ items'[n].string = <<>> /\ items'[n].valuestring = <<>>
        /\ items'[n].next = 0 /\ items'[n].child = 0
        /\ pc \in {"create", "parse"}
    BY DEF RootStep
  <1>2. root = 0 /\ stack = <<>> /\ Len(items) \in Nat
    BY <1>1, LiveIs DEF PlaceOK, PhaseOK, Starting
  <1>3. Live = {}
    BY <1>2 DEF HeapOK, Rooted
  <1>4. n \in Nat /\ n # 0 /\ n \in 1..n /\ \A i \in 1..n : i = n \/ i \in 1..Len(items)
    BY <1>2
  <1> HIDE DEF n
  <1>5. Live' = {n}
    BY <1>1, <1>3, <1>4, LiveIs
  <1>6. Count(items', {} \cup {n}) = Count(items, {})
    BY <1>1, FS_EmptySet, CountNew
  <1>7. {} \cup {n} = {n}
    OBVIOUS
  <1>8. strings' = Blocks(Live)'
    BY <1>1, <1>3, <1>5, <1>6, <1>7, LiveIs DEF HeapOK
  <1>9. Rooted' /\ Reaching' /\ OwnedOnce'
    BY <1>1, <1>2, <1>4, <1>5 DEF Rooted, Reaching, OwnedOnce
  <1> QED
    BY <1>1, <1>5, <1>8, <1>9 DEF HeapOK

LEMMA TargetLive ==
  ASSUME PlaceOK, HeapOK, pc \in {"value", "name"}
  PROVE  target \in Live
  <1>1. target = IF stack = <<>> THEN root ELSE Last(stack).cur
    BY DEF PlaceOK, PhaseOK
  <1>2. CASE stack = <<>>
    <2>1. root # 0
      BY TargetIs, <1>1, <1>2
    <2> QED
      BY <1>1, <1>2, <2>1 DEF HeapOK, Rooted
  <1>3. CASE stack # <<>>
    <2>1. target = stack[Len(stack)].cur /\ Len(stack) \in 1..Len(stack)
      BY <1>1, <1>3, TopIs DEF PlaceOK
    <2>2. stack[Len(stack)].head # 0
      BY <2>1 DEF PlaceOK, FrameOK
    <2> QED
      BY <2>1, <2>2 DEF HeapOK, Reaching
  <1> QED
    BY <1>2, <1>3

\* Nothing is linked or freed.
LEMMA LinksKept ==
  ASSUME PlaceOK, HeapOK, Len(items') = Len(items), UNCHANGED <<stack, root>>,
         \A j \in 1..Len(items) :
           items'[j].live = items[j].live /\ items'[j].next = items[j].next
           /\ items'[j].prev = items[j].prev /\ items'[j].child = items[j].child
  PROVE  /\ Live' = Live
         /\ Rooted' /\ Reaching' /\ OwnedOnce' /\ \A j \in Live' : j # root' => Owned(j)'
  <1>1. Live' = Live
    BY LiveIs
  <1>2. \A j \in Live : items'[j].next = items[j].next /\ items'[j].child = items[j].child
    BY LiveIs
  <1>3. Rooted'
    BY <1>1, <1>2 DEF HeapOK, Rooted
  <1>4. Reaching'
    BY <1>1, <1>2 DEF HeapOK, Reaching
  <1>5. OwnedOnce'
    BY <1>1, <1>2 DEF HeapOK, OwnedOnce
  <1>6. \A j \in Live' : j # root' => Owned(j)'
    BY <1>1, <1>2 DEF HeapOK, Owned
  <1> QED
    BY <1>1, <1>3, <1>4, <1>5, <1>6

LEMMA HeapValue ==
  ASSUME PlaceOK, HeapOK, ValueStep \/ NameStep
  PROVE  HeapOK'
  <1>1. pc \in {"value", "name"} /\ UNCHANGED <<misused, stack, root>> /\ Relabels(items, items', target)
    BY DEF ValueStep, NameStep
  <1>2. /\ Len(items') = Len(items)
        /\ \A j \in 1..Len(items) :
             /\ items'[j].live = items[j].live /\ items'[j].next = items[j].next
             /\ items'[j].prev = items[j].prev /\ items'[j].child = items[j].child
             /\ j # target => /\ items'[j].string = items[j].string
                              /\ items'[j].valuestring = items[j].valuestring
    BY <1>1 DEF Relabels
  <1>3. /\ Live' = Live /\ Rooted' /\ Reaching' /\ OwnedOnce'
        /\ \A j \in Live' : j # root' => Owned(j)'
    BY <1>1, <1>2, LinksKept
  <1>4. target \in Live /\ IsFiniteSet(Live) /\ Live \subseteq 1..Len(items)
    BY <1>1, TargetLive, LiveIs
  <1>5. items[target].valuestring = <<>> /\ (pc = "name" => items[target].string = <<>>)
    BY <1>1 DEF PlaceOK, FreshOK
  <1>6. PICK new : new = items'
    OBVIOUS
  <1>7. \A j \in Live : j # target => /\ new[j].string = items[j].string
                                      /\ new[j].valuestring = items[j].valuestring
    BY <1>2, <1>4, <1>6
  <1>8. strings' = Count(new, Live)
    <2>0. strings = Count(items, Live)
      BY LiveIs DEF HeapOK
    <2>1. CASE NameStep
      <3>1. /\ new[target].string # <<>> /\ new[target].valuestring = items[target].valuestring
            /\ strings' = strings + 1 /\ pc = "name"
        BY <1>6, <2>1 DEF NameStep
      <3>2. GetsName(items, new, Live, target)
        BY <1>5, <1>7, <3>1 DEF GetsName
      <3>3. Count(new, Live) = Count(items, Live) + 1
        BY <1>4, <3>2, CountName
      <3> QED
        BY <2>0, <3>1, <3>3
    <2>2. CASE ValueStep
      <3>1. new[target].string = items[target].string
        BY <1>6, <2>2 DEF ValueStep
      <3>2. CASE new[target].type = "string"
        <4>1. new[target].valuestring # <<>> /\ strings' = strings + 1
          BY <1>6, <2>2, <3>2 DEF ValueStep
        <4>2. GetsText(items, new, Live, target)
          BY <1>5, <1>7, <3>1, <4>1 DEF GetsText
        <4>3. Count(new, Live) = Count(items, Live) + 1
          BY <1>4, <4>2, CountText
        <4> QED
          BY <2>0, <4>1, <4>3
      <3>3. CASE new[target].type # "string"
        <4>1. new[target].valuestring = items[target].valuestring /\ strings' = strings
          BY <1>6, <2>2, <3>3 DEF ValueStep
        <4>2. Count(new, Live) = Count(items, Live)
          BY <1>7, <3>1, <4>1, CountSame
        <4> QED
          BY <2>0, <4>1, <4>2
      <3> QED
        BY <3>2, <3>3
    <2> QED
      BY <2>1, <2>2
  <1>9. strings' = Blocks(Live)'
    BY <1>3, <1>6, <1>8, LiveIs
  <1> QED
    BY <1>1, <1>3, <1>9 DEF HeapOK

LEMMA HeapPush ==
  ASSUME PlaceOK, HeapOK, PushStep
  PROVE  HeapOK'
  <1> DEFINE m == Len(stack)
  <1>1. /\ UNCHANGED <<items, strings, misused, root, target>> /\ pc = "value"
        /\ \E kind \in {LBracket, LBrace} :
             stack' = Append(stack, [kind |-> kind, item |-> target, head |-> 0, cur |-> 0])
    BY DEF PushStep
  <1>2. /\ Len(stack') = m + 1 /\ m \in Nat /\ stack'[m + 1].item = target /\ stack'[m + 1].head = 0
        /\ \A k \in 1..m : stack'[k] = stack[k]
    <2>1. PICK kind : stack' = Append(stack, [kind |-> kind, item |-> target, head |-> 0, cur |-> 0])
      BY <1>1
    <2>2. stack \in Seq(Frame)
      BY DEF PlaceOK, TypeOK
    <2> DEFINE f == [kind |-> kind, item |-> target, head |-> 0, cur |-> 0]
    <2>3. f.item = target /\ f.head = 0 /\ stack' = Append(stack, f)
      BY <2>1
    <2> HIDE DEF f
    <2> QED
      BY <2>2, <2>3
  <1>3. target \in Live /\ items[target].child = 0
    BY <1>1, TargetLive DEF PlaceOK, FreshOK
  <1>4. Live' = Live /\ Blocks(Live)' = Blocks(Live)
    BY <1>1 DEF Live, Blocks
  <1>5. \A k \in 1..m + 1 : k \in 1..m \/ k = m + 1
    BY <1>2
  <1>6. \A k \in 1..m : k \in 1..m + 1
    BY <1>2
  <1> HIDE DEF m
  <1>7. Rooted'
    BY <1>1, <1>4 DEF HeapOK, Rooted
  <1>8. Reaching'
    <2>1. \A k \in 1..m :
             /\ stack[k].item \in Live /\ items[stack[k].item].child = 0
             /\ stack[k].head # 0 =>
                  stack[k].head \in Live /\ stack[k].cur \in Live /\ items[stack[k].cur].next = 0
      BY DEF HeapOK, Reaching, m
    <2>2. \A k \in 1..m + 1 :
             /\ stack'[k].item \in Live /\ items[stack'[k].item].child = 0
             /\ stack'[k].head # 0 =>
                  stack'[k].head \in Live /\ stack'[k].cur \in Live /\ items[stack'[k].cur].next = 0
      BY <1>2, <1>3, <1>5, <2>1
    <2> QED
      BY <1>1, <1>2, <1>4, <2>2 DEF HeapOK, Reaching
  <1>9. OwnedOnce'
    <2>1. \A i \in Live, k \in 1..m :
            stack[k].head # 0 => items[i].next # stack[k].head /\ items[i].child # stack[k].head
      BY DEF HeapOK, OwnedOnce, m
    <2>2. \A i \in Live, k \in 1..m + 1 :
            stack'[k].head # 0 => items[i].next # stack'[k].head /\ items[i].child # stack'[k].head
      BY <1>2, <1>5, <2>1
    <2> QED
      BY <1>1, <1>2, <1>4, <2>2 DEF HeapOK, OwnedOnce
  <1>10. \A j \in Live' : j # root' => Owned(j)'
    <2>1. ASSUME NEW j \in Live, j # root PROVE Owned(j)'
      <3>1. Owned(j)
        BY <2>1 DEF HeapOK
      <3>2. (\E k \in 1..m : stack[k].head = j) => \E k \in 1..m + 1 : stack'[k].head = j
        BY <1>2, <1>6
      <3> QED
        BY <1>1, <1>2, <1>4, <3>1, <3>2 DEF Owned, m
    <2> QED
      BY <1>1, <1>4, <2>1
  <1> QED
    BY <1>1, <1>4, <1>7, <1>8, <1>9, <1>10 DEF HeapOK

\* One live item.
LEMMA LiveItem ==
  ASSUME PlaceOK, HeapOK, NEW i \in Live
  PROVE  /\ i \in 1..Len(items) /\ i \in Nat /\ items[i].live
         /\ items[i].next \in Nat /\ items[i].child \in Nat
         /\ items[i].next # 0 => i < items[i].next /\ items[i].next \in Live
         /\ items[i].child # 0 => i < items[i].child /\ items[i].child \in Live
         /\ items[i].next <= Len(items) /\ items[i].child <= Len(items)
  <1>1. i \in 1..Len(items) /\ i \in Nat /\ items[i].live /\ Len(items) \in Nat
    BY LiveIs
  <1>2. /\ items[i].next # 0 => items[i].next \in Live
        /\ items[i].child # 0 => items[i].child \in Live
    BY DEF HeapOK, Reaching
  <1>3. /\ items[i].next \in Nat /\ items[i].child \in Nat
        /\ items[i].next # 0 => i < items[i].next /\ items[i].next \in 1..Len(items)
        /\ items[i].child # 0 => i < items[i].child /\ items[i].child \in 1..Len(items)
    BY <1>1, ItemIs
  <1> PICK a, b : a = items[i].next /\ b = items[i].child
    OBVIOUS
  <1>4. a <= Len(items) /\ b <= Len(items)
    BY <1>1, <1>3
  <1> QED
    BY <1>1, <1>2, <1>3, <1>4

\* One frame: what it stands on is live, and its list's head is nobody else's.
LEMMA FrameLive ==
  ASSUME PlaceOK, HeapOK, NEW k \in 1..Len(stack)
  PROVE  /\ stack[k].item \in Live /\ items[stack[k].item].child = 0
         /\ stack[k].head # 0 =>
              /\ stack[k].head \in Live /\ stack[k].cur \in Live /\ items[stack[k].cur].next = 0
              /\ \A i \in Live : items[i].next # stack[k].head /\ items[i].child # stack[k].head
  BY DEF HeapOK, Reaching, OwnedOnce

LEMMA HeapElement ==
  ASSUME PlaceOK, HeapOK, ElementStep
  PROVE  HeapOK' /\ Live' = Live \cup {Len(items) + 1}
  <1> DEFINE n == Len(items) + 1
             m == Len(stack)
             f == stack[m]
             c == f.cur
             h == f.head
  <1>1. /\ UNCHANGED <<strings, misused, root>> /\ pc = "element"
        /\ Len(items') = n /\ items'[n].live
        /\ items'[n].string = <<>> /\ items'[n].valuestring = <<>>
        /\ items'[n].next = 0 /\ items'[n].child = 0
        /\ \A j \in 1..Len(items) :
             /\ items'[j].live = items[j].live
             /\ items'[j].string = items[j].string /\ items'[j].valuestring = items[j].valuestring
             /\ items'[j].child = items[j].child
             /\ items'[j].next = IF h # 0 /\ j = c THEN n ELSE items[j].next
        /\ Len(stack') = m
        /\ \A k \in 1..m - 1 : stack'[k] = stack[k]
        /\ stack'[m].item = f.item
        /\ stack'[m].head = (IF h = 0 THEN n ELSE h) /\ stack'[m].cur = n
    BY DEF ElementStep
  <1>2. m \in Nat /\ m \in 1..m /\ Len(items) \in Nat /\ \A k \in 1..m : k = m \/ k \in 1..m - 1
    <2>1. stack # <<>>
      BY <1>1 DEF PlaceOK, PhaseOK
    <2> QED
      BY <2>1, TopIs, LiveIs DEF PlaceOK
  <1>3. /\ f.item \in Live /\ items[f.item].child = 0
        /\ h # 0 => /\ h \in Live /\ c \in Live /\ items[c].next = 0
                    /\ \A i \in Live : items[i].next # h /\ items[i].child # h
        /\ f.item \in Nat /\ h \in Nat /\ c \in Nat
        /\ h # 0 => f.item < h /\ h <= c
        /\ root <= f.item /\ root >= 1 /\ root \in Nat
    BY <1>2, FrameLive, FrameIs DEF PlaceOK, TypeOK
  <1>4. ASSUME NEW k \in 1..m - 1
        PROVE  /\ stack'[k] = stack[k] /\ stack[k].head # 0 /\ stack[k].cur \in Nat
               /\ stack[k].item \in Live /\ items[stack[k].item].child = 0
               /\ stack[k].head \in Live /\ stack[k].cur \in Live /\ items[stack[k].cur].next = 0
               /\ h # 0 => stack[k].cur # c
               /\ \A i \in Live : items[i].next # stack[k].head /\ items[i].child # stack[k].head
    <2>1. k \in 1..m /\ k \in 1..Len(stack) - 1
      BY <1>2
    <2>2. /\ stack[k].cur < stack[Len(stack)].cur \/ stack[Len(stack)].head = 0
          /\ stack[k].head # 0 /\ stack[k].cur \in 1..Len(items)
      BY <2>1, CurBelow
    <2>3. /\ stack[k].item \in Live /\ items[stack[k].item].child = 0
          /\ stack[k].head \in Live /\ stack[k].cur \in Live /\ items[stack[k].cur].next = 0
          /\ \A i \in Live : items[i].next # stack[k].head /\ items[i].child # stack[k].head
      BY <2>1, <2>2, FrameLive
    <2> PICK x : x = stack[k].cur
      OBVIOUS
    <2>4. x \in Nat /\ (x < c \/ h = 0)
      BY <2>2, <1>2
    <2>5. h # 0 => x # c
      BY <1>3, <2>4
    <2> QED
      BY <1>1, <2>2, <2>3, <2>4, <2>5
  <1>5. n \in Nat /\ n # 0 /\ n \notin Live /\ n \in 1..n
        /\ \A i \in 1..n : i = n \/ i \in 1..Len(items)
    BY <1>2, LiveIs
  <1>6. \A i \in Live : i \in 1..n /\ i # n /\ i # 0
    BY <1>2, LiveIs
  <1>7. \A i \in Live : /\ i \in 1..Len(items)
                        /\ items[i].next \in Nat /\ items[i].child \in Nat
                        /\ items[i].next # 0 => items[i].next \in Live
                        /\ items[i].child # 0 => items[i].child \in Live
                        /\ items[i].next # n /\ items[i].child # n
    <2> SUFFICES ASSUME NEW i \in Live
                 PROVE  /\ i \in 1..Len(items)
                        /\ items[i].next \in Nat /\ items[i].child \in Nat
                        /\ items[i].next # 0 => items[i].next \in Live
                        /\ items[i].child # 0 => items[i].child \in Live
                        /\ items[i].next # n /\ items[i].child # n
      OBVIOUS
    <2>1. /\ i \in 1..Len(items)
          /\ items[i].next \in Nat /\ items[i].child \in Nat
          /\ items[i].next # 0 => items[i].next \in Live
          /\ items[i].child # 0 => items[i].child \in Live
      BY LiveItem
    <2> QED
      BY <1>5, <2>1
  <1>8. Live' = Live \cup {n}
    BY <1>1, <1>5, <1>6, LiveIs, SMTT(30)
  <1>9. \A i \in Live : /\ items'[i].child = items[i].child
                        /\ items'[i].next = IF h # 0 /\ i = c THEN n ELSE items[i].next
    BY <1>1, <1>7
  <1>10. strings' = Blocks(Live)'
    <2>1. PICK new : new = items'
      OBVIOUS
    <2>2. \A i \in Live : new[i].string = items[i].string /\ new[i].valuestring = items[i].valuestring
      BY <1>1, <1>7, <2>1
    <2>3. Count(new, Live \cup {n}) = Count(items, Live)
      BY <1>1, <1>5, <2>1, <2>2, LiveIs, CountNew
    <2> QED
      BY <1>1, <1>8, <2>1, <2>3, LiveIs DEF HeapOK
  <1> HIDE DEF f, h, c, m, n
  <1>11. Rooted'
    <2>1. root # 0 /\ root \in Live /\ (\A i \in Live : root <= i) /\ items[root].next = 0
      BY <1>3 DEF HeapOK, Rooted
    <2>2. h # 0 => root # c
      BY <1>3
    <2>3. root <= n
      BY <1>3, <1>5, <2>1, LiveIs DEF n
    <2> QED
      BY <1>1, <1>8, <1>9, <2>1, <2>2, <2>3 DEF Rooted
  <1>12. Reaching'
    <2>1. ASSUME NEW i \in Live \cup {n}
          PROVE  /\ items'[i].next # 0 => items'[i].next \in Live \cup {n}
                 /\ items'[i].child # 0 => items'[i].child \in Live \cup {n}
      BY <1>1, <1>7, <1>9, SMTT(30)
    <2>2. ASSUME NEW k \in 1..m
          PROVE  /\ stack'[k].item \in Live /\ items'[stack'[k].item].child = 0
                 /\ stack'[k].head # 0 =>
                      /\ stack'[k].head \in Live \cup {n} /\ stack'[k].cur \in Live \cup {n}
                      /\ items'[stack'[k].cur].next = 0
      <3>1. CASE k = m
        BY <1>1, <1>3, <1>9, <3>1
      <3>2. CASE k # m
        <4>1. k \in 1..m - 1
          BY <1>2, <3>2
        <4> QED
          BY <1>4, <1>9, <4>1
      <3> QED
        BY <3>1, <3>2
    <2> QED
      BY <1>1, <1>8, <2>1, <2>2 DEF Reaching
  <1>13. OwnedOnce'
    <2>0. \A i \in Live, j \in Live :
           /\ items[i].next # 0 /\ items[i].next = items[j].next => i = j
           /\ items[i].child # 0 /\ items[i].child = items[j].child => i = j
           /\ items[i].next # 0 => items[i].next # items[j].child
      BY DEF HeapOK, OwnedOnce
    <2>1. ASSUME NEW i \in Live \cup {n}, NEW j \in Live \cup {n}
          PROVE  /\ items'[i].next # 0 /\ items'[i].next = items'[j].next => i = j
                 /\ items'[i].child # 0 /\ items'[i].child = items'[j].child => i = j
                 /\ items'[i].next # 0 => items'[i].next # items'[j].child
      <3>1. CASE i = n \/ j = n
        BY <1>1, <1>5, <1>7, <1>9, <3>1
      <3>2. CASE i \in Live /\ j \in Live
        BY <1>5, <1>7, <1>9, <2>0, <3>2
      <3> QED
        BY <3>1, <3>2
    <2>2. ASSUME NEW i \in Live \cup {n}, NEW k \in 1..m, stack'[k].head # 0
          PROVE  items'[i].next # stack'[k].head /\ items'[i].child # stack'[k].head
      <3>1. CASE i = n
        BY <1>1, <2>2, <3>1
      <3>2. CASE i \in Live /\ k = m
        BY <1>1, <1>3, <1>6, <1>7, <1>9, <3>2
      <3>3. CASE i \in Live /\ k # m
        <4>1. k \in 1..m - 1
          BY <1>2, <3>3
        <4>2. stack'[k].head \in Live /\ stack'[k].head # n
          BY <1>4, <1>6, <4>1
        <4> QED
          BY <1>4, <1>9, <3>3, <4>1, <4>2
      <3> QED
        BY <3>1, <3>2, <3>3
    <2> QED
      BY <1>1, <1>8, <2>1, <2>2 DEF OwnedOnce
  <1>14. ASSUME NEW j \in Live', j # root' PROVE Owned(j)'
    <2>1. CASE j = n
      <3>1. CASE h = 0
        BY <1>1, <1>2, <2>1, <3>1 DEF Owned
      <3>2. CASE h # 0
        BY <1>3, <1>8, <1>9, <2>1, <3>2 DEF Owned
      <3> QED
        BY <3>1, <3>2
    <2>2. CASE j \in Live
      <3>1. Owned(j) /\ j # 0
        BY <1>1, <1>6, <1>14, <2>2 DEF HeapOK
      <3>2. ASSUME NEW i \in Live, items[i].next = j \/ items[i].child = j
            PROVE  items'[i].next = j \/ items'[i].child = j
        BY <1>3, <1>9, <3>1, <3>2
      <3>3. ASSUME NEW k \in 1..m, stack[k].head = j
            PROVE  stack'[k].head = j
        <4>1. CASE k = m
          BY <1>1, <3>1, <3>3, <4>1 DEF f, h
        <4>2. CASE k # m
          <5>1. k \in 1..m - 1
            BY <1>2, <4>2
          <5> QED
            BY <1>1, <3>3, <5>1
        <4> QED
          BY <4>1, <4>2
      <3>4. (\E i \in Live : items[i].next = j \/ items[i].child = j) \/ (\E k \in 1..m : stack[k].head = j)
        BY <3>1 DEF Owned, m
      <3> QED
        BY <1>1, <1>8, <3>2, <3>3, <3>4 DEF Owned
    <2> QED
      BY <1>8, <2>1, <2>2
  <1> QED
    BY <1>1, <1>8, <1>10, <1>11, <1>12, <1>13, <1>14 DEF HeapOK, n

LEMMA HeapClose ==
  ASSUME PlaceOK, HeapOK, CloseStep
  PROVE  HeapOK' /\ Live' = Live
  <1> DEFINE m == Len(stack)
             f == stack[m]
             t == f.item
             h == f.head
  <1>1. /\ UNCHANGED <<strings, misused, root>> /\ pc = "after"
        /\ Len(items') = Len(items)
        /\ \A j \in 1..Len(items) :
             /\ items'[j].live = items[j].live
             /\ items'[j].string = items[j].string /\ items'[j].valuestring = items[j].valuestring
             /\ items'[j].next = items[j].next
             /\ items'[j].child = IF j = t THEN h ELSE items[j].child
        /\ Len(stack') = m - 1
        /\ \A k \in 1..m - 1 : stack'[k] = stack[k]
    BY DEF CloseStep
  <1>2. m \in Nat /\ m \in 1..m /\ Len(items) \in Nat /\ \A k \in 1..m : k = m \/ k \in 1..m - 1
    <2>1. stack # <<>>
      BY <1>1 DEF PlaceOK, PhaseOK
    <2> QED
      BY <2>1, TopIs, LiveIs DEF PlaceOK
  <1>3. /\ h # 0 /\ t \in Live /\ items[t].child = 0 /\ h \in Live /\ h \in Nat
        /\ \A i \in Live : items[i].next # h /\ items[i].child # h
    <2>1. h # 0
      BY <1>1, <1>2 DEF PlaceOK, FrameOK
    <2> QED
      BY <1>2, <2>1, FrameLive, FrameIs
  <1>4. ASSUME NEW k \in 1..m - 1
        PROVE  /\ stack'[k] = stack[k] /\ k \in 1..m
               /\ stack[k].item \in Live /\ items[stack[k].item].child = 0 /\ stack[k].item # t
               /\ stack[k].head \in Live /\ stack[k].cur \in Live /\ items[stack[k].cur].next = 0
               /\ stack[k].head # h
               /\ \A i \in Live : items[i].next # stack[k].head /\ items[i].child # stack[k].head
    <2>1. k \in 1..m /\ k \in 1..Len(stack) - 1
      BY <1>2
    <2>2. /\ stack[k].cur <= stack[m].item /\ stack[k].item < stack[m].item
          /\ stack[k].head # 0 /\ stack[k].cur \in 1..Len(items)
          /\ stack[k].head \in 1..Len(items) /\ stack[k].head <= stack[k].cur
          /\ stack[k].item < stack[k].head
      BY <2>1, CurBelow
    <2>3. /\ stack[k].item \in Live /\ items[stack[k].item].child = 0
          /\ stack[k].head \in Live /\ stack[k].cur \in Live /\ items[stack[k].cur].next = 0
          /\ \A i \in Live : items[i].next # stack[k].head /\ items[i].child # stack[k].head
      BY <2>1, <2>2, FrameLive
    <2>4. stack[m].item \in Nat /\ stack[m].item < stack[m].head /\ stack[m].head \in Nat
      BY <1>2, <1>3, FrameIs
    <2> PICK a, b, d : a = stack[k].item /\ b = stack[k].head /\ d = stack[k].cur
      OBVIOUS
    <2>5. a # t /\ b # h
      <3>1. a < t /\ b <= d /\ d <= t /\ t < h /\ t \in Nat /\ h \in Nat /\ b \in Nat /\ d \in Nat /\ a < b
        BY <1>2, <2>2, <2>4
      <3>2. a \in Nat
        BY <2>3, LiveIs
      <3> HIDE DEF t, h
      <3> QED
        BY <3>1, <3>2
    <2> QED
      BY <1>1, <2>1, <2>3, <2>5
  <1>5. Live' = Live
    BY <1>1, LiveIs
  <1>6. \A i \in Live : /\ items'[i].next = items[i].next
                        /\ items'[i].child = IF i = t THEN h ELSE items[i].child
                        /\ i # 0
    BY <1>1, LiveIs
  <1>7. strings' = Blocks(Live)'
    <2>1. PICK new : new = items'
      OBVIOUS
    <2>2. \A i \in Live : new[i].string = items[i].string /\ new[i].valuestring = items[i].valuestring
      BY <1>1, <2>1, LiveIs
    <2>3. Count(new, Live) = Count(items, Live)
      BY <2>2, CountSame
    <2> QED
      BY <1>1, <1>5, <2>1, <2>3, LiveIs DEF HeapOK
  <1>8. \A k \in 1..m : k = m \/ k \in 1..m - 1
    BY <1>2
  <1> HIDE DEF t, h, f, m
  <1>9. Rooted'
    BY <1>1, <1>5, <1>6 DEF HeapOK, Rooted
  <1>10. Reaching'
    <2>1. \A i \in Live :
            /\ items[i].next # 0 => items[i].next \in Live
            /\ items[i].child # 0 => items[i].child \in Live
      BY DEF HeapOK, Reaching
    <2>2. \A i \in Live :
            /\ items'[i].next # 0 => items'[i].next \in Live
            /\ items'[i].child # 0 => items'[i].child \in Live
      BY <1>3, <1>6, <2>1
    <2>3. ASSUME NEW k \in 1..m - 1
          PROVE  /\ stack'[k].item \in Live /\ items'[stack'[k].item].child = 0
                 /\ stack'[k].head \in Live /\ stack'[k].cur \in Live
                 /\ items'[stack'[k].cur].next = 0
      BY <1>4, <1>6
    <2> QED
      BY <1>1, <1>5, <2>2, <2>3 DEF Reaching
  <1>11. OwnedOnce'
    <2>0. \A i \in Live, j \in Live :
           /\ items[i].next # 0 /\ items[i].next = items[j].next => i = j
           /\ items[i].child # 0 /\ items[i].child = items[j].child => i = j
           /\ items[i].next # 0 => items[i].next # items[j].child
      BY DEF HeapOK, OwnedOnce
    <2>1. ASSUME NEW i \in Live, NEW j \in Live
          PROVE  /\ items'[i].next # 0 /\ items'[i].next = items'[j].next => i = j
                 /\ items'[i].child # 0 /\ items'[i].child = items'[j].child => i = j
                 /\ items'[i].next # 0 => items'[i].next # items'[j].child
      <3>1. items'[i].next = items[i].next /\ items'[j].next = items[j].next
        BY <1>6
      <3>2. items'[i].child # 0 /\ items'[i].child = items'[j].child => i = j
        <4>1. CASE i # t /\ j # t
          BY <1>6, <2>0, <4>1
        <4>2. CASE i = t \/ j = t
          BY <1>3, <1>6, <4>2
        <4> QED
          BY <4>1, <4>2
      <3>3. items[i].next # 0 => items[i].next # items'[j].child
        BY <1>3, <1>6, <2>0
      <3> QED
        BY <2>0, <3>1, <3>2, <3>3
    <2>2. ASSUME NEW i \in Live, NEW k \in 1..m - 1
          PROVE  items'[i].next # stack'[k].head /\ items'[i].child # stack'[k].head
      BY <1>4, <1>6
    <2> QED
      BY <1>1, <1>5, <2>1, <2>2 DEF OwnedOnce
  <1>12. ASSUME NEW j \in Live', j # root' PROVE Owned(j)'
    <2>1. j \in Live /\ j # 0 /\ Owned(j)
      BY <1>1, <1>5, <1>6, <1>12 DEF HeapOK
    <2>2. CASE \E i \in Live : items[i].next = j \/ items[i].child = j
      <3>1. PICK i \in Live : items[i].next = j \/ items[i].child = j
        BY <2>2
      <3>2. items'[i].next = j \/ items'[i].child = j
        BY <1>3, <1>6, <2>1, <3>1
      <3> QED
        BY <1>5, <3>1, <3>2 DEF Owned
    <2>3. CASE \E k \in 1..m : stack[k].head = j
      <3>1. PICK k \in 1..m : stack[k].head = j
        BY <2>3
      <3>2. CASE k = m
        <4>1. items'[t].child = j
          BY <1>3, <1>6, <3>1, <3>2 DEF f, h
        <4> QED
          BY <1>3, <1>5, <4>1 DEF Owned
      <3>3. CASE k # m
        <4>1. k \in 1..m - 1
          BY <1>8, <3>3
        <4> QED
          BY <1>1, <3>1, <4>1 DEF Owned
      <3> QED
        BY <3>2, <3>3
    <2> QED
      BY <2>1, <2>2, <2>3 DEF Owned, m
  <1> QED
    BY <1>1, <1>5, <1>7, <1>9, <1>10, <1>11, <1>12 DEF HeapOK

\* What is deleted is gone with its strings, and was there.
LEMMA FreeIs ==
  ASSUME PlaceOK, HeapOK, NEW i \in Nat, i = 0 \/ i \in Live, FreeStep(Deleted(i))
  PROVE  /\ Live' = Live \ Hanging(i)
         /\ ~misused' /\ strings' = Blocks(Live)'
         /\ \A j \in Live' : items'[j].next = items[j].next /\ items'[j].child = items[j].child
  <1> DEFINE dead == Hanging(i)
  <1>1. dead \in SUBSET Live
    BY HangsIs DEF Hangs, HeapOK
  <1>2. /\ Len(items') = Len(items)
        /\ \A j \in 1..Len(items) :
             /\ items'[j].live = (items[j].live /\ j \notin dead)
             /\ items'[j].string = items[j].string
             /\ items'[j].valuestring = items[j].valuestring
             /\ items'[j].next = items[j].next /\ items'[j].child = items[j].child
        /\ strings' = strings - Blocks(dead)
        /\ misused' = (misused \/ \E k \in dead : ~items[k].live)
    BY DEF FreeStep, Deleted
  <1> HIDE DEF dead
  <1>3. Live' = Live \ dead
    BY <1>2, LiveIs
  <1>4. ~misused'
    BY <1>1, <1>2, LiveIs DEF HeapOK
  <1>5. strings' = Blocks(Live)'
    <2>1. PICK new : new = items'
      OBVIOUS
    <2>2. \A j \in Live \ dead : new[j].string = items[j].string
                                 /\ new[j].valuestring = items[j].valuestring
      BY <1>2, <2>1, LiveIs
    <2>3. Count(new, Live \ dead) = Count(items, Live \ dead)
      BY <2>2, CountSame
    <2>4. Blocks(Live \ dead) = Count(items, Live \ dead)
      BY DEF Blocks, Count
    <2>5. Blocks(Live) - Blocks(dead) = Blocks(Live \ dead)
      BY <1>1, LiveIs, BlocksAre
    <2> QED
      BY <1>2, <1>3, <2>1, <2>3, <2>4, <2>5, LiveIs DEF HeapOK
  <1>6. \A j \in Live' : items'[j].next = items[j].next /\ items'[j].child = items[j].child
    BY <1>2, <1>3, LiveIs
  <1> QED
    BY <1>3, <1>4, <1>5, <1>6 DEF dead

LEMMA HeapPop ==
  ASSUME PlaceOK, HeapOK, PopStep
  PROVE  HeapOK'
  <1> DEFINE m == Len(stack)
             t == stack[m].item
             h == stack[m].head
             dead == Hanging(h)
  <1>1. /\ FreeStep(Deleted(h)) /\ stack # <<>> /\ Len(stack') = m - 1 /\ root' = root
        /\ \A k \in 1..m - 1 : stack'[k] = stack[k]
    BY DEF PopStep
  <1>2. m \in Nat /\ m \in 1..m /\ m >= 1 /\ \A k \in 1..m : k = m \/ k \in 1..m - 1
    BY <1>1, TopIs DEF PlaceOK
  <1>3. /\ h \in Nat /\ (h = 0 \/ h \in Live)
        /\ h # 0 => \A i \in Live : items[i].next # h /\ items[i].child # h
        /\ t \in Nat /\ (h # 0 => t < h) /\ root <= t /\ root >= 1 /\ root \in Nat
    BY <1>2, FrameLive, FrameIs DEF PlaceOK, TypeOK
  <1>4. Hangs(h)
    BY <1>3, HangsIs DEF HeapOK
  <1>5. /\ Live' = Live \ dead /\ ~misused' /\ strings' = Blocks(Live)'
        /\ \A j \in Live' : items'[j].next = items[j].next /\ items'[j].child = items[j].child
    BY <1>1, <1>3, FreeIs
  <1>6. /\ dead \subseteq Live /\ dead \subseteq Nat
        /\ \A j \in dead :
             /\ h <= j
             /\ items[j].next # 0 => items[j].next \in dead
             /\ items[j].child # 0 => items[j].child \in dead
             /\ j # h => \E p \in dead : items[p].next = j \/ items[p].child = j
        /\ h # 0 => h \in dead
        /\ h = 0 => dead = {}
    <2>1. h = 0 => dead = {}
      BY HangingIs
    <2>2. dead \subseteq Live
      BY <1>4 DEF Hangs
    <2>3. Live \subseteq Nat
      BY LiveIs
    <2> QED
      BY <1>4, <2>1, <2>2, <2>3 DEF Hangs
  <1>7. ASSUME NEW k \in 1..m - 1
        PROVE  /\ stack'[k] = stack[k] /\ k \in 1..m
               /\ stack[k].item \in Live' /\ items[stack[k].item].child = 0
               /\ stack[k].head \in Live' /\ stack[k].cur \in Live' /\ items[stack[k].cur].next = 0
               /\ \A i \in Live : items[i].next # stack[k].head /\ items[i].child # stack[k].head
    <2>1. k \in 1..m /\ k \in 1..Len(stack) - 1
      BY <1>2
    <2>2. /\ stack[k].cur <= stack[m].item /\ stack[k].item < stack[m].item
          /\ stack[k].head # 0 /\ stack[k].cur \in 1..Len(items)
          /\ stack[k].head \in 1..Len(items) /\ stack[k].head <= stack[k].cur
      BY <2>1, CurBelow
    <2>3. /\ stack[k].item \in Live /\ items[stack[k].item].child = 0
          /\ stack[k].head \in Live /\ stack[k].cur \in Live /\ items[stack[k].cur].next = 0
          /\ \A i \in Live : items[i].next # stack[k].head /\ items[i].child # stack[k].head
      BY <2>1, <2>2, FrameLive
    <2> PICK a, b, d : a = stack[k].item /\ b = stack[k].head /\ d = stack[k].cur
      OBVIOUS
    <2>4. a \in Nat /\ b \in Nat /\ d \in Nat
      BY <2>3, LiveIs
    <2>5. a < t /\ b <= d /\ d <= t
      BY <2>2
    <2> HIDE DEF t, h, dead
    <2>6. a \notin dead /\ b \notin dead /\ d \notin dead
      <3>1. CASE h = 0
        BY <1>6, <3>1
      <3>2. CASE h # 0
        <4>1. a < h /\ b < h /\ d < h
          BY <1>3, <2>4, <2>5, <3>2
        <4>2. \A j \in dead : j \in Nat /\ h <= j
          BY <1>6
        <4> QED
          BY <1>3, <2>4, <4>1, <4>2
      <3> QED
        BY <3>1, <3>2
    <2> QED
      BY <1>1, <1>5, <2>1, <2>3, <2>6
  <1>8. root \in Live' /\ \A i \in Live : root <= i
    <2>1. root # 0 /\ root \in Live /\ \A i \in Live : root <= i
      BY <1>3 DEF HeapOK, Rooted
    <2> HIDE DEF t, h, dead
    <2>2. ~(root \in dead)
      <3>1. CASE h = 0
        BY <1>6, <3>1
      <3>2. CASE h # 0
        <4>1. root < h
          BY <1>3, <3>2
        <4> QED
          BY <1>3, <1>6, <4>1
      <3> QED
        BY <3>1, <3>2
    <2> QED
      BY <1>5, <2>1, <2>2
  <1>9. Live' \subseteq Live
    BY <1>5
  <1>10. \A i \in Live, j \in Live :
           /\ items[i].next # 0 /\ items[i].next = items[j].next => i = j
           /\ items[i].child # 0 /\ items[i].child = items[j].child => i = j
           /\ items[i].next # 0 => items[i].next # items[j].child
    BY DEF HeapOK, OwnedOnce
  <1>11. \A k \in 1..m : k = m \/ k \in 1..m - 1
    BY <1>2
  <1> HIDE DEF t, h, dead, m
  <1>12. Rooted'
    <2>1. root # 0 /\ items[root].next = 0
      BY <1>3 DEF HeapOK, Rooted
    <2> QED
      BY <1>1, <1>5, <1>8, <1>9, <2>1 DEF Rooted
  <1>13. Reaching'
    <2>1. ASSUME NEW i \in Live', NEW j, j # 0, items[i].next = j \/ items[i].child = j
          PROVE  j \in Live'
      <3>1. i \in Live /\ i \notin dead /\ j \in Live
        BY <1>5, <2>1 DEF HeapOK, Reaching
      <3>2. ASSUME j \in dead PROVE FALSE
        <4>1. j # h
          BY <1>3, <2>1, <3>1
        <4>2. PICK p \in dead : items[p].next = j \/ items[p].child = j
          BY <1>6, <3>2, <4>1
        <4>3. p = i
          BY <1>6, <1>10, <2>1, <3>1, <4>2
        <4> QED
          BY <3>1, <4>3
      <3> QED
        BY <1>5, <3>1, <3>2
    <2>2. \A k \in 1..m - 1 :
            /\ stack'[k].item \in Live' /\ items'[stack'[k].item].child = 0
            /\ stack'[k].head \in Live' /\ stack'[k].cur \in Live' /\ items'[stack'[k].cur].next = 0
      BY <1>5, <1>7
    <2> QED
      BY <1>1, <1>5, <2>1, <2>2 DEF Reaching
  <1>14. OwnedOnce'
    <2>1. \A i \in Live', j \in Live' :
           /\ items'[i].next # 0 /\ items'[i].next = items'[j].next => i = j
           /\ items'[i].child # 0 /\ items'[i].child = items'[j].child => i = j
           /\ items'[i].next # 0 => items'[i].next # items'[j].child
      BY <1>5, <1>9, <1>10
    <2>2. ASSUME NEW i \in Live', NEW k \in 1..m - 1
          PROVE  items'[i].next # stack'[k].head /\ items'[i].child # stack'[k].head
      BY <1>5, <1>7, <1>9
    <2> QED
      BY <1>1, <2>1, <2>2 DEF OwnedOnce
  <1>15. ASSUME NEW j \in Live', j # root' PROVE Owned(j)'
    <2>1. j \in Live /\ j \notin dead /\ j # 0 /\ Owned(j)
      BY <1>1, <1>5, <1>15, LiveIs DEF HeapOK
    <2>2. CASE \E i \in Live : items[i].next = j \/ items[i].child = j
      <3>1. PICK i \in Live : items[i].next = j \/ items[i].child = j
        BY <2>2
      <3>2. i \in Live'
        BY <1>5, <1>6, <2>1, <3>1
      <3> QED
        BY <1>5, <3>1, <3>2 DEF Owned
    <2>3. CASE \E k \in 1..m : stack[k].head = j
      <3>1. PICK k \in 1..m : stack[k].head = j
        BY <2>3
      <3>2. k # m
        BY <1>6, <2>1, <3>1 DEF h
      <3>3. k \in 1..m - 1
        BY <1>11, <3>2
      <3> QED
        BY <1>1, <3>1, <3>3 DEF Owned
    <2> QED
      BY <2>1, <2>2, <2>3 DEF Owned, m
  <1> QED
    BY <1>5, <1>12, <1>13, <1>14, <1>15 DEF HeapOK

LEMMA HeapClear ==
  ASSUME PlaceOK, HeapOK, ClearStep
  PROVE  HeapOK' /\ Live' = {}
  <1> DEFINE dead == Hanging(root)
             n == Len(items)
             T == {k \in 0..n : k \in Live => k \in dead}
  <1>1. FreeStep(Deleted(root)) /\ stack = <<>> /\ stack' = <<>> /\ root' = 0
    BY DEF ClearStep
  <1>2. root \in Nat /\ n \in Nat /\ Live \subseteq 1..n
    BY LiveIs DEF PlaceOK, TypeOK
  <1>3. root = 0 \/ root \in Live
    BY DEF HeapOK, Rooted
  <1>4. Hangs(root)
    BY <1>2, <1>3, HangsIs DEF HeapOK
  <1>5. /\ Live' = Live \ dead /\ ~misused' /\ strings' = Blocks(Live)'
    BY <1>1, <1>2, <1>3, FreeIs
  <1>6. ASSUME NEW k \in 0..n, \A j \in 0..k - 1 : j \in T
        PROVE  k \in T
    <2> SUFFICES ASSUME k \in Live PROVE k \in dead
      OBVIOUS
    <2>1. root # 0
      BY DEF HeapOK, Rooted
    <2>2. CASE k = root
      BY <1>4, <2>1, <2>2 DEF Hangs
    <2>3. CASE k # root
      <3>1. Owned(k)
        BY <2>3 DEF HeapOK
      <3>2. PICK i \in Live : items[i].next = k \/ items[i].child = k
        BY <1>1, <3>1 DEF Owned
      <3>3. k # 0
        BY <1>2
      <3>4. i \in Nat /\ i < k
        BY <3>2, <3>3, LiveItem
      <3>5. i \in 0..k - 1
        BY <1>2, <3>4
      <3>6. i \in dead
        BY <1>6, <3>5
      <3> QED
        BY <1>4, <3>2, <3>3, <3>6 DEF Hangs
    <2> QED
      BY <2>2, <2>3
  <1>7. \A k \in 0..n : k \in T
    <2> HIDE DEF T
    <2> QED
      BY <1>2, <1>6, StrongInduction
  <1>8. Live' = {}
    <2>1. \A k \in Live : k \in 0..n
      BY <1>2
    <2> QED
      BY <1>5, <1>7, <2>1
  <1> QED
    BY <1>1, <1>5, <1>8 DEF HeapOK, Rooted, Reaching, OwnedOnce

\* Where add_item_to_array finds the last item.
LEMMA LastIs ==
  ASSUME PlaceOK, HeapOK, pc = "tree", NEW up, Lists(up)
  PROVE  /\ root \in Live /\ root # 0 /\ up[root] = 0 /\ stack = <<>> /\ items[root].next = 0
         /\ items[root].child # 0 =>
              LET head == items[root].child
                  last == items[head].prev
              IN /\ head \in Live /\ last \in Live /\ items[last].next = 0 /\ last # root
                 /\ up[head] = root /\ up[last] = root
  <1>1. root >= 1 /\ stack = <<>> /\ root \in Nat
    BY DEF PlaceOK, PhaseOK, Complete, TypeOK
  <1>2. root # 0
    BY <1>1
  <1>3. root \in Live /\ items[root].next = 0 /\ up[root] = 0
    BY <1>2 DEF HeapOK, Rooted, Lists
  <1> DEFINE head == items[root].child
             last == items[head].prev
  <1>4. ASSUME head # 0
        PROVE  /\ head \in Live /\ last \in Live /\ items[last].next = 0 /\ last # root
               /\ up[head] = root /\ up[last] = root
    <2>1. head \in Live
      BY <1>3, <1>4 DEF HeapOK, Reaching
    <2>2. last \in Live /\ items[last].next = 0 /\ up[head] = root /\ up[last] = root
      BY <1>3, <1>4 DEF Lists
    <2> QED
      BY <1>2, <1>3, <2>1, <2>2
  <1> QED
    BY <1>1, <1>2, <1>3, <1>4

LEMMA HeapAdd ==
  ASSUME PlaceOK, HeapOK, AddStep, NEW up, Lists(up)
  PROVE  HeapOK' /\ Live' = Live \cup {Len(items) + 1}
  <1> DEFINE n == Len(items) + 1
             h == items[root].child
             c == items[h].prev
  <1>1. /\ UNCHANGED <<misused, stack, root>> /\ pc = "tree" /\ strings' = strings + 2
        /\ Len(items') = n /\ items'[n].live
        /\ items'[n].string # <<>> /\ items'[n].valuestring # <<>>
        /\ items'[n].next = 0 /\ items'[n].child = 0
        /\ \A j \in 1..Len(items) :
             /\ items'[j].live = items[j].live
             /\ items'[j].string = items[j].string /\ items'[j].valuestring = items[j].valuestring
             /\ items'[j].child = IF h = 0 /\ j = root THEN n ELSE items[j].child
             /\ items'[j].next = IF h # 0 /\ c # 0 /\ j = c THEN n ELSE items[j].next
    BY DEF AddStep
  <1>2. /\ root \in Live /\ root # 0 /\ stack = <<>> /\ items[root].next = 0
        /\ h # 0 => h \in Live /\ c \in Live /\ items[c].next = 0 /\ c # root
    BY <1>1, LastIs
  <1>3. items[root].child = h
    OBVIOUS
  <1>5. n \in Nat /\ n # 0 /\ n \notin Live /\ n \in 1..n
        /\ \A i \in 1..n : i = n \/ i \in 1..Len(items)
    BY LiveIs
  <1>6. \A i \in Live : i \in 1..n /\ i # n /\ i # 0 /\ i \in 1..Len(items)
    BY LiveIs
  <1>7. \A i \in Live : /\ items[i].next # 0 => items[i].next \in Live
                        /\ items[i].child # 0 => items[i].child \in Live
    BY DEF HeapOK, Reaching
  <1>8. Live' = Live \cup {n}
    BY <1>1, <1>5, <1>6, LiveIs
  <1> HIDE DEF h, c
  <1>9. \A i \in Live : /\ items'[i].child = IF h = 0 /\ i = root THEN n ELSE items[i].child
                        /\ items'[i].next = IF h # 0 /\ i = c THEN n ELSE items[i].next
    BY <1>1, <1>2, <1>6
  <1>10. strings' = Blocks(Live)'
    <2>1. PICK new : new = items'
      OBVIOUS
    <2>2. \A i \in Live : new[i].string = items[i].string /\ new[i].valuestring = items[i].valuestring
      BY <1>1, <1>6, <2>1
    <2>3. Count(new, Live \cup {n}) = Count(items, Live) + 2
      BY <1>1, <1>5, <2>1, <2>2, LiveIs, CountNew
    <2> QED
      BY <1>1, <1>8, <2>1, <2>3, LiveIs DEF HeapOK
  <1> HIDE DEF n
  <1>11. Rooted'
    <2>1. \A i \in Live : root <= i
      BY <1>2 DEF HeapOK, Rooted
    <2>2. h # 0 => root # c
      BY <1>2
    <2>3. root <= n
      BY <1>2, LiveIs DEF n
    <2> QED
      BY <1>1, <1>2, <1>8, <1>9, <2>1, <2>2, <2>3 DEF Rooted
  <1>12. Reaching'
    <2>1. ASSUME NEW i \in Live \cup {n}
          PROVE  /\ items'[i].next # 0 => items'[i].next \in Live \cup {n}
                 /\ items'[i].child # 0 => items'[i].child \in Live \cup {n}
      BY <1>1, <1>7, <1>9
    <2>2. 1..Len(stack) = {}
      BY <1>2
    <2> QED
      BY <1>1, <1>8, <2>1, <2>2 DEF Reaching
  <1>13. OwnedOnce'
    <2>0. \A i \in Live, j \in Live :
           /\ items[i].next # 0 /\ items[i].next = items[j].next => i = j
           /\ items[i].child # 0 /\ items[i].child = items[j].child => i = j
           /\ items[i].next # 0 => items[i].next # items[j].child
      BY DEF HeapOK, OwnedOnce
    <2>1. ASSUME NEW i \in Live, NEW j \in Live
          PROVE  /\ items'[i].next # 0 /\ items'[i].next = items'[j].next => i = j
                 /\ items'[i].child # 0 /\ items'[i].child = items'[j].child => i = j
                 /\ items'[i].next # 0 => items'[i].next # items'[j].child
      <3>1. /\ items[i].next # n /\ items[j].next # n /\ items[i].child # n /\ items[j].child # n
        BY <1>5, <1>6, <1>7
      <3>2. /\ items'[i].child = IF h = 0 /\ i = root THEN n ELSE items[i].child
            /\ items'[j].child = IF h = 0 /\ j = root THEN n ELSE items[j].child
            /\ items'[i].next = IF h # 0 /\ i = c THEN n ELSE items[i].next
            /\ items'[j].next = IF h # 0 /\ j = c THEN n ELSE items[j].next
        BY <1>9
      <3>3. items'[i].next # 0 /\ items'[i].next = items'[j].next => i = j
        BY <2>0, <3>1, <3>2
      <3>4. items'[i].child # 0 /\ items'[i].child = items'[j].child => i = j
        BY <2>0, <3>1, <3>2
      <3>5. items'[i].next # 0 => items'[i].next # items'[j].child
        BY <2>0, <3>1, <3>2
      <3> QED
        BY <3>3, <3>4, <3>5
    <2>2. ASSUME NEW i \in Live \cup {n}, NEW j \in Live \cup {n}
          PROVE  /\ items'[i].next # 0 /\ items'[i].next = items'[j].next => i = j
                 /\ items'[i].child # 0 /\ items'[i].child = items'[j].child => i = j
                 /\ items'[i].next # 0 => items'[i].next # items'[j].child
      <3>1. CASE i \in Live /\ j \in Live
        BY <2>1, <3>1
      <3>2. CASE i = n
        BY <1>1, <1>5, <3>2
      <3>3. CASE j = n
        BY <1>1, <1>5, <3>3
      <3> QED
        BY <3>1, <3>2, <3>3
    <2>3. 1..Len(stack) = {}
      BY <1>2
    <2> QED
      BY <1>1, <1>8, <2>2, <2>3 DEF OwnedOnce
  <1>14. ASSUME NEW j \in Live', j # root' PROVE Owned(j)'
    <2>1. CASE j = n
      <3>1. CASE h = 0
        <4>1. items'[root].child = j
          BY <1>2, <1>9, <2>1, <3>1
        <4> QED
          BY <1>2, <1>8, <4>1 DEF Owned
      <3>2. CASE h # 0
        <4>1. items'[c].next = j
          BY <1>2, <1>9, <2>1, <3>2
        <4> QED
          BY <1>2, <1>8, <3>2, <4>1 DEF Owned
      <3> QED
        BY <3>1, <3>2
    <2>2. CASE j \in Live
      <3>1. Owned(j) /\ j # 0 /\ j \in 1..Len(items)
        BY <1>1, <1>6, <1>14, <2>2 DEF HeapOK
      <3>2. PICK i \in Live : items[i].next = j \/ items[i].child = j
        <4>1. 1..Len(stack) = {}
          BY <1>2
        <4> QED
          BY <3>1, <4>1 DEF Owned
      <3>3. items'[i].next = j \/ items'[i].child = j
        BY <1>2, <1>3, <1>9, <3>1, <3>2
      <3> QED
        BY <1>8, <3>2, <3>3 DEF Owned
    <2> QED
      BY <1>8, <2>1, <2>2
  <1> QED
    BY <1>1, <1>8, <1>10, <1>11, <1>12, <1>13, <1>14 DEF HeapOK, n

LEMMA HeapStep ==
  ASSUME PlaceOK, HeapOK, ListOK, Effect
  PROVE  HeapOK'
  <1>1. ASSUME AddStep PROVE HeapOK'
    <2>1. pc \notin Unwinding
      BY <1>1 DEF AddStep, Unwinding
    <2>2. PICK up : Lists(up)
      BY <2>1 DEF ListOK
    <2> QED
      BY <1>1, <2>2, HeapAdd
  <1> QED
    BY <1>1, HeapSame, HeapRoot, HeapValue, HeapPush, HeapElement, HeapClose, HeapPop, HeapClear
    DEF Effect

LEMMA HeapInit ==
  ASSUME Init
  PROVE  HeapOK
  <1>1. items = <<>> /\ stack = <<>> /\ root = 0 /\ strings = 0 /\ misused = FALSE
    BY DEF Init, TreeInit
  <1>2. Live = {}
    BY <1>1 DEF Live
  <1>3. Blocks({}) = 0
    BY <1>1, PlaceInit, BlocksAre
  <1> QED
    BY <1>1, <1>2, <1>3 DEF HeapOK, Rooted, Reaching, OwnedOnce

-----------------------------------------------------------------------------
(***************************************************************************)
(* The lists are kept.                                                     *)
(***************************************************************************)
LEMMA ListSame ==
  ASSUME PlaceOK, HeapOK, ListOK, Len(items') = Len(items), root' = root, pc \notin Unwinding,
         \A j \in 1..Len(items) :
           items'[j].live = items[j].live /\ items'[j].next = items[j].next
           /\ items'[j].prev = items[j].prev /\ items'[j].child = items[j].child,
         stack' = stack \/ PushStep
  PROVE  ListOK'
  <1> PICK up \in [1..Len(items) -> Nat] : Lists(up)
    BY DEF ListOK
  <1>1. Live' = Live
    BY LiveIs
  <1>2. \A j \in Live : /\ items'[j].next = items[j].next /\ items'[j].prev = items[j].prev
                        /\ items'[j].child = items[j].child
    BY LiveIs
  <1>3. /\ \A k \in 1..Len(stack) : k \in 1..Len(stack') /\ stack'[k] = stack[k]
        /\ \A k \in 1..Len(stack') : stack'[k].head # 0 => k \in 1..Len(stack)
    <2>1. CASE stack' = stack
      BY <2>1
    <2>2. CASE PushStep
      <3>1. PICK kind : stack' = Append(stack, [kind |-> kind, item |-> target, head |-> 0, cur |-> 0])
        BY <2>2 DEF PushStep
      <3> DEFINE f == [kind |-> kind, item |-> target, head |-> 0, cur |-> 0]
      <3>2. f.head = 0 /\ stack' = Append(stack, f) /\ stack \in Seq(Frame)
        BY <3>1 DEF PlaceOK, TypeOK
      <3> HIDE DEF f
      <3>3. /\ Len(stack') = Len(stack) + 1 /\ Len(stack) \in Nat /\ stack'[Len(stack) + 1].head = 0
            /\ \A k \in 1..Len(stack) : stack'[k] = stack[k]
        BY <3>2
      <3> QED
        BY <3>3
    <2> QED
      BY <2>1, <2>2
  <1>4. ASSUME NEW j \in Live
        PROVE  /\ items'[j].next # 0 => items'[items'[j].next].prev = j /\ up[items'[j].next] = up[j]
               /\ items'[j].child # 0 =>
                    LET last == items'[items'[j].child].prev IN
                    up[items'[j].child] = j /\ last \in Live /\ items'[last].next = 0 /\ up[last] = j
               /\ j # root /\ items'[j].next = 0 =>
                    \/ up[j] \in Live /\ items'[up[j]].child # 0 /\ items'[items'[up[j]].child].prev = j
                    \/ \E k \in 1..Len(stack') : stack'[k].item = up[j] /\ stack'[k].cur = j
    <2>1. /\ items[j].next # 0 => items[items[j].next].prev = j /\ up[items[j].next] = up[j]
          /\ items[j].child # 0 =>
               LET last == items[items[j].child].prev IN
               up[items[j].child] = j /\ last \in Live /\ items[last].next = 0 /\ up[last] = j
          /\ j # root /\ items[j].next = 0 =>
               \/ up[j] \in Live /\ items[up[j]].child # 0 /\ items[items[up[j]].child].prev = j
               \/ \E k \in 1..Len(stack) : stack[k].item = up[j] /\ stack[k].cur = j
      BY DEF Lists
    <2>2. \A i \in Live : /\ items[i].next # 0 => items[i].next \in Live
                          /\ items[i].child # 0 => items[i].child \in Live
      BY DEF HeapOK, Reaching
    <2>3. items'[j].next # 0 => items'[items'[j].next].prev = j /\ up[items'[j].next] = up[j]
      BY <1>2, <2>1, <2>2
    <2>4. ASSUME items'[j].child # 0
          PROVE  /\ up[items'[j].child] = j
                 /\ items'[items'[j].child].prev \in Live
                 /\ items'[items'[items'[j].child].prev].next = 0
                 /\ up[items'[items'[j].child].prev] = j
      <3> PICK h : h = items[j].child
        OBVIOUS
      <3>1. items'[j].child = h /\ h # 0 /\ h \in Live
        BY <1>2, <2>2, <2>4
      <3> PICK l : l = items[h].prev
        OBVIOUS
      <3>2. up[h] = j /\ l \in Live /\ items[l].next = 0 /\ up[l] = j
        BY <2>1, <3>1
      <3>3. items'[h].prev = l /\ items'[l].next = 0
        BY <1>2, <3>1, <3>2
      <3> QED
        BY <3>1, <3>2, <3>3
    <2>5. ASSUME j # root, items'[j].next = 0
          PROVE  \/ up[j] \in Live /\ items'[up[j]].child # 0 /\ items'[items'[up[j]].child].prev = j
                 \/ \E k \in 1..Len(stack') : stack'[k].item = up[j] /\ stack'[k].cur = j
      <3>1. CASE up[j] \in Live /\ items[up[j]].child # 0 /\ items[items[up[j]].child].prev = j
        BY <1>2, <2>2, <3>1, SMTT(30)
      <3>2. CASE \E k \in 1..Len(stack) : stack[k].item = up[j] /\ stack[k].cur = j
        BY <1>3, <3>2
      <3> QED
        BY <1>2, <2>1, <2>5, <3>1, <3>2
    <2> QED
      BY <2>3, <2>4, <2>5
  <1>5. \A k \in 1..Len(stack') :
          stack'[k].head # 0 => up[stack'[k].head] = stack'[k].item /\ up[stack'[k].cur] = stack'[k].item
    BY <1>3, SMTT(30) DEF Lists
  <1>6. Lists(up)'
    BY <1>1, <1>4, <1>5 DEF Lists
  <1> QED
    BY <1>6 DEF ListOK

\* What a list says of one live item.
InLists(up, j) ==
  /\ items[j].next # 0 => items[items[j].next].prev = j /\ up[items[j].next] = up[j]
  /\ items[j].child # 0 =>
       /\ up[items[j].child] = j
       /\ items[items[j].child].prev \in Live
       /\ items[items[items[j].child].prev].next = 0
       /\ up[items[items[j].child].prev] = j
  /\ j # root /\ items[j].next = 0 =>
       \/ up[j] \in Live /\ items[up[j]].child # 0 /\ items[items[up[j]].child].prev = j
       \/ \E k \in 1..Len(stack) : stack[k].item = up[j] /\ stack[k].cur = j

LEMMA ListsAre ==
  ASSUME NEW up
  PROVE  /\ Lists(up) <=>
              /\ root # 0 => up[root] = 0
              /\ \A j \in Live : InLists(up, j)
              /\ \A k \in 1..Len(stack) :
                   stack[k].head # 0 => up[stack[k].head] = stack[k].item /\ up[stack[k].cur] = stack[k].item
         /\ Lists(up)' <=>
              /\ root' # 0 => up[root'] = 0
              /\ \A j \in Live' : InLists(up, j)'
              /\ \A k \in 1..Len(stack') :
                   stack'[k].head # 0 => up[stack'[k].head] = stack'[k].item /\ up[stack'[k].cur] = stack'[k].item
  BY DEF Lists, InLists

\* One more item.
LEMMA UpMore ==
  ASSUME NEW n \in Nat, NEW up \in [1..n -> Nat], NEW x \in Nat
  PROVE  \E more \in [1..n + 1 -> Nat] : more[n + 1] = x /\ \A i \in 1..n : more[i] = up[i]
  <1> DEFINE more == [i \in 1..n + 1 |-> IF i = n + 1 THEN x ELSE up[i]]
  <1>1. more \in [1..n + 1 -> Nat]
    OBVIOUS
  <1>2. more[n + 1] = x /\ \A i \in 1..n : more[i] = up[i]
    OBVIOUS
  <1> HIDE DEF more
  <1> QED
    BY <1>1, <1>2

LEMMA ListRoot ==
  ASSUME PlaceOK, HeapOK, RootStep
  PROVE  ListOK'
  <1> PICK n : n = Len(items) + 1
    OBVIOUS
  <1> PICK up : up = [i \in 1..n |-> 0]
    OBVIOUS
  <1>1. /\ root' = n /\ Len(items') = n /\ items'[n].next = 0 /\ items'[n].child = 0
        /\ stack' = stack /\ pc \in Starting
    BY DEF RootStep, Starting
  <1>2. Live' = {root'} /\ n \in 1..n
    BY HeapRoot, LiveIs
  <1>3. up \in [1..n -> Nat] /\ up[n] = 0
    BY <1>2
  <1>4. 1..Len(stack) = {}
    BY <1>1 DEF PlaceOK, PhaseOK
  <1>5. InLists(up, n)'
    BY <1>1 DEF InLists
  <1>6. \A j \in Live' : InLists(up, j)'
    BY <1>1, <1>2, <1>5
  <1>7. Lists(up)'
    BY <1>1, <1>3, <1>4, <1>6, ListsAre
  <1> QED
    BY <1>1, <1>3, <1>7 DEF ListOK

LEMMA ListElement ==
  ASSUME PlaceOK, HeapOK, ListOK, ElementStep
  PROVE  ListOK'
  <1> PICK n : n = Len(items) + 1
    OBVIOUS
  <1> DEFINE m == Len(stack)
             f == stack[m]
             t == f.item
             c == f.cur
             h == f.head
  <1>1. /\ UNCHANGED <<root>> /\ pc = "element" /\ Len(items') = n
        /\ items'[n].next = 0 /\ items'[n].child = 0
        /\ items'[n].prev = IF h = 0 THEN 0 ELSE c
        /\ \A j \in 1..Len(items) :
             /\ items'[j].prev = items[j].prev /\ items'[j].child = items[j].child
             /\ items'[j].next = IF h # 0 /\ j = c THEN n ELSE items[j].next
        /\ Len(stack') = m
        /\ \A k \in 1..m - 1 : stack'[k] = stack[k]
        /\ stack'[m].item = t
        /\ stack'[m].head = (IF h = 0 THEN n ELSE h) /\ stack'[m].cur = n
    BY DEF ElementStep
  <1>2. pc \notin Unwinding
    BY <1>1 DEF Unwinding
  <1>3. PICK up \in [1..Len(items) -> Nat] : Lists(up)
    BY <1>2 DEF ListOK
  <1>4. m \in Nat /\ m \in 1..m /\ Len(items) \in Nat /\ \A k \in 1..m : k = m \/ k \in 1..m - 1
    <2>1. stack # <<>>
      BY <1>1 DEF PlaceOK, PhaseOK
    <2> QED
      BY <2>1, TopIs, LiveIs DEF PlaceOK
  <1>5. /\ t \in Live /\ items[t].child = 0 /\ t \in Nat
        /\ h # 0 => h \in Live /\ c \in Live /\ items[c].next = 0 /\ up[h] = t /\ up[c] = t
        /\ h = 0 => c = 0
    BY <1>3, <1>4, FrameLive, FrameIs DEF Lists
  <1>6. PICK more \in [1..n -> Nat] : more[n] = t /\ \A i \in 1..Len(items) : more[i] = up[i]
    <2> PICK x : x = t
      OBVIOUS
    <2> PICK l : l = Len(items)
      OBVIOUS
    <2>1. l \in Nat /\ x \in Nat /\ up \in [1..l -> Nat] /\ n = l + 1
      BY <1>3, <1>4, <1>5
    <2>2. \E more \in [1..l + 1 -> Nat] : more[l + 1] = x /\ \A i \in 1..l : more[i] = up[i]
      BY <2>1, UpMore, ZenonT(60)
    <2> QED
      BY <2>1, <2>2
  <1>7. Live' = Live \cup {n}
    BY HeapElement
  <1>8. n \in Nat /\ n # 0 /\ \A i \in Live : i # n /\ i # 0 /\ i \in 1..Len(items) /\ more[i] = up[i]
    BY <1>6, LiveIs
  <1>9. \A i \in Live : /\ items'[i].prev = items[i].prev /\ items'[i].child = items[i].child
                        /\ items'[i].next = IF h # 0 /\ i = c THEN n ELSE items[i].next
                        /\ items[i].next # 0 => items[i].next \in Live
                        /\ items[i].child # 0 => items[i].child \in Live
    BY <1>1, <1>8 DEF HeapOK, Reaching
  <1>10. ASSUME NEW k \in 1..m - 1
         PROVE  /\ stack'[k] = stack[k]
                /\ stack[k].head \in Live /\ stack[k].cur \in Live
                /\ up[stack[k].head] = stack[k].item /\ up[stack[k].cur] = stack[k].item
    <2>1. k \in 1..m /\ k \in 1..Len(stack) - 1
      BY <1>4
    <2>2. stack[k].head # 0
      BY <2>1, CurBelow
    <2> QED
      BY <1>1, <1>3, <2>1, <2>2, FrameLive DEF Lists
  <1>11. ASSUME NEW j \in Live PROVE InLists(up, j)
    BY <1>3, ListsAre
  <1>12. root \in Live /\ root # 0 /\ up[root] = 0
    <2>1. root >= 1 /\ root \in Nat
      BY <1>4, FrameIs DEF PlaceOK, TypeOK
    <2>2. root # 0
      BY <2>1
    <2> QED
      BY <1>3, <2>2 DEF HeapOK, Rooted, Lists
  <1> HIDE DEF t, c, h, f, m
  <1>13. InLists(more, n)'
    BY <1>1, <1>4, <1>6 DEF InLists
  <1>14. ASSUME NEW j \in Live PROVE InLists(more, j)'
    <2>1. items'[j].next # 0 => items'[items'[j].next].prev = j /\ more[items'[j].next] = more[j]
      <3>1. CASE h # 0 /\ j = c
        BY <1>1, <1>5, <1>6, <1>8, <1>9, <3>1
      <3>2. CASE ~(h # 0 /\ j = c)
        BY <1>8, <1>9, <1>11, <3>2, SMTT(30) DEF InLists
      <3> QED
        BY <3>1, <3>2
    <2>2. ASSUME items'[j].child # 0
          PROVE  /\ more[items'[j].child] = j
                 /\ items'[items'[j].child].prev \in Live'
                 /\ items'[items'[items'[j].child].prev].next = 0
                 /\ more[items'[items'[j].child].prev] = j
      <3> PICK x : x = items[j].child
        OBVIOUS
      <3>1. items'[j].child = x /\ x # 0 /\ x \in Live
        BY <1>9, <2>2
      <3> PICK l : l = items[x].prev
        OBVIOUS
      <3>2. up[x] = j /\ l \in Live /\ items[l].next = 0 /\ up[l] = j
        BY <1>11, <3>1, SMTT(30) DEF InLists
      <3>3. items'[x].prev = l
        BY <1>9, <3>1
      <3>4. ~(h # 0 /\ l = c)
        BY <1>5, <3>1, <3>2
      <3>5. items'[l].next = 0
        BY <1>9, <3>2, <3>4
      <3> QED
        BY <1>7, <1>8, <3>1, <3>2, <3>3, <3>5
    <2>3. ASSUME j # root', items'[j].next = 0
          PROVE  \/ /\ more[j] \in Live' /\ items'[more[j]].child # 0
                    /\ items'[items'[more[j]].child].prev = j
                 \/ \E k \in 1..Len(stack') : stack'[k].item = more[j] /\ stack'[k].cur = j
      <3>1. ~(h # 0 /\ j = c) /\ items[j].next = 0 /\ more[j] = up[j] /\ j # 0
        BY <1>8, <1>9, <2>3
      <3>2. CASE up[j] \in Live /\ items[up[j]].child # 0 /\ items[items[up[j]].child].prev = j
        BY <1>7, <1>9, <3>1, <3>2, SMTT(30)
      <3>3. CASE \E k \in 1..Len(stack) : stack[k].item = up[j] /\ stack[k].cur = j
        <4>1. PICK k \in 1..m : stack[k].item = up[j] /\ stack[k].cur = j
          BY <3>3 DEF m
        <4>2. k # m
          BY <1>5, <3>1, <4>1 DEF f, c
        <4>3. k \in 1..m - 1
          BY <1>4, <4>2
        <4> QED
          BY <1>1, <3>1, <4>1, <4>3
      <3> QED
        BY <1>1, <1>11, <2>3, <3>1, <3>2, <3>3 DEF InLists
    <2> QED
      BY <2>1, <2>2, <2>3 DEF InLists
  <1>15. ASSUME NEW k \in 1..m, stack'[k].head # 0
         PROVE  more[stack'[k].head] = stack'[k].item /\ more[stack'[k].cur] = stack'[k].item
    <2>1. CASE k = m
      BY <1>1, <1>5, <1>6, <1>8, <2>1
    <2>2. CASE k # m
      <3>1. k \in 1..m - 1
        BY <1>4, <2>2
      <3> QED
        BY <1>8, <1>10, <3>1
    <2> QED
      BY <2>1, <2>2
  <1>16. more[root'] = 0
    BY <1>1, <1>8, <1>12
  <1>17. \A j \in Live' : InLists(more, j)'
    BY <1>7, <1>13, <1>14
  <1>18. \A k \in 1..Len(stack') :
           stack'[k].head # 0 => more[stack'[k].head] = stack'[k].item /\ more[stack'[k].cur] = stack'[k].item
    BY <1>1, <1>15
  <1>19. Lists(more)'
    BY <1>16, <1>17, <1>18, ListsAre
  <1> QED
    BY <1>1, <1>6, <1>19 DEF ListOK

LEMMA ListClose ==
  ASSUME PlaceOK, HeapOK, ListOK, CloseStep
  PROVE  ListOK'
  <1> DEFINE m == Len(stack)
             f == stack[m]
             t == f.item
             c == f.cur
             h == f.head
  <1>1. /\ UNCHANGED <<root>> /\ pc = "after" /\ Len(items') = Len(items)
        /\ \A j \in 1..Len(items) :
             /\ items'[j].next = items[j].next
             /\ items'[j].prev = IF j = h THEN c ELSE items[j].prev
             /\ items'[j].child = IF j = t THEN h ELSE items[j].child
        /\ Len(stack') = m - 1
        /\ \A k \in 1..m - 1 : stack'[k] = stack[k]
    BY DEF CloseStep
  <1>2. pc \notin Unwinding
    BY <1>1 DEF Unwinding
  <1>3. PICK up \in [1..Len(items) -> Nat] : Lists(up)
    BY <1>2 DEF ListOK
  <1>4. m \in Nat /\ m \in 1..m /\ \A k \in 1..m : k = m \/ k \in 1..m - 1
    <2>1. stack # <<>>
      BY <1>1 DEF PlaceOK, PhaseOK
    <2> QED
      BY <2>1, TopIs DEF PlaceOK
  <1>5. /\ t \in Live /\ items[t].child = 0 /\ h # 0
        /\ h \in Live /\ c \in Live /\ items[c].next = 0 /\ up[h] = t /\ up[c] = t
        /\ \A i \in Live : items[i].next # h /\ items[i].child # h
    <2>1. h # 0
      BY <1>1, <1>4 DEF PlaceOK, FrameOK
    <2> QED
      BY <1>3, <1>4, <2>1, FrameLive DEF Lists
  <1>6. Live' = Live
    BY HeapClose
  <1>7. \A i \in Live : /\ items'[i].next = items[i].next
                        /\ items'[i].prev = IF i = h THEN c ELSE items[i].prev
                        /\ items'[i].child = IF i = t THEN h ELSE items[i].child
                        /\ items[i].next # 0 => items[i].next \in Live
                        /\ items[i].child # 0 => items[i].child \in Live
    BY <1>1, LiveIs DEF HeapOK, Reaching
  <1>8. \A k \in 1..m - 1 : stack'[k] = stack[k] /\ k \in 1..m
    BY <1>1, <1>4
  <1>9. ASSUME NEW j \in Live PROVE InLists(up, j)
    BY <1>3, ListsAre
  <1> HIDE DEF t, c, h, f, m
  <1>10. ASSUME NEW j \in Live PROVE InLists(up, j)'
    <2>1. items'[j].next # 0 => items'[items'[j].next].prev = j /\ up[items'[j].next] = up[j]
      BY <1>5, <1>7, <1>9 DEF InLists
    <2>2. ASSUME items'[j].child # 0
          PROVE  /\ up[items'[j].child] = j
                 /\ items'[items'[j].child].prev \in Live'
                 /\ items'[items'[items'[j].child].prev].next = 0
                 /\ up[items'[items'[j].child].prev] = j
      <3>1. CASE j = t
        <4>1. items'[j].child = h /\ items'[h].prev = c /\ items'[c].next = 0
          BY <1>5, <1>7, <3>1
        <4> QED
          BY <1>5, <1>6, <3>1, <4>1
      <3>2. CASE j # t
        <4> PICK x : x = items[j].child
          OBVIOUS
        <4>1. items'[j].child = x /\ x # 0 /\ x \in Live /\ x # h
          BY <1>5, <1>7, <2>2, <3>2
        <4> PICK l : l = items[x].prev
          OBVIOUS
        <4>2. up[x] = j /\ l \in Live /\ items[l].next = 0 /\ up[l] = j
          BY <1>9, <4>1 DEF InLists
        <4>3. items'[x].prev = l /\ items'[l].next = 0
          BY <1>7, <4>1, <4>2
        <4> QED
          BY <1>6, <4>1, <4>2, <4>3
      <3> QED
        BY <3>1, <3>2
    <2>3. ASSUME j # root', items'[j].next = 0
          PROVE  \/ /\ up[j] \in Live' /\ items'[up[j]].child # 0
                    /\ items'[items'[up[j]].child].prev = j
                 \/ \E k \in 1..Len(stack') : stack'[k].item = up[j] /\ stack'[k].cur = j
      <3>1. items[j].next = 0 /\ j # root
        BY <1>1, <1>7, <2>3
      <3>2. CASE up[j] \in Live /\ items[up[j]].child # 0 /\ items[items[up[j]].child].prev = j
        <4> PICK u : u = up[j]
          OBVIOUS
        <4> PICK x : x = items[u].child
          OBVIOUS
        <4>1. u \in Live /\ x # 0 /\ items[x].prev = j /\ u # t /\ x # h /\ x \in Live
          BY <1>5, <1>7, <3>2
        <4>2. items'[u].child = x /\ items'[x].prev = j
          BY <1>7, <4>1
        <4> QED
          BY <1>6, <4>1, <4>2
      <3>3. CASE \E k \in 1..Len(stack) : stack[k].item = up[j] /\ stack[k].cur = j
        <4>1. PICK k \in 1..m : stack[k].item = up[j] /\ stack[k].cur = j
          BY <3>3 DEF m
        <4>2. CASE k = m
          <5>1. up[j] = t /\ j = c
            BY <4>1, <4>2 DEF f, t, c
          <5>2. items'[t].child = h /\ items'[h].prev = c
            BY <1>5, <1>7
          <5> QED
            BY <1>5, <1>6, <5>1, <5>2
        <4>3. CASE k # m
          <5>1. k \in 1..m - 1
            BY <1>4, <4>3
          <5> QED
            BY <1>1, <4>1, <5>1
        <4> QED
          BY <4>2, <4>3
      <3> QED
        BY <1>9, <3>1, <3>2, <3>3 DEF InLists
    <2> QED
      BY <2>1, <2>2, <2>3 DEF InLists
  <1>11. ASSUME NEW k \in 1..m - 1, stack'[k].head # 0
         PROVE  up[stack'[k].head] = stack'[k].item /\ up[stack'[k].cur] = stack'[k].item
    BY <1>3, <1>8, <1>11 DEF Lists, m
  <1>12. root' # 0 => up[root'] = 0
    BY <1>1, <1>3 DEF Lists
  <1>13. Lists(up)'
    BY <1>1, <1>6, <1>10, <1>11, <1>12, ListsAre
  <1> QED
    BY <1>1, <1>3, <1>13 DEF ListOK

LEMMA ListAdd ==
  ASSUME PlaceOK, HeapOK, ListOK, AddStep
  PROVE  ListOK'
  <1> PICK n : n = Len(items) + 1
    OBVIOUS
  <1> DEFINE h == items[root].child
             c == items[h].prev
  <1>1. /\ UNCHANGED <<stack, root>> /\ pc = "tree" /\ Len(items') = n
        /\ items'[n].next = 0 /\ items'[n].child = 0
        /\ items'[n].prev = IF h = 0 THEN n ELSE c
        /\ \A j \in 1..Len(items) :
             /\ items'[j].child = IF h = 0 /\ j = root THEN n ELSE items[j].child
             /\ items'[j].next = IF h # 0 /\ c # 0 /\ j = c THEN n ELSE items[j].next
             /\ items'[j].prev = IF h # 0 /\ c # 0 /\ j = h THEN n ELSE items[j].prev
    BY DEF AddStep
  <1>2. pc \notin Unwinding
    BY <1>1 DEF Unwinding
  <1>3. PICK up \in [1..Len(items) -> Nat] : Lists(up)
    BY <1>2 DEF ListOK
  <1>4. /\ root \in Live /\ root # 0 /\ up[root] = 0 /\ stack = <<>> /\ items[root].next = 0
        /\ h # 0 => /\ h \in Live /\ c \in Live /\ items[c].next = 0 /\ c # root
                    /\ up[h] = root /\ up[c] = root
    BY <1>1, <1>3, LastIs
  <1>5. PICK more \in [1..n -> Nat] : more[n] = root /\ \A i \in 1..Len(items) : more[i] = up[i]
    <2> PICK l : l = Len(items)
      OBVIOUS
    <2>1. l \in Nat /\ root \in Nat /\ up \in [1..l -> Nat] /\ n = l + 1
      BY <1>3, LiveIs DEF PlaceOK, TypeOK
    <2>2. \E more \in [1..l + 1 -> Nat] : more[l + 1] = root /\ \A i \in 1..l : more[i] = up[i]
      BY <2>1, UpMore, ZenonT(60)
    <2> QED
      BY <2>1, <2>2
  <1>6. Live' = Live \cup {n}
    BY <1>3, HeapAdd
  <1>7. n \in Nat /\ n # 0 /\ \A i \in Live : i # n /\ i # 0 /\ i \in 1..Len(items) /\ more[i] = up[i]
    BY <1>5, LiveIs
  <1>8. \A i \in Live : /\ items'[i].child = IF h = 0 /\ i = root THEN n ELSE items[i].child
                        /\ items'[i].next = IF h # 0 /\ i = c THEN n ELSE items[i].next
                        /\ items'[i].prev = IF h # 0 /\ i = h THEN n ELSE items[i].prev
                        /\ items[i].next # 0 => items[i].next \in Live
                        /\ items[i].child # 0 => items[i].child \in Live
    BY <1>1, <1>4, <1>7, SMTT(30) DEF HeapOK, Reaching
  <1>9. items[root].child = h /\ (h # 0 => items[h].prev = c)
    OBVIOUS
  <1>10. \A i \in Live, j \in Live :
           /\ items[i].child # 0 /\ items[i].child = items[j].child => i = j
           /\ items[i].next # 0 => items[i].next # items[j].child
    BY DEF HeapOK, OwnedOnce
  <1>11. ASSUME NEW j \in Live PROVE InLists(up, j)
    BY <1>3, ListsAre
  <1> HIDE DEF h, c
  <1>12. InLists(more, n)'
    <2>1. CASE h = 0
      <3>1. items'[root].child = n /\ items'[n].prev = n
        BY <1>1, <1>4, <1>8, <2>1
      <3> QED
        BY <1>1, <1>4, <1>5, <1>6, <1>7, <3>1 DEF InLists
    <2>2. CASE h # 0
      <3>1. items'[root].child = h /\ items'[h].prev = n
        BY <1>4, <1>8, <1>9, <2>2
      <3> QED
        BY <1>1, <1>4, <1>5, <1>6, <2>2, <3>1 DEF InLists
    <2> QED
      BY <2>1, <2>2
  <1>13. ASSUME NEW j \in Live PROVE InLists(more, j)'
    <2>1. items'[j].next # 0 => items'[items'[j].next].prev = j /\ more[items'[j].next] = more[j]
      <3>1. CASE h # 0 /\ j = c
        BY <1>1, <1>4, <1>5, <1>7, <1>8, <3>1
      <3>2. CASE ~(h # 0 /\ j = c)
        <4> PICK x : x = items[j].next
          OBVIOUS
        <4>1. items'[j].next = x
          BY <1>8, <3>2
        <4>2. ASSUME x # 0 PROVE items'[x].prev = j /\ more[x] = more[j]
          <5>1. x \in Live /\ items[x].prev = j /\ up[x] = up[j]
            BY <1>8, <1>11, <4>2 DEF InLists
          <5>2. ~(h # 0 /\ x = h)
            BY <1>4, <1>9, <1>10, <4>2
          <5> QED
            BY <1>7, <1>8, <5>1, <5>2
        <4> QED
          BY <4>1, <4>2
      <3> QED
        BY <3>1, <3>2
    <2>2. ASSUME items'[j].child # 0
          PROVE  /\ more[items'[j].child] = j
                 /\ items'[items'[j].child].prev \in Live'
                 /\ items'[items'[items'[j].child].prev].next = 0
                 /\ more[items'[items'[j].child].prev] = j
      <3>1. CASE j = root /\ h = 0
        <4>1. items'[j].child = n /\ items'[n].prev = n
          BY <1>1, <1>8, <3>1
        <4> QED
          BY <1>1, <1>5, <1>6, <3>1, <4>1
      <3>2. CASE j = root /\ h # 0
        <4>1. items'[j].child = h /\ items'[h].prev = n
          BY <1>4, <1>8, <1>9, <3>2
        <4> QED
          BY <1>1, <1>4, <1>5, <1>6, <1>7, <3>2, <4>1
      <3>3. CASE j # root
        <4> PICK x : x = items[j].child
          OBVIOUS
        <4>1. items'[j].child = x /\ x # 0 /\ x \in Live /\ ~(h # 0 /\ x = h)
          BY <1>4, <1>8, <1>9, <1>10, <2>2, <3>3
        <4> PICK l : l = items[x].prev
          OBVIOUS
        <4>2. up[x] = j /\ l \in Live /\ items[l].next = 0 /\ up[l] = j
          BY <1>11, <4>1 DEF InLists
        <4>3. ~(h # 0 /\ l = c)
          BY <1>4, <3>3, <4>2
        <4>4. items'[x].prev = l /\ items'[l].next = 0
          BY <1>8, <4>1, <4>2, <4>3
        <4> QED
          BY <1>6, <1>7, <4>1, <4>2, <4>4
      <3> QED
        BY <3>1, <3>2, <3>3
    <2>3. ASSUME j # root', items'[j].next = 0
          PROVE  \/ /\ more[j] \in Live' /\ items'[more[j]].child # 0
                    /\ items'[items'[more[j]].child].prev = j
                 \/ \E k \in 1..Len(stack') : stack'[k].item = more[j] /\ stack'[k].cur = j
      <3>1. ~(h # 0 /\ j = c) /\ items[j].next = 0 /\ more[j] = up[j] /\ j # root
        BY <1>1, <1>7, <1>8, <2>3
      <3>2. 1..Len(stack) = {}
        BY <1>4
      <3> PICK u : u = up[j]
        OBVIOUS
      <3> PICK x : x = items[u].child
        OBVIOUS
      <3>3. u \in Live /\ x # 0 /\ items[x].prev = j
        BY <1>11, <3>1, <3>2 DEF InLists
      <3>4. ~(h # 0 /\ x = h) /\ u # root /\ x \in Live
        <4>1. ASSUME u = root PROVE FALSE
          <5>1. x = h
            BY <1>9, <4>1
          <5> QED
            BY <1>9, <3>1, <3>3, <5>1
        <4>2. x \in Live
          BY <1>8, <3>3
        <4>3. ASSUME h # 0, x = h PROVE FALSE
          BY <1>4, <1>9, <1>10, <3>3, <4>1, <4>3
        <4> QED
          BY <4>1, <4>2, <4>3
      <3>5. items'[u].child = x /\ items'[x].prev = j
        BY <1>8, <3>3, <3>4
      <3> QED
        BY <1>6, <3>1, <3>3, <3>5
    <2> QED
      BY <2>1, <2>2, <2>3 DEF InLists
  <1>14. \A j \in Live' : InLists(more, j)'
    BY <1>6, <1>12, <1>13
  <1>15. 1..Len(stack') = {}
    BY <1>1, <1>4
  <1>16. more[root'] = 0
    BY <1>1, <1>4, <1>7
  <1>17. Lists(more)'
    BY <1>14, <1>15, <1>16, ListsAre
  <1> QED
    BY <1>1, <1>5, <1>17 DEF ListOK

LEMMA ListClear ==
  ASSUME PlaceOK, HeapOK, ClearStep
  PROVE  ListOK'
  <1> PICK n : n = Len(items)
    OBVIOUS
  <1> PICK up : up = [i \in 1..n |-> 0]
    OBVIOUS
  <1>1. Len(items') = n /\ root' = 0 /\ stack' = <<>> /\ Live' = {}
    BY HeapClear DEF ClearStep, FreeStep
  <1>2. up \in [1..n -> Nat]
    OBVIOUS
  <1>3. 1..Len(stack') = {}
    BY <1>1
  <1>4. Lists(up)'
    BY <1>1, <1>3, ListsAre
  <1> QED
    BY <1>1, <1>2, <1>4 DEF ListOK

LEMMA ListStep ==
  ASSUME PlaceOK, HeapOK, ListOK, Effect
  PROVE  ListOK'
  <1>1. CASE QuietStep
    <2>1. CASE pc \in Unwinding
      <3>1. pc' = pc
        BY <1>1, <2>1 DEF QuietStep, Unwinding, Printing
      <3> QED
        BY <2>1, <3>1 DEF ListOK
    <2>2. CASE pc \notin Unwinding
      BY <1>1, <2>2, ListSame DEF QuietStep, Still
    <2> QED
      BY <2>1, <2>2
  <1>2. CASE FailStep \/ PopStep
    BY <1>2 DEF FailStep, PopStep, ListOK, Unwinding
  <1>3. CASE CommaStep
    BY <1>3, ListSame DEF CommaStep, Still, Unwinding
  <1>4. CASE ValueStep \/ NameStep
    <2>1. /\ Len(items') = Len(items) /\ root' = root /\ pc \notin Unwinding /\ stack' = stack
          /\ \A j \in 1..Len(items) :
               items'[j].live = items[j].live /\ items'[j].next = items[j].next
               /\ items'[j].prev = items[j].prev /\ items'[j].child = items[j].child
      BY <1>4 DEF ValueStep, NameStep, Relabels, Unwinding
    <2> QED
      BY <2>1, ListSame
  <1>5. CASE PushStep
    BY <1>5, ListSame DEF PushStep, Unwinding
  <1> QED
    BY <1>1, <1>2, <1>3, <1>4, <1>5, ListRoot, ListElement, ListClose, ListAdd, ListClear DEF Effect

LEMMA ListInit ==
  ASSUME Init
  PROVE  ListOK
  <1>1. items = <<>> /\ stack = <<>> /\ root = 0
    BY DEF Init, TreeInit
  <1> PICK up : up = [i \in 1..0 |-> 0]
    OBVIOUS
  <1>2. Live = {} /\ up \in [1..Len(items) -> Nat] /\ 1..Len(stack) = {}
    BY <1>1 DEF Live
  <1>3. Lists(up)
    BY <1>1, <1>2, ListsAre
  <1> QED
    BY <1>2, <1>3 DEF ListOK

-----------------------------------------------------------------------------
(***************************************************************************)
(* A list, followed from its head.                                         *)
(***************************************************************************)
LEMMA SiblingsAre ==
  ASSUME PlaceOK
  PROVE  /\ Siblings(0) = <<>>
         /\ \A k \in 1..Len(items) :
              Siblings(items[k].next) \in Seq(Nat) /\ Siblings(k) = <<k>> \o Siblings(items[k].next)
  <1> DEFINE n == Len(items)
             S == Seq(Nat)
             a == [k \in 1..n |-> items[k].next]
             b == [k \in 1..n |-> 0]
             step == [k \in 1..n |-> [p \in S \X S |-> <<k>> \o p[1]]]
             body(g) == [k \in 0..n |-> IF k = 0 THEN <<>> ELSE <<k>> \o g[items[k].next]]
             list == CHOOSE g : g = body(g)
  <1>0. n \in Nat
    BY DEF PlaceOK, TypeOK
  <1>1. /\ a \in [1..n -> Nat] /\ b \in [1..n -> Nat]
        /\ \A k \in 1..n : (a[k] # 0 => k < a[k] /\ a[k] <= n) /\ (b[k] # 0 => k < b[k] /\ b[k] <= n)
        /\ \A k \in 1..n : a[k] = items[k].next /\ b[k] = 0
    <2>1. \A k \in 1..n : /\ items[k].next \in Nat
                          /\ items[k].next # 0 => k < items[k].next /\ items[k].next <= n
      BY ItemIs, <1>0
    <2> QED
      BY <2>1
  <1>2. step \in [1..n -> [S \X S -> S]] /\ <<>> \in S
    <2>1. \A k \in 1..n : \A p \in S \X S : <<k>> \o p[1] \in S
      BY <1>0
    <2> QED
      BY <2>1
  <1>3. \A k \in 1..n : \A p \in S \X S : step[k][p] = <<k>> \o p[1]
    OBVIOUS
  <1> HIDE DEF a, b, step, n
  <1>4. PICK g \in [0..n -> S] : Follows(g, n, <<>>, step, a, b)
    <2> HIDE DEF S
    <2> QED
      BY <1>0, <1>1, <1>2, Descend
  <1>5. ASSUME NEW k \in 0..n
        PROVE  g[k] = IF k = 0 THEN <<>> ELSE <<k>> \o g[items[k].next]
    <2>1. CASE k = 0
      BY <1>4, <2>1 DEF Follows
    <2>2. CASE k # 0
      <3>1. k \in 1..n
        BY <1>0, <2>2
      <3>2. a[k] \in 0..n /\ b[k] \in 0..n
        BY <1>0, <1>1, <3>1
      <3>3. <<g[a[k]], g[b[k]]>> \in S \X S
        BY <3>2
      <3>4. g[k] = step[k][<<g[a[k]], g[b[k]]>>]
        BY <1>4, <3>1 DEF Follows
      <3>5. g[k] = <<k>> \o g[a[k]]
        BY <1>3, <3>1, <3>3, <3>4
      <3> QED
        BY <1>1, <2>2, <3>1, <3>5
    <2> QED
      BY <2>1, <2>2
  <1>6. g = body(g)
    BY <1>5
  <1>7. list = body(list)
    <2>1. \E f : f = body(f)
      BY <1>6
    <2> QED
      BY <2>1
  <1>8. \A i : Siblings(i) = list[i]
    BY DEF Siblings, n
  <1> HIDE DEF list
  <1>9. list[0] = <<>>
    BY <1>0, <1>7
  <1>10. ASSUME NEW k \in 1..n
         PROVE  list[k] = <<k>> \o list[items[k].next]
    <2>1. k \in 0..n /\ k # 0
      BY <1>0
    <2> QED
      BY <1>7, <2>1
  <1> DEFINE T == {k \in 1..n : list[k] \in Seq(Nat)}
  <1>11. \A k \in 1..n : list[items[k].next] \in Seq(Nat) => k \in T
    <2> SUFFICES ASSUME NEW k \in 1..n, list[items[k].next] \in Seq(Nat) PROVE k \in T
      OBVIOUS
    <2>1. list[k] = <<k>> \o list[items[k].next]
      BY <1>10
    <2> PICK r : r = list[items[k].next]
      OBVIOUS
    <2>2. r \in Seq(Nat)
      OBVIOUS
    <2>3. k \in Nat
      BY <1>0
    <2>4. <<k>> \o r \in Seq(Nat)
      <3> HIDE DEF list
      <3> QED
        BY <2>2, <2>3
    <2>5. list[k] = <<k>> \o r
      BY <2>1
    <2>6. list[k] \in Seq(Nat)
      BY <2>4, <2>5
    <2> QED
      BY <2>6
  <1>12. ASSUME NEW k \in 1..n, \A j \in k + 1..n : j \in T PROVE k \in T
    <2>1. /\ items[k].next \in Nat
          /\ items[k].next # 0 => k < items[k].next /\ items[k].next <= n
      BY <1>1
    <2>2. items[k].next # 0 => items[k].next \in k + 1..n
      BY <1>0, <2>1
    <2>3. list[items[k].next] \in Seq(Nat)
      <3>1. CASE items[k].next = 0
        <4>1. <<>> \in Seq(Nat)
          OBVIOUS
        <4> QED
          BY <1>9, <3>1, <4>1
      <3>2. CASE items[k].next # 0
        BY <1>12, <2>2, <3>2
      <3> QED
        BY <3>1, <3>2
    <2> QED
      BY <1>11, <2>3
  <1>13. \A k \in 1..n : k \in T
    <2> HIDE DEF T
    <2>1. \A k \in 1..n : (\A j \in k + 1..n : j \in T) => k \in T
      BY <1>12
    <2> QED
      BY <1>0, <2>1, DownInduction
  <1>14. ASSUME NEW k \in 1..n PROVE list[items[k].next] \in Seq(Nat)
    <2>1. /\ items[k].next \in Nat
          /\ items[k].next # 0 => k < items[k].next /\ items[k].next <= n
      BY <1>1
    <2>2. items[k].next # 0 => items[k].next \in 1..n
      BY <1>0, <2>1
    <2>3. <<>> \in Seq(Nat)
      OBVIOUS
    <2>4. CASE items[k].next = 0
      BY <1>9, <2>3, <2>4
    <2>5. CASE items[k].next # 0
      BY <1>13, <2>2, <2>5
    <2> QED
      BY <2>4, <2>5
  <1> QED
    BY <1>8, <1>9, <1>10, <1>14 DEF n

\* From item k on the list goes from next to next, back from prev to prev, and
\* all its items have one parent.
Chain(up, k) ==
  LET s == Siblings(k) IN
  /\ s \in Seq(Live) /\ (k = 0 => s = <<>>)
  /\ k # 0 => s # <<>> /\ s[1] = k
  /\ \A q \in 1..Len(s) :
       /\ up[s[q]] = up[k]
       /\ q > 1 => items[s[q]].prev = s[q - 1]
       /\ items[s[q]].next = IF q = Len(s) THEN 0 ELSE s[q + 1]

LEMMA ChainIs ==
  ASSUME PlaceOK, HeapOK, NEW up, Lists(up), NEW i, i \in Live
  PROVE  Chain(up, i)
  <1> DEFINE n == Len(items)
             T == {k \in 1..n : k \in Live => Chain(up, k)}
  <1>0. n \in Nat /\ Live \subseteq 1..n /\ i \in 1..n
    BY LiveIs
  <1>1. Chain(up, 0)
    <2> PICK s : s = Siblings(0)
      OBVIOUS
    <2>1. s = <<>>
      BY SiblingsAre
    <2>2. s \in Seq(Live)
      <3>1. <<>> \in Seq(Live)
        OBVIOUS
      <3> QED
        BY <2>1, <3>1
    <2>3. Len(s) = 0
      BY <2>1
    <2>4. 1..Len(s) = {}
      BY <2>3
    <2> QED
      BY <2>1, <2>2, <2>4 DEF Chain
  <1>2. ASSUME NEW k \in 1..n, \A j \in k + 1..n : j \in T PROVE k \in T
    <2> SUFFICES ASSUME k \in Live PROVE Chain(up, k)
      OBVIOUS
    <2> DEFINE x == items[k].next
               r == Siblings(x)
               s == Siblings(k)
    <2>1. s = <<k>> \o r
      BY SiblingsAre
    <2>2. x # 0 => x \in Live /\ items[x].prev = k /\ up[x] = up[k]
      BY DEF HeapOK, Reaching, Lists
    <2>3. x # 0 => x \in k + 1..n
      <3>1. x \in Nat /\ (x # 0 => k < x)
        BY LiveItem
      <3> HIDE DEF x
      <3> QED
        BY <1>0, <2>2, <3>1
    <2>4. items[k].next = x
      OBVIOUS
    <2> HIDE DEF x, s
    <2>5. Chain(up, x)
      BY <1>1, <1>2, <2>2, <2>3
    <2>6. /\ r \in Seq(Live) /\ (x = 0 => r = <<>>) /\ (x # 0 => r # <<>> /\ r[1] = x)
          /\ \A q \in 1..Len(r) :
               /\ up[r[q]] = up[x]
               /\ q > 1 => items[r[q]].prev = r[q - 1]
               /\ items[r[q]].next = IF q = Len(r) THEN 0 ELSE r[q + 1]
      BY <2>5 DEF Chain
    <2> HIDE DEF r
    <2>7. /\ s \in Seq(Live) /\ Len(s) = Len(r) + 1 /\ s[1] = k /\ s # <<>> /\ Len(r) \in Nat
          /\ \A q \in 1..Len(r) : s[q + 1] = r[q]
      BY <2>1, <2>6
    <2>8. x # 0 <=> Len(r) # 0
      BY <2>6
    <2>9. ASSUME NEW q \in 1..Len(s)
          PROVE  /\ up[s[q]] = up[k]
                 /\ q > 1 => items[s[q]].prev = s[q - 1]
                 /\ items[s[q]].next = IF q = Len(s) THEN 0 ELSE s[q + 1]
      <3>1. CASE q = 1
        <4>1. CASE x = 0
          <5>1. Len(s) = 1
            BY <2>7, <2>8, <4>1
          <5>2. s[q] = k
            BY <2>7, <3>1
          <5>3. ~(q > 1) /\ q = Len(s)
            BY <3>1, <5>1
          <5>4. items[s[q]].next = 0
            BY <2>4, <4>1, <5>2
          <5> QED
            BY <5>2, <5>3, <5>4
        <4>2. CASE x # 0
          <5>1. 1 \in 1..Len(r) /\ Len(s) # 1
            BY <2>7, <2>8, <4>2
          <5>2. s[1 + 1] = x
            BY <2>6, <2>7, <4>2, <5>1
          <5> QED
            BY <2>4, <2>7, <3>1, <5>1, <5>2
        <4> QED
          BY <4>1, <4>2
      <3>2. CASE q # 1
        <4> PICK p : p = q - 1
          OBVIOUS
        <4>1. p \in 1..Len(r) /\ q = p + 1 /\ q > 1 /\ q - 1 = p
          BY <2>7, <3>2
        <4>2. x # 0
          BY <2>7, <2>8, <4>1
        <4>3. s[q] = r[p]
          BY <2>7, <4>1
        <4>4. up[s[q]] = up[k]
          BY <2>2, <2>6, <4>1, <4>2, <4>3
        <4>5. items[s[q]].prev = s[q - 1]
          <5>1. CASE p = 1
            BY <2>2, <2>6, <2>7, <4>1, <4>2, <4>3, <5>1
          <5>2. CASE p # 1
            <6> PICK o : o = p - 1
              OBVIOUS
            <6>1. o \in 1..Len(r) /\ p = o + 1 /\ p > 1
              BY <2>7, <4>1, <5>2
            <6>2. s[p] = r[o]
              BY <2>7, <6>1
            <6>3. items[r[p]].prev = r[o]
              BY <2>6, <4>1, <6>1
            <6> QED
              BY <4>1, <4>3, <6>2, <6>3
          <5> QED
            BY <5>1, <5>2
        <4>6. items[s[q]].next = IF q = Len(s) THEN 0 ELSE s[q + 1]
          <5>1. CASE p = Len(r)
            BY <2>6, <2>7, <4>1, <4>3, <5>1
          <5>2. CASE p # Len(r)
            <6>1. p + 1 \in 1..Len(r) /\ q # Len(s)
              BY <2>7, <4>1, <5>2
            <6>2. s[q + 1] = r[p + 1]
              BY <2>7, <4>1, <6>1
            <6> QED
              BY <2>6, <4>1, <4>3, <5>2, <6>1, <6>2
          <5> QED
            BY <5>1, <5>2
        <4> QED
          BY <4>4, <4>5, <4>6
      <3> QED
        BY <3>1, <3>2
    <2>10. k # 0
      BY <1>0
    <2> QED
      BY <2>7, <2>9, <2>10 DEF Chain, s
  <1>3. \A k \in 1..n : k \in T
    <2> HIDE DEF T
    <2>1. \A k \in 1..n : (\A j \in k + 1..n : j \in T) => k \in T
      BY <1>2
    <2> QED
      BY <1>0, <2>1, DownInduction
  <1> QED
    BY <1>0, <1>3

\* The children of a live item of a whole tree.
Kids(i) == Siblings(items[i].child)

LEMMA KidsAre ==
  ASSUME PlaceOK, HeapOK, NEW up, Lists(up), stack = <<>>, NEW i \in Live
  PROVE  /\ Kids(i) \in Seq(Live)
         /\ items[i].child = 0 => Kids(i) = <<>>
         /\ items[i].child # 0 => Kids(i) # <<>> /\ Kids(i)[1] = items[i].child
         /\ \A q \in 1..Len(Kids(i)) :
              /\ up[Kids(i)[q]] = i
              /\ items[Kids(i)[q]].prev = IF q = 1 THEN Last(Kids(i)) ELSE Kids(i)[q - 1]
              /\ items[Kids(i)[q]].next # 0 =>
                   q + 1 \in 1..Len(Kids(i)) /\ Kids(i)[q + 1] = items[Kids(i)[q]].next
  <1> DEFINE c == items[i].child
             s == Kids(i)
  <1>1. CASE c = 0
    <2>1. s = <<>>
      BY <1>1, SiblingsAre DEF Kids
    <2> QED
      BY <1>1, <2>1
  <1>2. CASE c # 0
    <2>1. c \in Live /\ up[c] = i
      BY <1>2 DEF HeapOK, Reaching, Lists
    <2>2. Chain(up, c)
      BY <2>1, ChainIs
    <2>3. s = Siblings(c)
      BY DEF Kids
    <2> HIDE DEF s, c
    <2>4. /\ s \in Seq(Live) /\ s # <<>> /\ s[1] = c
          /\ \A q \in 1..Len(s) :
               /\ up[s[q]] = i
               /\ q > 1 => items[s[q]].prev = s[q - 1]
               /\ items[s[q]].next = IF q = Len(s) THEN 0 ELSE s[q + 1]
      BY <1>2, <2>1, <2>2, <2>3 DEF Chain
    <2> PICK z : z = Last(s)
      OBVIOUS
    <2>5. z \in Live /\ z = s[Len(s)] /\ Len(s) \in 1..Len(s) /\ Len(s) \in Nat
      BY <2>4 DEF Last
    <2>6. up[z] = i /\ items[z].next = 0
      BY <2>4, <2>5
    <2>7. z # root
      <3>1. i # 0 /\ root # 0
        BY LiveIs DEF HeapOK, Rooted
      <3> QED
        BY <2>6, <3>1 DEF Lists
    <2>8. items[items[i].child].prev = z
      <3>1. InLists(up, z)
        BY <2>5, ListsAre
      <3>2. 1..Len(stack) = {}
        OBVIOUS
      <3> QED
        BY <2>6, <2>7, <3>1, <3>2 DEF InLists
    <2>9. ASSUME NEW q \in 1..Len(s)
          PROVE  /\ up[s[q]] = i
                 /\ items[s[q]].prev = IF q = 1 THEN z ELSE s[q - 1]
                 /\ items[s[q]].next # 0 =>
                      q + 1 \in 1..Len(s) /\ s[q + 1] = items[s[q]].next
      <3>1. q # 1 => q > 1
        OBVIOUS
      <3>2. q # Len(s) => q + 1 \in 1..Len(s)
        BY <2>5
      <3> QED
        BY <2>4, <2>8, <3>1, <3>2 DEF c
    <2> QED
      BY <1>2, <2>4, <2>9 DEF s, c
  <1> QED
    BY <1>1, <1>2

LEMMA KidUp ==
  ASSUME PlaceOK, HeapOK, NEW up, Lists(up), stack = <<>>, NEW i \in Live,
         NEW q \in 1..Len(Kids(i))
  PROVE  up[Kids(i)[q]] = i
  BY KidsAre

\* Every live item but the root is one of the children of one item.
LEMMA ChildOfOne ==
  ASSUME PlaceOK, HeapOK, NEW up, Lists(up), stack = <<>>, NEW j \in Live, j # root
  PROVE  /\ \E i \in Live : \E q \in 1..Len(Kids(i)) : Kids(i)[q] = j
         /\ \A i \in Live : (\E q \in 1..Len(Kids(i)) : Kids(i)[q] = j) => i = up[j]
  <1> DEFINE n == Len(items)
             Is(k) == \E i \in Live : \E q \in 1..Len(Kids(i)) : Kids(i)[q] = k
             T == {k \in 0..n : k \in Live /\ k # root => Is(k)}
  <1>0. n \in Nat /\ j \in 0..n /\ root # 0 /\ items[root].next = 0 /\ root \in Live
    <2>1. root # 0
      BY DEF HeapOK, Rooted
    <2>2. n \in Nat /\ j \in 1..n
      BY LiveIs
    <2> QED
      BY <2>1, <2>2 DEF HeapOK, Rooted
  <1>1. ASSUME NEW k \in 0..n, \A p \in 0..k - 1 : p \in T PROVE k \in T
    <2> SUFFICES ASSUME k \in Live, k # root PROVE Is(k)
      OBVIOUS
    <2>1. k # 0 /\ Owned(k)
      BY LiveIs DEF HeapOK
    <2>2. PICK p \in Live : items[p].next = k \/ items[p].child = k
      BY <2>1 DEF Owned
    <2>3. p \in Nat /\ p < k
      BY <2>1, <2>2, LiveItem
    <2>4. p \in 0..k - 1
      BY <1>0, <2>3
    <2>5. CASE items[p].child = k
      <3>1. Kids(p) # <<>> /\ Kids(p)[1] = k /\ Kids(p) \in Seq(Live)
        BY <2>1, <2>5, KidsAre
      <3>2. 1 \in 1..Len(Kids(p))
        BY <3>1
      <3> QED
        BY <3>1, <3>2
    <2>6. CASE items[p].next = k
      <3>1. p # root
        BY <1>0, <2>1, <2>6
      <3>2. Is(p)
        BY <1>1, <2>4, <3>1
      <3>3. PICK i \in Live : \E q \in 1..Len(Kids(i)) : Kids(i)[q] = p
        BY <3>2
      <3>4. PICK q \in 1..Len(Kids(i)) : Kids(i)[q] = p
        BY <3>3
      <3>5. q + 1 \in 1..Len(Kids(i)) /\ Kids(i)[q + 1] = k
        BY <2>1, <2>6, <3>4, KidsAre, SMTT(30)
      <3> QED
        BY <3>5
    <2> QED
      BY <2>2, <2>5, <2>6
  <1>2. \A k \in 0..n : k \in T
    <2> HIDE DEF T
    <2>1. \A k \in 0..n : (\A p \in 0..k - 1 : p \in T) => k \in T
      BY <1>1
    <2> QED
      BY <1>0, <2>1, StrongInduction
  <1>3. Is(j)
    BY <1>0, <1>2
  <1>4. ASSUME NEW i \in Live, NEW q \in 1..Len(Kids(i)), Kids(i)[q] = j
        PROVE  i = up[j]
    <2>1. up[Kids(i)[q]] = i
      BY KidUp
    <2> QED
      BY <1>4, <2>1
  <1> QED
    BY <1>3, <1>4

LEMMA ShapeIs ==
  ASSUME PlaceOK, HeapOK, ListOK
  PROVE  ListShape
  <1> SUFFICES ASSUME pc \in {"tree", "printed"}
               PROVE  LET live == {i \in DOMAIN items : items[i].live}
                          kids(i) == Siblings(items[i].child)
                      IN /\ \A i \in live :
                              \A k \in DOMAIN kids(i) :
                                items[kids(i)[k]].prev = IF k = 1 THEN Last(kids(i)) ELSE kids(i)[k - 1]
                         /\ \A j \in live \ {root} :
                              Cardinality({i \in live : j \in {kids(i)[k] : k \in DOMAIN kids(i)}}) = 1
    BY DEF ListShape
  <1>1. stack = <<>>
    BY DEF PlaceOK, PhaseOK, Complete
  <1>2. PICK up : Lists(up)
    BY DEF ListOK, Unwinding
  <1>3. {i \in DOMAIN items : items[i].live} = Live
    <2>1. DOMAIN items = 1..Len(items)
      BY DEF PlaceOK, TypeOK
    <2> QED
      BY <2>1 DEF Live
  <1>4. ASSUME NEW i \in Live
        PROVE  \A k \in DOMAIN Kids(i) :
                 items[Kids(i)[k]].prev = IF k = 1 THEN Last(Kids(i)) ELSE Kids(i)[k - 1]
    <2>0. Kids(i) \in Seq(Live)
      BY <1>1, <1>2, KidsAre
    <2>1. DOMAIN Kids(i) = 1..Len(Kids(i))
      BY <2>0
    <2>2. ASSUME NEW k \in 1..Len(Kids(i))
          PROVE  items[Kids(i)[k]].prev = IF k = 1 THEN Last(Kids(i)) ELSE Kids(i)[k - 1]
      BY <1>1, <1>2, KidsAre
    <2> QED
      BY <2>1, <2>2
  <1>5. ASSUME NEW j \in Live \ {root}
        PROVE  Cardinality({i \in Live : j \in {Kids(i)[k] : k \in DOMAIN Kids(i)}}) = 1
    <2> DEFINE parents == {i \in Live : j \in {Kids(i)[k] : k \in DOMAIN Kids(i)}}
    <2>1. \A i \in Live : DOMAIN Kids(i) = 1..Len(Kids(i))
      <3> SUFFICES ASSUME NEW i \in Live PROVE DOMAIN Kids(i) = 1..Len(Kids(i))
        OBVIOUS
      <3>1. Kids(i) \in Seq(Live)
        BY <1>1, <1>2, KidsAre
      <3> QED
        BY <3>1
    <2>2. parents = {up[j]}
      <3>1. /\ \E i \in Live : \E q \in 1..Len(Kids(i)) : Kids(i)[q] = j
            /\ \A i \in Live : (\E q \in 1..Len(Kids(i)) : Kids(i)[q] = j) => i = up[j]
        BY <1>1, <1>2, ChildOfOne
      <3>2. \A i \in Live : i \in parents <=> \E q \in 1..Len(Kids(i)) : Kids(i)[q] = j
        BY <2>1
      <3> QED
        BY <3>1, <3>2
    <2> QED
      BY <2>2, FS_Singleton
  <1> QED
    BY <1>3, <1>4, <1>5 DEF Kids
-----------------------------------------------------------------------------
(***************************************************************************)
(* What the runs check holds for every text, every tree, every size of the *)
(* print buffer and whichever allocations are refused.                     *)
(***************************************************************************)
\* The parser, the printer and cJSON_Delete keep the inductive invariant.
THEOREM Inductive == Spec => []IndInv
  <1>1. Init => IndInv
    BY PlaceInit, KindInit, PrintInit, HeapInit, ListInit DEF IndInv
  <1>2. IndInv /\ [Next]_vars => IndInv'
    <2> SUFFICES ASSUME IndInv, [Next]_vars
                 PROVE  IndInv'
      OBVIOUS
    <2>1. PlaceOK /\ KindOK /\ PrintOK /\ HeapOK /\ ListOK
      BY DEF IndInv
    <2>2. Effect
      BY <2>1, EffectIs
    <2>3. PlaceOK'
      BY <2>1, <2>2, PlaceStep
    <2>4. KindOK'
      BY <2>1, <2>2, KindStep
    <2>5. PrintOK'
      BY <2>1, PrintKeeps
    <2>6. HeapOK'
      BY <2>1, <2>2, HeapStep
    <2>7. ListOK'
      BY <2>1, <2>2, ListStep
    <2> QED
      BY <2>3, <2>4, <2>5, <2>6, <2>7 DEF IndInv
  <1> QED
    BY <1>1, <1>2, PTL DEF Spec

\* The parser reads no byte that was not passed to it, not even where
\* parse_string and buffer_at_offset check nothing.
THEOREM StaysInBounds == Spec => []InBounds
  <1>1. IndInv => InBounds
    BY DEF IndInv, PlaceOK, TypeOK, TextOK, InBounds, Parsing
  <1> QED
    BY <1>1, Inductive, PTL

\* Every write of print_value, print_array, print_object, print_string_ptr and
\* print_number fits into what ensure has provided, for every tree, depth and
\* size of the buffer.
THEOREM StaysInBuffer == Spec => []WithinBuffer
  <1>1. IndInv => WithinBuffer
    BY DEF IndInv, PrintOK, WithinBuffer
  <1> QED
    BY <1>1, Inductive, PTL

\* The room parse_string allocates is enough for every string, whether it is
\* decoded to its end or given up.
THEOREM StringFits == Spec => []OutputFits
  <1>1. IndInv => OutputFits
    <2> SUFFICES ASSUME IndInv PROVE OutputFits
      OBVIOUS
    <2>1. text \in Seq(Char)
      BY DEF IndInv, PlaceOK, TypeOK
    <2>2. ASSUME NEW i \in 0..Len(text) - 1
          PROVE  ParsedString(text, i).room > 0 =>
                   Len(ParsedString(text, i).out) + (IF ParsedString(text, i).ok THEN 1 ELSE 0)
                     <= ParsedString(text, i).room
      <3>1. i \in Nat
        BY <2>1
      <3> QED
        BY <2>1, <3>1, ParsedStringIs
    <2> QED
      BY <2>2 DEF OutputFits
  <1> QED
    BY <1>1, Inductive, PTL

\* utf16_literal_to_utf8 writes the shortest UTF-8 of every code point and lets
\* no lone surrogate through.
THEOREM LiteralsDecode == Spec => []Utf16Decoded
  <1>1. IndInv => Utf16Decoded
    <2> SUFFICES ASSUME IndInv,
                        NEW i \in {i \in 0..Len(text) - 2 : Bytes(text, i, 2) = <<Backslash, 117>>}
                 PROVE  LET literal == Utf16Literal(text, i, Len(text) - 1)
                        IN /\ literal.length \in {0, 6, 12}
                           /\ literal.length = 6 =>
                                ~Surrogate(CodeUnit(i)) /\ Decoded(literal.out) = CodeUnit(i)
                           /\ literal.length = 12 => Decoded(literal.out) = CodePoint(i)
      BY DEF Utf16Decoded
    <2>1. text \in Seq(Char) /\ Len(text) - 1 \in Int /\ i \in Nat
      BY DEF IndInv, PlaceOK, TypeOK
    <2> QED
      BY <2>1, LiteralDecoded
  <1> QED
    BY <1>1, Inductive, PTL


\* A parse that fails, whatever it failed at, and a tree that is deleted leave
\* nothing on the heap, and cJSON_Delete frees nothing twice.
THEOREM NothingLeaks == Spec => []NoLeak
  <1>1. IndInv => NoLeak
    <2> SUFFICES ASSUME IndInv PROVE NoLeak
      OBVIOUS
    <2>1. ~misused
      BY DEF IndInv, HeapOK
    <2>2. ASSUME pc \in {"parse", "failed", "deleted"}
          PROVE  strings = 0 /\ \A i \in DOMAIN items : ~items[i].live
      <3>1. root = 0
        BY <2>2 DEF IndInv, PlaceOK, PhaseOK, Starting
      <3>2. Live = {}
        BY <3>1 DEF IndInv, HeapOK, Rooted
      <3>3. Blocks({}) = 0
        BY BlocksAre DEF IndInv
      <3>4. DOMAIN items = 1..Len(items)
        BY DEF IndInv, PlaceOK, TypeOK
      <3> QED
        BY <3>2, <3>3, <3>4 DEF IndInv, HeapOK, Live
    <2>3. pc = "unprinted" => size = 0
      BY DEF IndInv, PrintOK
    <2> QED
      BY <2>1, <2>2, <2>3 DEF NoLeak
  <1> QED
    BY <1>1, Inductive, PTL

\* In every tree that is parsed or built, the lists are linked in both directions,
\* every head knows its last item, and every item hangs in one list.
THEOREM ListsAreWhole == Spec => []ListShape
  <1>1. IndInv => ListShape
    BY ShapeIs DEF IndInv
  <1> QED
    BY <1>1, Inductive, PTL
=============================================================================
