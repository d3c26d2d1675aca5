--------------------------- MODULE JsonTextProofs ---------------------------
(***************************************************************************)
(* Proofs about the texts of cJSON, for every text: the bytes parse_string *)
(* writes and the room it has for them, the UTF-8 of the \u literals, and  *)
(* the bytes print_string_ptr and print_number write.                      *)
(***************************************************************************)
EXTENDS JsonText, TLAPS, FiniteSetTheorems, WellFoundedInduction

-----------------------------------------------------------------------------
(***************************************************************************)
(* Induction on numbers up to n, and the functions it defines.             *)
(***************************************************************************)
Below == {p \in Nat \X Nat : p[1] < p[2]}

LEMMA BelowWellFounded == IsWellFoundedOn(Below, Nat)
  <1>1. IsWellFoundedOn(OpToRel(<, Nat), Nat)
    BY NatLessThanWellFounded
  <1>2. OpToRel(<, Nat) = Below
    BY DEF OpToRel, Below
  <1> QED
    BY <1>1, <1>2

\* A set of numbers up to n that has a number whenever it has all before it.
LEMMA StrongInduction ==
  ASSUME NEW n \in Nat, NEW T,
         \A k \in 0..n : (\A j \in 0..k - 1 : j \in T) => k \in T
  PROVE  \A k \in 0..n : k \in T
  <1> DEFINE Bad == {k \in 0..n : k \notin T}
  <1>1. SUFFICES ASSUME Bad # {} PROVE FALSE
    OBVIOUS
  <1>2. Bad \in SUBSET Nat
    OBVIOUS
  <1> HIDE DEF Bad
  <1>3. PICK k \in Bad : \A j \in Bad : <<j, k>> \notin Below
    BY <1>1, <1>2, BelowWellFounded, WFMin
  <1>4. k \in 0..n /\ k \notin T
    BY <1>3 DEF Bad
  <1>5. \A j \in 0..k - 1 : j \in T
    <2> SUFFICES ASSUME NEW j \in 0..k - 1, j \notin T PROVE FALSE
      OBVIOUS
    <2>1. j \in Bad /\ j \in Nat /\ j < k
      BY <1>4 DEF Bad
    <2>2. k \in Nat /\ <<j, k>> \in Below
      BY <1>4, <2>1 DEF Below
    <2> QED
      BY <1>3, <2>1, <2>2
  <1>6. (\A j \in 0..k - 1 : j \in T) => k \in T
    BY <1>4
  <1> QED
    BY <1>4, <1>5, <1>6

LEMMA Induction ==
  ASSUME NEW n \in Nat, NEW T, 0 \in T, \A k \in 1..n : k - 1 \in T => k \in T
  PROVE  \A k \in 0..n : k \in T
  <1>1. ASSUME NEW k \in 0..n, \A j \in 0..k - 1 : j \in T
        PROVE  k \in T
    <2>1. CASE k = 0
      BY <2>1
    <2>2. CASE k # 0
      <3>1. k \in 1..n /\ k - 1 \in 0..k - 1
        BY <2>2
      <3> QED
        BY <1>1, <3>1
    <2> QED
      BY <2>1, <2>2
  <1> QED
    BY <1>1, StrongInduction

\* From n downwards.
LEMMA DownInduction ==
  ASSUME NEW n \in Nat, NEW T,
         \A k \in 1..n : (\A j \in k + 1..n : j \in T) => k \in T
  PROVE  \A k \in 1..n : k \in T
  <1> DEFINE U == {k \in 0..n : k = n \/ n - k \in T}
  <1>1. ASSUME NEW k \in 0..n, \A j \in 0..k - 1 : j \in U
        PROVE  k \in U
    <2>1. CASE k = n
      BY <2>1
    <2>2. CASE k # n
      <3>1. n - k \in 1..n
        BY <2>2
      <3>2. ASSUME NEW j \in (n - k) + 1..n PROVE j \in T
        <4>1. n - j \in 0..k - 1 /\ n - (n - j) = j /\ n - j # n
          BY <3>1, <3>2
        <4> QED
          BY <1>1, <4>1
      <3> QED
        BY <3>1, <3>2
    <2> QED
      BY <2>1, <2>2
  <1>2. \A k \in 0..n : k \in U
    BY <1>1, StrongInduction
  <1>3. ASSUME NEW k \in 1..n PROVE k \in T
    <2>1. n - k \in 0..n /\ n - (n - k) = k /\ n - k # n
      OBVIOUS
    <2> QED
      BY <1>2, <2>1
  <1> QED
    BY <1>3

\* A function whose first value is given and every later one by the one before.
Iterates(f, a, n, step) == f[0] = a /\ \A k \in 1..n : f[k] = step[k][f[k - 1]]

LEMMA Iterate ==
  ASSUME NEW S, NEW a \in S, NEW n \in Nat, NEW step \in [1..n -> [S -> S]]
  PROVE  \E f \in [0..n -> S] : Iterates(f, a, n, step)
  <1> DEFINE Done == {m \in 0..n : \E f \in [0..m -> S] : Iterates(f, a, m, step)}
  <1>1. 0 \in Done
    <2> DEFINE f == [i \in 0..0 |-> a]
    <2>1. f \in [0..0 -> S] /\ f[0] = a /\ 1..0 = {}
      OBVIOUS
    <2>2. Iterates(f, a, 0, step)
      BY <2>1 DEF Iterates
    <2> HIDE DEF f
    <2>3. \E h \in [0..0 -> S] : Iterates(h, a, 0, step)
      BY <2>1, <2>2
    <2> QED
      BY <2>3
  <1>2. ASSUME NEW m \in 1..n, m - 1 \in Done
        PROVE  m \in Done
    <2>1. PICK f \in [0..m - 1 -> S] : Iterates(f, a, m - 1, step)
      BY <1>2
    <2>2. m - 1 \in 0..m - 1 /\ f[m - 1] \in S /\ step[m] \in [S -> S]
      BY <2>1
    <2> DEFINE last == step[m][f[m - 1]]
               g == [i \in 0..m |-> IF i = m THEN last ELSE f[i]]
    <2>3. last \in S
      BY <2>2
    <2> HIDE DEF last
    <2>4. g \in [0..m -> S]
      BY <2>1, <2>3
    <2>5. \A i \in 0..m - 1 : g[i] = f[i]
      OBVIOUS
    <2>6. g[m] = last
      OBVIOUS
    <2> HIDE DEF g
    <2>7. g[0] = a
      BY <2>1, <2>5 DEF Iterates
    <2>8. ASSUME NEW k \in 1..m PROVE g[k] = step[k][g[k - 1]]
      <3>1. CASE k = m
        BY <2>5, <2>6, <3>1, <2>2 DEF last
      <3>2. CASE k # m
        <4>1. k \in 1..m - 1 /\ k - 1 \in 0..m - 1 /\ k \in 0..m - 1
          BY <3>2
        <4>2. f[k] = step[k][f[k - 1]]
          BY <2>1, <4>1 DEF Iterates
        <4> QED
          BY <2>5, <4>1, <4>2
      <3> QED
        BY <3>1, <3>2
    <2>9. Iterates(g, a, m, step)
      BY <2>7, <2>8 DEF Iterates
    <2> QED
      BY <2>4, <2>9
  <1> HIDE DEF Done
  <1>3. \A m \in 0..n : m \in Done
    BY <1>1, <1>2, Induction
  <1>4. n \in 0..n
    OBVIOUS
  <1> QED
    BY <1>3, <1>4 DEF Done

-----------------------------------------------------------------------------
(***************************************************************************)
(* The \u literals.                                                        *)
(***************************************************************************)
LEMMA AtRange ==
  ASSUME NEW t \in Seq(Char), NEW i \in Nat
  PROVE  /\ At(t, i) \in Nat /\ At(t, i) <= 256
         /\ i < Len(t) => At(t, i) = t[i + 1] /\ At(t, i) \in Char
         /\ i >= Len(t) => At(t, i) = 256
  <1>1. CASE i < Len(t)
    <2>1. At(t, i) = t[i + 1] /\ i + 1 \in 1..Len(t)
      BY <1>1 DEF At
    <2>2. t[i + 1] \in Char
      BY <2>1
    <2> QED
      BY <1>1, <2>1, <2>2 DEF Char
  <1>2. CASE i >= Len(t)
    BY <1>2 DEF At, Beyond
  <1> QED
    BY <1>1, <1>2

LEMMA HexDigitRange ==
  ASSUME NEW b \in Nat
  PROVE  /\ HexDigit(b) \in Int /\ HexDigit(b) >= -1 /\ HexDigit(b) <= 15
         /\ b \in {Backslash, Quote} => HexDigit(b) = -1
  BY DEF HexDigit, Backslash, Quote

LEMMA Hex4Is ==
  ASSUME NEW t \in Seq(Char), NEW i \in Nat
  PROVE  \E d \in [0..3 -> Int] :
           /\ \A k \in 0..3 : /\ d[k] >= -1 /\ d[k] <= 15
                              /\ At(t, i + k) \in {Backslash, Quote} => d[k] = -1
           /\ Hex4(t, i) = IF -1 \in {d[0], d[1], d[2], d[3]} THEN 0
                           ELSE ((d[0] * 16 + d[1]) * 16 + d[2]) * 16 + d[3]
  <1> DEFINE d == [k \in 0..3 |-> HexDigit(At(t, i + k))]
  <1>1. ASSUME NEW k \in 0..3
        PROVE  /\ d[k] \in Int /\ d[k] >= -1 /\ d[k] <= 15
               /\ At(t, i + k) \in {Backslash, Quote} => d[k] = -1
    <2>1. i + k \in Nat
      OBVIOUS
    <2>2. At(t, i + k) \in Nat
      BY <2>1, AtRange
    <2> QED
      BY <2>2, HexDigitRange
  <1>2. Hex4(t, i) = IF -1 \in {d[0], d[1], d[2], d[3]} THEN 0
                     ELSE ((d[0] * 16 + d[1]) * 16 + d[2]) * 16 + d[3]
    BY DEF Hex4
  <1>3. d \in [0..3 -> Int]
    BY <1>1
  <1> HIDE DEF d
  <1> QED
    BY <1>1, <1>2, <1>3

\* A number of sixteen bits.
Bits16(u) == u \in Nat /\ u < 65536

LEMMA Hex4Range ==
  ASSUME NEW t \in Seq(Char), NEW i \in Nat
  PROVE  Bits16(Hex4(t, i))
  <1>1. PICK d \in [0..3 -> Int] :
           /\ \A k \in 0..3 : /\ d[k] >= -1 /\ d[k] <= 15
                              /\ At(t, i + k) \in {Backslash, Quote} => d[k] = -1
           /\ Hex4(t, i) = IF -1 \in {d[0], d[1], d[2], d[3]} THEN 0
                           ELSE ((d[0] * 16 + d[1]) * 16 + d[2]) * 16 + d[3]
    BY Hex4Is
  <1>2. /\ d[0] \in Int /\ d[0] >= -1 /\ d[0] <= 15
        /\ d[1] \in Int /\ d[1] >= -1 /\ d[1] <= 15
        /\ d[2] \in Int /\ d[2] >= -1 /\ d[2] <= 15
        /\ d[3] \in Int /\ d[3] >= -1 /\ d[3] <= 15
    BY <1>1
  <1>3. CASE -1 \in {d[0], d[1], d[2], d[3]}
    BY <1>1, <1>3, SMT DEF Bits16
  <1>4. CASE -1 \notin {d[0], d[1], d[2], d[3]}
    <2>1. d[0] >= 0 /\ d[1] >= 0 /\ d[2] >= 0 /\ d[3] >= 0
      BY <1>2, <1>4
    <2>2. Hex4(t, i) = ((d[0] * 16 + d[1]) * 16 + d[2]) * 16 + d[3]
      BY <1>1, <1>4
    <2> DEFINE two == d[0] * 16 + d[1]
               three == two * 16 + d[2]
    <2>3. two \in Nat /\ two < 256
      BY <1>2, <2>1, SMTT(30)
    <2> HIDE DEF two
    <2>4. three \in Nat /\ three < 4096
      BY <1>2, <2>1, <2>3, SMTT(30)
    <2>5. Hex4(t, i) = three * 16 + d[3]
      BY <2>2 DEF two
    <2> HIDE DEF three
    <2> QED
      BY <1>2, <2>1, <2>4, <2>5, SMT DEF Bits16
  <1> QED
    BY <1>3, <1>4

LEMMA Hex4Plain ==
  ASSUME NEW t \in Seq(Char), NEW i \in Nat, Hex4(t, i) # 0, NEW k \in 0..3
  PROVE  At(t, i + k) # Backslash
  <1>1. PICK d \in [0..3 -> Int] :
           /\ \A m \in 0..3 : /\ d[m] >= -1 /\ d[m] <= 15
                              /\ At(t, i + m) \in {Backslash, Quote} => d[m] = -1
           /\ Hex4(t, i) = IF -1 \in {d[0], d[1], d[2], d[3]} THEN 0
                           ELSE ((d[0] * 16 + d[1]) * 16 + d[2]) * 16 + d[3]
    BY Hex4Is
  <1>2. -1 \notin {d[0], d[1], d[2], d[3]}
    BY <1>1
  <1>3. d[k] \in {d[0], d[1], d[2], d[3]}
    <2>1. k = 0 \/ k = 1 \/ k = 2 \/ k = 3
      OBVIOUS
    <2> QED
      BY <2>1
  <1> QED
    BY <1>1, <1>2, <1>3

\* The encoder's bytes, written out.
Mark == <<0, 192, 224, 240>>
Power == <<1, 64, 4096, 262144>>
ByteOf(c, n, k) ==
  IF k = 1 THEN (Mark[n] + c \div Power[n]) % 256 ELSE 128 + ((c \div Power[n - k + 1]) % 64)

LEMMA Utf8Is ==
  ASSUME NEW c \in Nat, NEW n \in {1, 2, 3, 4}, Utf8Length(c) = n
  PROVE  Utf8(c) \in Seq(Int) /\ Len(Utf8(c)) = n /\ \A k \in 1..n : Utf8(c)[k] = ByteOf(c, n, k)
  <1>1. n - 1 + 1 = n
    OBVIOUS
  <1>2. Utf8(c) = [k \in 1..n |-> ByteOf(c, n, k)]
    BY <1>1, SMT DEF Utf8, ByteOf, Mark, Power
  <1>3. ASSUME NEW k \in 1..n PROVE ByteOf(c, n, k) \in Int
    <2>1. n - k + 1 \in {1, 2, 3, 4}
      OBVIOUS
    <2>2. Power[n] \in Nat \ {0} /\ Power[n - k + 1] \in Nat \ {0} /\ Mark[n] \in Nat
      BY <2>1, SMT DEF Power, Mark
    <2> QED
      BY <2>2, SMT DEF ByteOf
  <1> QED
    BY <1>2, <1>3, SMT

LEMMA Utf8One ==
  ASSUME NEW c \in Nat, c < 128
  PROVE  Utf8(c) = <<c>> /\ Utf8Length(c) = 1
  <1>1. Utf8Length(c) = 1
    BY SMT DEF Utf8Length
  <1>2. ByteOf(c, 1, 1) = c
    BY SMT DEF ByteOf, Mark, Power
  <1>3. Utf8(c) \in Seq(Int) /\ Len(Utf8(c)) = 1 /\ Utf8(c)[1] = ByteOf(c, 1, 1)
    BY <1>1, Utf8Is, SMT
  <1> QED
    BY <1>1, <1>2, <1>3, SMT

LEMMA Utf8Two ==
  ASSUME NEW c \in Nat, 128 <= c, c < 2048
  PROVE  /\ Utf8(c) = <<192 + (c \div 64), 128 + (c % 64)>> /\ Utf8Length(c) = 2
         /\ c \div 64 \in 2..31 /\ c % 64 \in 0..63
  <1>1. Utf8Length(c) = 2
    BY SMT DEF Utf8Length
  <1>2. c \div 64 \in 2..31 /\ c % 64 \in 0..63
    BY SMT
  <1>3. ByteOf(c, 2, 1) = 192 + (c \div 64)
    BY <1>2, SMT DEF ByteOf, Mark, Power
  <1>4. ByteOf(c, 2, 2) = 128 + (c % 64)
    BY SMT DEF ByteOf, Mark, Power
  <1>5. Utf8(c) \in Seq(Int) /\ Len(Utf8(c)) = 2 /\ \A k \in {1, 2} : Utf8(c)[k] = ByteOf(c, 2, k)
    BY <1>1, Utf8Is, SMT
  <1> QED
    BY <1>1, <1>2, <1>3, <1>4, <1>5, SMT

LEMMA Utf8Three ==
  ASSUME NEW c \in Nat, 2048 <= c, c < 65536
  PROVE  /\ Utf8(c) = <<224 + (c \div 4096), 128 + ((c \div 64) % 64), 128 + (c % 64)>>
         /\ Utf8Length(c) = 3
         /\ c \div 4096 \in 0..15 /\ (c \div 64) % 64 \in 0..63 /\ c % 64 \in 0..63
  <1>1. Utf8Length(c) = 3
    BY SMT DEF Utf8Length
  <1>2. c \div 4096 \in 0..15 /\ (c \div 64) % 64 \in 0..63 /\ c % 64 \in 0..63
    BY SMT
  <1>3. ByteOf(c, 3, 1) = 224 + (c \div 4096)
    BY <1>2, SMT DEF ByteOf, Mark, Power
  <1>4. ByteOf(c, 3, 2) = 128 + ((c \div 64) % 64)
    BY SMT DEF ByteOf, Mark, Power
  <1>5. ByteOf(c, 3, 3) = 128 + (c % 64)
    BY SMT DEF ByteOf, Mark, Power
  <1>6. Utf8(c) \in Seq(Int) /\ Len(Utf8(c)) = 3 /\ \A k \in {1, 2, 3} : Utf8(c)[k] = ByteOf(c, 3, k)
    BY <1>1, Utf8Is, SMT
  <1> QED
    BY <1>1, <1>2, <1>3, <1>4, <1>5, <1>6, SMT

LEMMA Utf8Four ==
  ASSUME NEW c \in Nat, 65536 <= c, c < 1114112
  PROVE  /\ Utf8(c) = <<240 + (c \div 262144), 128 + ((c \div 4096) % 64),
                        128 + ((c \div 64) % 64), 128 + (c % 64)>>
         /\ Utf8Length(c) = 4
         /\ c \div 262144 \in 0..4 /\ (c \div 4096) % 64 \in 0..63
         /\ (c \div 64) % 64 \in 0..63 /\ c % 64 \in 0..63
  <1>1. Utf8Length(c) = 4
    BY SMT DEF Utf8Length
  <1>2. /\ c \div 262144 \in 0..4 /\ (c \div 4096) % 64 \in 0..63
        /\ (c \div 64) % 64 \in 0..63 /\ c % 64 \in 0..63
    BY SMT
  <1>3. ByteOf(c, 4, 1) = 240 + (c \div 262144)
    BY <1>2, SMT DEF ByteOf, Mark, Power
  <1>4. ByteOf(c, 4, 2) = 128 + ((c \div 4096) % 64)
    BY SMT DEF ByteOf, Mark, Power
  <1>5. ByteOf(c, 4, 3) = 128 + ((c \div 64) % 64)
    BY SMT DEF ByteOf, Mark, Power
  <1>6. ByteOf(c, 4, 4) = 128 + (c % 64)
    BY SMT DEF ByteOf, Mark, Power
  <1>7. Utf8(c) \in Seq(Int) /\ Len(Utf8(c)) = 4 /\ \A k \in {1, 2, 3, 4} : Utf8(c)[k] = ByteOf(c, 4, k)
    BY <1>1, Utf8Is, SMT
  <1> QED
    BY <1>1, <1>2, <1>3, <1>4, <1>5, <1>6, <1>7, SMT

LEMMA Utf8Range ==
  ASSUME NEW c \in Nat, c < 1114112
  PROVE  /\ Utf8(c) \in Seq(Char) /\ Len(Utf8(c)) = Utf8Length(c)
         /\ Utf8Length(c) \in 1..4 /\ (c < 65536 => Utf8Length(c) <= 3) /\ (c = 0 => Utf8Length(c) = 1)
  <1>1. CASE c < 128
    <2>1. c \in Char
      BY <1>1, SMT DEF Char
    <2>2. Utf8(c) = <<c>> /\ Utf8Length(c) = 1
      BY <1>1, Utf8One, SMT
    <2> QED
      BY <2>1, <2>2, SMT
  <1>2. CASE 128 <= c /\ c < 2048
    <2> DEFINE b1 == 192 + (c \div 64) b2 == 128 + (c % 64)
    <2>1. Utf8(c) = <<b1, b2>> /\ Utf8Length(c) = 2 /\ b1 \in 194..223 /\ b2 \in 128..191
      BY <1>2, Utf8Two, SMT
    <2> HIDE DEF b1, b2
    <2>2. b1 \in Char /\ b2 \in Char
      BY <2>1, SMT DEF Char
    <2> QED
      BY <1>2, <2>1, <2>2, SMT
  <1>3. CASE 2048 <= c /\ c < 65536
    <2> DEFINE b1 == 224 + (c \div 4096) b2 == 128 + ((c \div 64) % 64) b3 == 128 + (c % 64)
    <2>1. /\ Utf8(c) = <<b1, b2, b3>> /\ Utf8Length(c) = 3
          /\ b1 \in 224..239 /\ b2 \in 128..191 /\ b3 \in 128..191
      BY <1>3, Utf8Three, SMT
    <2> HIDE DEF b1, b2, b3
    <2>2. b1 \in Char /\ b2 \in Char /\ b3 \in Char
      BY <2>1, SMT DEF Char
    <2> QED
      BY <1>3, <2>1, <2>2, SMT
  <1>4. CASE 65536 <= c
    <2> DEFINE b1 == 240 + (c \div 262144) b2 == 128 + ((c \div 4096) % 64)
               b3 == 128 + ((c \div 64) % 64) b4 == 128 + (c % 64)
    <2>1. /\ Utf8(c) = <<b1, b2, b3, b4>> /\ Utf8Length(c) = 4
          /\ b1 \in 240..244 /\ b2 \in 128..191 /\ b3 \in 128..191 /\ b4 \in 128..191
      BY <1>4, Utf8Four, SMTT(30)
    <2> HIDE DEF b1, b2, b3, b4
    <2>2. b1 \in Char /\ b2 \in Char /\ b3 \in Char /\ b4 \in Char
      BY <2>1, SMT DEF Char
    <2> QED
      BY <1>4, <2>1, <2>2, SMT
  <1> QED
    BY <1>1, <1>2, <1>3, <1>4, SMT

LEMMA MinIs ==
  ASSUME NEW T \in SUBSET Nat, T # {}
  PROVE  Min(T) \in T /\ \A y \in T : Min(T) <= y
  <1>1. PICK x \in T : \A y \in T : <<y, x>> \notin Below
    BY BelowWellFounded, WFMin
  <1>2. ASSUME NEW y \in T, ~(x <= y) PROVE FALSE
    <2>1. x \in Nat /\ y \in Nat /\ y < x
      BY <1>2
    <2>2. <<y, x>> \in Below
      BY <2>1 DEF Below
    <2> QED
      BY <1>1, <2>2
  <1>3. \E z \in T : \A y \in T : z <= y
    BY <1>2
  <1> QED
    BY <1>3 DEF Min

LEMMA MinTwo ==
  ASSUME NEW a \in Int, NEW b \in Int
  PROVE  Min({a, b}) = IF a <= b THEN a ELSE b
  <1>1. \E z \in {a, b} : \A y \in {a, b} : z <= y
    OBVIOUS
  <1>2. Min({a, b}) \in {a, b} /\ \A y \in {a, b} : Min({a, b}) <= y
    BY <1>1 DEF Min
  <1> QED
    BY <1>2

LEMMA BytesAre ==
  ASSUME NEW t \in Seq(Char), NEW i \in Nat, NEW s \in Seq(Nat), s # <<>>,
         Bytes(t, i, Len(s)) = s
  PROVE  i + Len(s) <= Len(t) /\ \A k \in 1..Len(s) : At(t, i + k - 1) = s[k]
  <1> DEFINE n == Len(s)
  <1>0. n \in Nat /\ n > 0
    OBVIOUS
  <1> DEFINE last == Min({i + n, Len(t)})
  <1>1. last = IF i + n <= Len(t) THEN i + n ELSE Len(t)
    <2>1. i + n \in Int /\ Len(t) \in Int
      BY <1>0
    <2> QED
      BY <2>1, MinTwo
  <1>2. Bytes(t, i, n) = SubSeq(t, i + 1, last)
    BY DEF Bytes
  <1>3. last \in Nat /\ last <= Len(t) /\ last <= i + n
    BY <1>0, <1>1
  <1> HIDE DEF last
  <1>4. Len(SubSeq(t, i + 1, last)) = IF i + 1 <= last THEN last - i ELSE 0
    BY <1>3
  <1>5. last = i + n
    BY <1>0, <1>2, <1>3, <1>4
  <1>6. ASSUME NEW k \in 1..n PROVE At(t, i + k - 1) = s[k]
    <2>1. SubSeq(t, i + 1, last)[k] = t[i + 1 + k - 1]
      BY <1>3, <1>5
    <2>2. At(t, i + k - 1) = t[i + k]
      BY <1>3, <1>5 DEF At
    <2> QED
      BY <1>2, <2>1, <2>2
  <1> QED
    BY <1>3, <1>5, <1>6

LEMMA BytesTwo ==
  ASSUME NEW t \in Seq(Char), NEW i \in Nat, NEW a \in Nat, NEW b \in Nat,
         Bytes(t, i, 2) = <<a, b>>
  PROVE  i + 2 <= Len(t) /\ At(t, i) = a /\ At(t, i + 1) = b
  <1> DEFINE s == <<a, b>>
  <1>1. s \in Seq(Nat) /\ s # <<>> /\ Len(s) = 2 /\ s[1] = a /\ s[2] = b
    OBVIOUS
  <1>2. Bytes(t, i, Len(s)) = s
    BY <1>1
  <1> HIDE DEF s
  <1>3. i + Len(s) <= Len(t) /\ \A k \in 1..Len(s) : At(t, i + k - 1) = s[k]
    BY <1>1, <1>2, BytesAre
  <1>4. At(t, i + 1 - 1) = a /\ At(t, i + 2 - 1) = b
    BY <1>1, <1>3
  <1>5. i + 1 - 1 = i /\ i + 2 - 1 = i + 1
    OBVIOUS
  <1> QED
    BY <1>1, <1>3, <1>4, <1>5

\* What a literal takes and writes: if the four bytes behind it are no number it
\* writes a single byte, and otherwise there is no backslash among them.
Plain(t, i) == \A k \in 2..5 : At(t, i + k) # Backslash

LEMMA LiteralRange ==
  ASSUME NEW t \in Seq(Char), NEW i \in Nat, NEW e \in Int,
         NEW literal, literal = Utf16Literal(t, i, e)
  PROVE  /\ literal.out \in Seq(Char) /\ literal.length \in {0, 6, 12}
         /\ literal.length = 6 =>
              /\ i + 6 <= e /\ Len(literal.out) <= 3
              /\ Len(literal.out) = 1 \/ Plain(t, i)
         /\ literal.length = 12 =>
              /\ i + 12 <= e /\ Len(literal.out) <= 4
              /\ Plain(t, i) /\ Plain(t, i + 6) /\ At(t, i + 7) # Backslash
  <1> DEFINE first == Hex4(t, i + 2) second == Hex4(t, i + 8)
             c == 65536 + (first % 1024) * 1024 + (second % 1024)
             None == [length |-> 0, out |-> <<>>]
  <1>1. /\ first \in Nat /\ first < 65536 /\ second \in Nat /\ second < 65536
        /\ first # 0 => Plain(t, i)
        /\ second # 0 => Plain(t, i + 6)
    <2>1. i + 2 \in Nat /\ i + 8 \in Nat
      OBVIOUS
    <2>2. /\ first \in Nat /\ first < 65536 /\ second \in Nat /\ second < 65536
          /\ first # 0 => \A k \in 0..3 : At(t, i + 2 + k) # Backslash
          /\ second # 0 => \A k \in 0..3 : At(t, i + 8 + k) # Backslash
      <3>1. first \in Nat /\ first < 65536 /\ second \in Nat /\ second < 65536
        <4>1. Bits16(first) /\ Bits16(second)
          BY <2>1, Hex4Range
        <4> HIDE DEF first, second
        <4> QED
          BY <4>1, SMT DEF Bits16
      <3>2. ASSUME NEW j \in Nat
            PROVE  Hex4(t, j) # 0 => \A k \in 0..3 : At(t, j + k) # Backslash
        BY Hex4Plain
      <3> QED
        BY <2>1, <3>1, <3>2, SMT
    <2>3. ASSUME NEW k \in 2..5
          PROVE  k - 2 \in 0..3 /\ i + 2 + (k - 2) = i + k /\ i + 8 + (k - 2) = i + 6 + k
      OBVIOUS
    <2> QED
      BY <2>2, <2>3, SMT DEF Plain
  <1>2. literal =
          IF e - i < 6 \/ LowSurrogate(first) THEN None
          ELSE IF ~HighSurrogate(first) THEN [length |-> 6, out |-> Utf8(first)]
          ELSE IF \/ e - (i + 6) < 6
                  \/ Bytes(t, i + 6, 2) # <<Backslash, 117>>
                  \/ ~LowSurrogate(second)
               THEN None
          ELSE [length |-> 12, out |-> Utf8(c)]
    BY DEF Utf16Literal
  <1> HIDE DEF first, second
  <1>3. CASE literal = None
    BY <1>3
  <1>4. CASE literal # None /\ ~HighSurrogate(first)
    <2>1. literal = [length |-> 6, out |-> Utf8(first)] /\ ~(e - i < 6)
      BY <1>2, <1>4
    <2>2. /\ Utf8(first) \in Seq(Char) /\ Len(Utf8(first)) <= 3
          /\ first = 0 => Len(Utf8(first)) = 1
      <3>1. first < 1114112
        BY <1>1, SMT
      <3>2. /\ Utf8(first) \in Seq(Char) /\ Len(Utf8(first)) = Utf8Length(first)
            /\ Utf8Length(first) \in 1..4 /\ (first < 65536 => Utf8Length(first) <= 3)
            /\ first = 0 => Utf8Length(first) = 1
        BY <1>1, <3>1, Utf8Range, SMTT(30)
      <3> QED
        BY <1>1, <3>2, SMT
    <2> QED
      BY <1>1, <2>1, <2>2, SMT
  <1>5. CASE literal # None /\ HighSurrogate(first)
    <2>1. /\ literal = [length |-> 12, out |-> Utf8(c)] /\ ~(e - (i + 6) < 6)
          /\ Bytes(t, i + 6, 2) = <<Backslash, 117>> /\ LowSurrogate(second)
      BY <1>2, <1>5
    <2>2. c \in Nat /\ c < 1114112
      BY <1>1, SMT
    <2> HIDE DEF c
    <2>3. Utf8(c) \in Seq(Char) /\ Len(Utf8(c)) <= 4
      <3>1. Utf8(c) \in Seq(Char) /\ Len(Utf8(c)) = Utf8Length(c) /\ Utf8Length(c) \in 1..4
        BY <2>2, Utf8Range, SMTT(30)
      <3> QED
        BY <3>1
    <2>4. first # 0 /\ second # 0
      BY <1>1, <1>5, <2>1, SMT DEF HighSurrogate, LowSurrogate
    <2>5. At(t, i + 7) = 117
      <3>1. i + 6 \in Nat /\ Backslash \in Nat /\ 117 \in Nat /\ i + 6 + 1 = i + 7
        BY DEF Backslash
      <3>2. At(t, i + 6 + 1) = 117
        BY <2>1, <3>1, BytesTwo
      <3> QED
        BY <3>1, <3>2
    <2> QED
      BY <1>1, <2>1, <2>3, <2>4, <2>5, SMT DEF Backslash
  <1> QED
    BY <1>3, <1>4, <1>5

-----------------------------------------------------------------------------
(***************************************************************************)
(* The two loops of parse_string: the first finds the closing quote and    *)
(* counts backslashes, the second, which does not always agree with it on  *)
(* where an escape begins, writes the bytes.                               *)
(***************************************************************************)
LEMMA EscapedIs ==
  ASSUME NEW t \in Seq(Char), NEW i \in 0..Len(t)
  PROVE  /\ Escaped(t, i) \in [i..Len(t) -> BOOLEAN]
         /\ ~Escaped(t, i)[i]
         /\ \A p \in i + 1..Len(t) :
              Escaped(t, i)[p] <=> At(t, p - 1) = Backslash /\ ~Escaped(t, i)[p - 1]
  <1> DEFINE n == Len(t) - i
             step == [k \in 1..n |-> [b \in BOOLEAN |-> At(t, i + k - 1) = Backslash /\ ~b]]
             body(g) == [p \in i..Len(t) |->
                           IF p = i THEN FALSE ELSE At(t, p - 1) = Backslash /\ ~g[p - 1]]
             esc == CHOOSE g : g = body(g)
  <1>1. n \in Nat /\ step \in [1..n -> [BOOLEAN -> BOOLEAN]]
    OBVIOUS
  <1>2. PICK f \in [0..n -> BOOLEAN] : ~f[0] /\ \A k \in 1..n : f[k] = step[k][f[k - 1]]
    <2>1. PICK no \in BOOLEAN : no = FALSE
      OBVIOUS
    <2> HIDE DEF n, step
    <2>2. \E f \in [0..n -> BOOLEAN] : Iterates(f, no, n, step)
      BY <1>1, Iterate
    <2> QED
      BY <2>1, <2>2 DEF Iterates
  <1> DEFINE g == [p \in i..Len(t) |-> f[p - i]]
  <1>3. g = body(g)
    <2>1. ASSUME NEW p \in i..Len(t)
          PROVE  g[p] = IF p = i THEN FALSE ELSE At(t, p - 1) = Backslash /\ ~g[p - 1]
      <3>1. CASE p = i
        <4>1. g[p] = f[0] /\ 0 \in 0..n /\ p - i = 0
          BY <3>1
        <4>2. f[0] \in BOOLEAN /\ ~f[0]
          BY <1>2, <4>1
        <4> QED
          BY <3>1, <4>1, <4>2
      <3>2. CASE p # i
        <4>1. p - i \in 1..n /\ p - 1 \in i..Len(t) /\ p - 1 - i = p - i - 1 /\ i + (p - i) - 1 = p - 1
          BY <3>2
        <4>2. f[p - i - 1] \in BOOLEAN
          BY <1>2, <4>1
        <4>3. f[p - i] = step[p - i][f[p - i - 1]]
          BY <1>2, <4>1
        <4>4. step[p - i][f[p - i - 1]] = (At(t, i + (p - i) - 1) = Backslash /\ ~f[p - i - 1])
          BY <4>1, <4>2
        <4> QED
          BY <3>2, <4>1, <4>3, <4>4
      <3> QED
        BY <3>1, <3>2
    <2> QED
      BY <2>1
  <1>4. esc = body(esc)
    <2> HIDE DEF g
    <2>1. \E h : h = body(h)
      BY <1>3
    <2> QED
      BY <2>1
  <1>5. Escaped(t, i) = esc
    BY DEF Escaped
  <1> HIDE DEF esc
  <1>6. i \in i..Len(t) /\ \A p \in i + 1..Len(t) : p \in i..Len(t) /\ p # i
    OBVIOUS
  <1> QED
    BY <1>4, <1>5, <1>6

LEMMA ClosingIs ==
  ASSUME NEW t \in Seq(Char), NEW i \in 0..Len(t), ClosingQuote(t, i) # -1
  PROVE  /\ ClosingQuote(t, i) \in i..Len(t) - 1
         /\ At(t, ClosingQuote(t, i)) = Quote
  <1> DEFINE quotes == {p \in i..Len(t) - 1 : At(t, p) = Quote /\ ~Escaped(t, i)[p]}
  <1>1. ClosingQuote(t, i) = IF quotes = {} THEN -1 ELSE Min(quotes)
    BY DEF ClosingQuote
  <1>2. quotes \in SUBSET Nat
    OBVIOUS
  <1>3. Min(quotes) \in quotes
    <2> HIDE DEF quotes
    <2> QED
      BY <1>1, <1>2, MinIs
  <1> QED
    BY <1>1, <1>3

\* The backslashes counted up to q, one byte further on.
Counted(t, i, q) == IF At(t, q) = Backslash /\ ~Escaped(t, i)[q] THEN 1 ELSE 0

LEMMA CountStep ==
  ASSUME NEW t \in Seq(Char), NEW i \in 0..Len(t), NEW q \in i..Len(t)
  PROVE  /\ Skipped(t, i, q) \in Nat
         /\ Skipped(t, i, q + 1) = Skipped(t, i, q) + Counted(t, i, q)
         /\ Skipped(t, i, i) = 0
  <1>1. ASSUME NEW r \in i..Len(t) PROVE IsFiniteSet(Backslashes(t, i, r))
    <2>1. IsFiniteSet(i..r - 1)
      BY FS_Interval
    <2>2. Backslashes(t, i, r) \subseteq i..r - 1
      BY DEF Backslashes
    <2> QED
      BY <2>1, <2>2, FS_Subset
  <1>2. Skipped(t, i, q) \in Nat
    BY <1>1, FS_CardinalityType DEF Skipped
  <1>3. q \notin Backslashes(t, i, q)
    BY DEF Backslashes
  <1>4. ASSUME At(t, q) = Backslash, ~Escaped(t, i)[q]
        PROVE  Skipped(t, i, q + 1) = Skipped(t, i, q) + Counted(t, i, q)
    <2>1. Backslashes(t, i, q + 1) = Backslashes(t, i, q) \cup {q}
      BY <1>4 DEF Backslashes
    <2> QED
      BY <1>1, <1>2, <1>3, <1>4, <2>1, FS_AddElement DEF Skipped, Counted
  <1>5. ASSUME ~(At(t, q) = Backslash /\ ~Escaped(t, i)[q])
        PROVE  Skipped(t, i, q + 1) = Skipped(t, i, q) + Counted(t, i, q)
    <2>1. Backslashes(t, i, q + 1) = Backslashes(t, i, q)
      BY <1>5 DEF Backslashes
    <2> QED
      BY <1>2, <1>5, <2>1 DEF Skipped, Counted
  <1>6. Skipped(t, i, i) = 0
    <2>1. Backslashes(t, i, i) = {}
      BY DEF Backslashes
    <2> QED
      BY <2>1, FS_EmptySet DEF Skipped
  <1> QED
    BY <1>2, <1>4, <1>5, <1>6

\* Of two bytes on end at most one is counted.
LEMMA CountTwo ==
  ASSUME NEW t \in Seq(Char), NEW i \in 0..Len(t), NEW q \in i..Len(t), q + 1 <= Len(t)
  PROVE  Skipped(t, i, q + 2) \in Nat /\ Skipped(t, i, q + 2) <= Skipped(t, i, q) + 1
  <1>1. q + 1 \in i..Len(t) /\ q + 1 \in i + 1..Len(t) /\ q + 1 - 1 = q /\ q + 1 + 1 = q + 2
    OBVIOUS
  <1>2. Escaped(t, i)[q + 1] <=> At(t, q) = Backslash /\ ~Escaped(t, i)[q]
    BY <1>1, EscapedIs
  <1>3. Counted(t, i, q) = 0 \/ Counted(t, i, q + 1) = 0
    BY <1>2 DEF Counted
  <1>4. /\ Skipped(t, i, q) \in Nat
        /\ Skipped(t, i, q + 1) = Skipped(t, i, q) + Counted(t, i, q)
        /\ Skipped(t, i, q + 2) = Skipped(t, i, q + 1) + Counted(t, i, q + 1)
    BY <1>1, CountStep
  <1>5. Counted(t, i, q) \in {0, 1} /\ Counted(t, i, q + 1) \in {0, 1}
    BY DEF Counted
  <1> QED
    BY <1>3, <1>4, <1>5

LEMMA CountPlain ==
  ASSUME NEW t \in Seq(Char), NEW i \in 0..Len(t), NEW q \in i..Len(t), At(t, q) # Backslash
  PROVE  Skipped(t, i, q + 1) = Skipped(t, i, q)
  BY CountStep DEF Counted

LEMMA CountFour ==
  ASSUME NEW t \in Seq(Char), NEW i \in 0..Len(t), NEW q \in i..Len(t), q + 6 <= Len(t), Plain(t, q)
  PROVE  Skipped(t, i, q + 6) \in Nat /\ Skipped(t, i, q + 6) <= Skipped(t, i, q) + 1
  <1>1. ASSUME NEW k \in 2..5
        PROVE  q + k \in i..Len(t) /\ At(t, q + k) # Backslash
    BY DEF Plain
  <1>2. /\ Skipped(t, i, q + 2 + 1) = Skipped(t, i, q + 2)
        /\ Skipped(t, i, q + 3 + 1) = Skipped(t, i, q + 3)
        /\ Skipped(t, i, q + 4 + 1) = Skipped(t, i, q + 4)
        /\ Skipped(t, i, q + 5 + 1) = Skipped(t, i, q + 5)
    BY <1>1, CountPlain
  <1>3. q + 2 + 1 = q + 3 /\ q + 3 + 1 = q + 4 /\ q + 4 + 1 = q + 5 /\ q + 5 + 1 = q + 6
    OBVIOUS
  <1>4. q + 1 <= Len(t)
    OBVIOUS
  <1>5. Skipped(t, i, q + 2) \in Nat /\ Skipped(t, i, q + 2) <= Skipped(t, i, q) + 1
    BY <1>4, CountTwo
  <1> QED
    BY <1>2, <1>3, <1>5

\* No more are counted than there are bytes.
LEMMA CountMost ==
  ASSUME NEW t \in Seq(Char), NEW i \in 0..Len(t), NEW q \in i..Len(t), NEW r \in q..Len(t)
  PROVE  Skipped(t, i, r) <= Skipped(t, i, q) + (r - q)
  <1> DEFINE T == {d \in 0..r - q : Skipped(t, i, q + d) <= Skipped(t, i, q) + d}
  <1>1. Skipped(t, i, q) \in Nat /\ r - q \in Nat
    BY CountStep
  <1>2. 0 \in T
    BY <1>1
  <1>3. ASSUME NEW d \in 1..r - q, d - 1 \in T PROVE d \in T
    <2>1. q + (d - 1) \in i..Len(t) /\ q + (d - 1) + 1 = q + d
      OBVIOUS
    <2>2. Skipped(t, i, q + (d - 1)) \in Nat
      BY <2>1, CountStep
    <2>3. Skipped(t, i, q + d) = Skipped(t, i, q + (d - 1)) + Counted(t, i, q + (d - 1))
      BY <2>1, CountStep
    <2>4. Counted(t, i, q + (d - 1)) \in {0, 1}
      BY DEF Counted
    <2>5. Skipped(t, i, q + (d - 1)) <= Skipped(t, i, q) + (d - 1)
      BY <1>3
    <2> QED
      BY <1>1, <2>2, <2>3, <2>4, <2>5
  <1>4. \A d \in 0..r - q : d \in T
    <2> HIDE DEF T
    <2> QED
      BY <1>1, <1>2, <1>3, Induction
  <1>5. r - q \in 0..r - q /\ q + (r - q) = r
    BY <1>1
  <1> QED
    BY <1>4, <1>5

\* What one round takes from at on, and the bytes it writes for it.
Takes(t, e, at, n, bytes) ==
  /\ bytes \in Seq(Char)
  /\ \/ n = 1 /\ Len(bytes) = 1 /\ At(t, at) # Backslash
     \/ n = 2 /\ Len(bytes) = 1
     \/ n = 6 /\ at + 6 <= e /\ Len(bytes) <= 3 /\ (Len(bytes) = 1 \/ Plain(t, at))
     \/ n = 12 /\ at + 12 <= e /\ Len(bytes) <= 4 /\ Plain(t, at) /\ Plain(t, at + 6)

Round == [ok : BOOLEAN, at : Nat, out : Seq(Char)]
Taken(s, n, bytes) == [s EXCEPT !.at = @ + n, !.out = @ \o bytes]

LEMMA SameRound ==
  ASSUME NEW p \in Round, NEW q \in Round, p.ok = q.ok, p.at = q.at, p.out = q.out
  PROVE  p = q
  BY SMTT(30) DEF Round

LEMMA TakenIs ==
  ASSUME NEW s \in Round, NEW n \in Nat, NEW bytes \in Seq(Char)
  PROVE  /\ Taken(s, n, bytes) \in Round
         /\ Taken(s, n, bytes).ok = s.ok
         /\ Taken(s, n, bytes).at = s.at + n
         /\ Taken(s, n, bytes).out = s.out \o bytes
  <1>1. s.at + n \in Nat /\ s.out \o bytes \in Seq(Char) /\ s.ok \in BOOLEAN
    BY DEF Round
  <1> DEFINE at == s.at + n
             out == s.out \o bytes
  <1>2. Taken(s, n, bytes) = [ok |-> s.ok, at |-> at, out |-> out]
    <2>1. Taken(s, n, bytes) = [s EXCEPT !.at = at, !.out = out]
      BY DEF Round, Taken
    <2> HIDE DEF at, out
    <2> QED
      BY <2>1 DEF Round
  <1> QED
    BY <1>1, <1>2 DEF Round

LEMMA StoppedIs ==
  ASSUME NEW s \in Round
  PROVE  /\ [s EXCEPT !.ok = FALSE] \in Round
         /\ ~[s EXCEPT !.ok = FALSE].ok
         /\ [s EXCEPT !.ok = FALSE].at = s.at
         /\ [s EXCEPT !.ok = FALSE].out = s.out
  BY DEF Round

LEMMA IndexIs ==
  ASSUME NEW seq, NEW x, x \in {seq[k] : k \in DOMAIN seq}
  PROVE  IndexIn(seq, x) \in DOMAIN seq /\ seq[IndexIn(seq, x)] = x
  BY DEF IndexIn

LEMMA UnescapeTakes ==
  ASSUME NEW t \in Seq(Char), NEW e \in Nat, e < Len(t), NEW s \in Round, s.at < e
  PROVE  \/ Unescape(t, e, s) = [s EXCEPT !.ok = FALSE]
         \/ \E n \in {1, 2, 6, 12}, bytes \in Seq(Char) :
              Takes(t, e, s.at, n, bytes) /\ Unescape(t, e, s) = Taken(s, n, bytes)
  <1> DEFINE at == s.at
             c == At(t, at + 1)
             literal == Utf16Literal(t, at, e)
             Take(bytes, n) == Taken(s, n, bytes)
             Goal == \E n \in {1, 2, 6, 12}, bytes \in Seq(Char) :
                       Takes(t, e, at, n, bytes) /\ Unescape(t, e, s) = Take(bytes, n)
  <1>1. at \in Nat /\ at + 1 \in Nat /\ at < Len(t) /\ at + 1 < Len(t)
    BY DEF Round
  <1>2. c \in Char /\ At(t, at) \in Char
    <2> HIDE DEF at
    <2>1. At(t, at) \in Char
      BY <1>1, AtRange
    <2>2. At(t, at + 1) \in Char
      BY <1>1, AtRange
    <2> QED
      BY <2>1, <2>2
  <1>3. Unescape(t, e, s) =
          IF At(t, at) # Backslash THEN Take(<<At(t, at)>>, 1)
          ELSE IF c \in {Letter[k] : k \in 1..5} THEN Take(<<Meant[IndexIn(Letter, c)]>>, 2)
          ELSE IF c \in {Quote, Backslash, Slash} THEN Take(<<c>>, 2)
          ELSE IF c = 117 /\ literal.length > 0 THEN Take(literal.out, literal.length)
          ELSE [s EXCEPT !.ok = FALSE]
    BY DEF Unescape, Taken
  <1> HIDE DEF at, c, literal, Take
  <1>4. CASE At(t, at) # Backslash
    <2>1. <<At(t, at)>> \in Seq(Char) /\ Len(<<At(t, at)>>) = 1
      BY <1>2
    <2>2. Takes(t, e, at, 1, <<At(t, at)>>)
      BY <1>4, <2>1 DEF Takes
    <2>3. Goal
      BY <1>3, <1>4, <2>1, <2>2
    <2> QED
      BY <2>3 DEF at, Take
  <1>5. CASE At(t, at) = Backslash /\ c \in {Letter[k] : k \in 1..5}
    <2> DEFINE b == Meant[IndexIn(Letter, c)]
    <2>1. DOMAIN Letter = 1..5 /\ Meant \in [1..5 -> {8, 9, 10, 12, 13}]
      BY DEF Letter, Meant
    <2>2. IndexIn(Letter, c) \in 1..5
      <3>1. c \in {Letter[k] : k \in DOMAIN Letter}
        BY <1>5, <2>1
      <3> QED
        BY <2>1, <3>1, IndexIs
    <2>3. b \in {8, 9, 10, 12, 13}
      BY <2>1, <2>2
    <2> HIDE DEF b
    <2>4. b \in Char
      BY <2>3 DEF Char
    <2>5. <<b>> \in Seq(Char) /\ Len(<<b>>) = 1
      BY <2>4
    <2>6. Takes(t, e, at, 2, <<b>>)
      BY <2>5 DEF Takes
    <2>7. Unescape(t, e, s) = Take(<<b>>, 2)
      BY <1>3, <1>5 DEF b
    <2>8. Goal
      BY <2>5, <2>6, <2>7
    <2> QED
      BY <2>8 DEF at, Take
  <1>6. CASE /\ At(t, at) = Backslash /\ c \notin {Letter[k] : k \in 1..5}
             /\ c \in {Quote, Backslash, Slash}
    <2>1. <<c>> \in Seq(Char) /\ Len(<<c>>) = 1
      BY <1>2
    <2>2. Takes(t, e, at, 2, <<c>>)
      BY <2>1 DEF Takes
    <2>3. Unescape(t, e, s) = Take(<<c>>, 2)
      BY <1>3, <1>6
    <2>4. Goal
      BY <2>1, <2>2, <2>3
    <2> QED
      BY <2>4 DEF at, Take
  <1>7. CASE /\ At(t, at) = Backslash /\ c \notin {Letter[k] : k \in 1..5}
             /\ c \notin {Quote, Backslash, Slash} /\ c = 117 /\ literal.length > 0
    <2>1. /\ literal.out \in Seq(Char) /\ literal.length \in {0, 6, 12}
          /\ literal.length = 6 =>
               /\ at + 6 <= e /\ Len(literal.out) <= 3
               /\ Len(literal.out) = 1 \/ Plain(t, at)
          /\ literal.length = 12 =>
               /\ at + 12 <= e /\ Len(literal.out) <= 4
               /\ Plain(t, at) /\ Plain(t, at + 6) /\ At(t, at + 7) # Backslash
      BY <1>1, LiteralRange DEF literal
    <2>2. literal.length \in {6, 12}
      BY <1>7, <2>1
    <2>3. Takes(t, e, at, literal.length, literal.out)
      BY <2>1, <2>2 DEF Takes
    <2>4. Unescape(t, e, s) = Take(literal.out, literal.length)
      BY <1>3, <1>7
    <2>5. Goal
      BY <2>1, <2>2, <2>3, <2>4
    <2> QED
      BY <2>5 DEF at, Take
  <1>8. CASE Unescape(t, e, s) = [s EXCEPT !.ok = FALSE]
    BY <1>8
  <1> QED
    BY <1>3, <1>4, <1>5, <1>6, <1>7, <1>8

\* The bytes written never exceed those taken less the backslashes counted among
\* them, whichever loop is right about where the escapes are.
LEMMA TakesCount ==
  ASSUME NEW t \in Seq(Char), NEW i \in 0..Len(t), NEW e \in i..Len(t) - 1, NEW at \in i..e - 1,
         NEW n \in {1, 2, 6, 12}, NEW bytes \in Seq(Char), Takes(t, e, at, n, bytes)
  PROVE  /\ at + n <= e + 1
         /\ Len(bytes) + Skipped(t, i, at + n) <= n + Skipped(t, i, at)
  <1>1. at \in i..Len(t) /\ at + 1 <= Len(t) /\ e + 1 <= Len(t) /\ Len(bytes) \in Nat
    OBVIOUS
  <1>2. Skipped(t, i, at) \in Nat
    BY <1>1, CountStep
  <1>3. ASSUME n = 1, Len(bytes) = 1, At(t, at) # Backslash
        PROVE  Len(bytes) + Skipped(t, i, at + n) <= n + Skipped(t, i, at)
    BY <1>1, <1>2, <1>3, CountPlain
  <1>4. ASSUME n = 2, Len(bytes) = 1
        PROVE  Len(bytes) + Skipped(t, i, at + n) <= n + Skipped(t, i, at)
    BY <1>1, <1>2, <1>4, CountTwo, SMTT(30)
  <1>5. ASSUME n = 6, at + 6 <= e, Len(bytes) <= 3, Len(bytes) = 1 \/ Plain(t, at)
        PROVE  Len(bytes) + Skipped(t, i, at + n) <= n + Skipped(t, i, at)
    <2>1. CASE Len(bytes) = 1
      <3>1. at + 2 \in i..Len(t) /\ at + 2 + 1 <= Len(t) /\ at + 4 \in i..Len(t) /\ at + 4 + 1 <= Len(t)
        BY <1>1, <1>5
      <3>2. /\ Skipped(t, i, at + 2) \in Nat /\ Skipped(t, i, at + 2) <= Skipped(t, i, at) + 1
            /\ Skipped(t, i, at + 2 + 2) \in Nat /\ Skipped(t, i, at + 2 + 2) <= Skipped(t, i, at + 2) + 1
            /\ Skipped(t, i, at + 4 + 2) \in Nat /\ Skipped(t, i, at + 4 + 2) <= Skipped(t, i, at + 4) + 1
        BY <1>1, <3>1, CountTwo
      <3>3. at + 2 + 2 = at + 4 /\ at + 4 + 2 = at + 6 /\ at + n = at + 6
        BY <1>5
      <3>4. Skipped(t, i, at + 6) <= Skipped(t, i, at) + 3 /\ Skipped(t, i, at + 6) \in Nat
        BY <1>2, <3>2, <3>3, SMTT(30)
      <3>5. Skipped(t, i, at + n) = Skipped(t, i, at + 6)
        BY <3>3
      <3> QED
        BY <1>2, <1>5, <2>1, <3>4, <3>5, SMTT(30)
    <2>2. CASE Plain(t, at)
      <3>1. at + 6 <= Len(t)
        BY <1>1, <1>5
      <3>2. Skipped(t, i, at + 6) \in Nat /\ Skipped(t, i, at + 6) <= Skipped(t, i, at) + 1
        BY <1>1, <2>2, <3>1, CountFour
      <3> QED
        BY <1>1, <1>2, <1>5, <3>2, SMTT(30)
    <2> QED
      BY <1>5, <2>1, <2>2
  <1>6. ASSUME n = 12, at + 12 <= e, Len(bytes) <= 4, Plain(t, at), Plain(t, at + 6)
        PROVE  Len(bytes) + Skipped(t, i, at + n) <= n + Skipped(t, i, at)
    <2>1. at + 6 <= Len(t) /\ at + 6 \in i..Len(t) /\ at + 6 + 6 <= Len(t) /\ at + 6 + 6 = at + 12
      BY <1>1, <1>6
    <2>2. Skipped(t, i, at + 6) \in Nat /\ Skipped(t, i, at + 6) <= Skipped(t, i, at) + 1
      BY <1>1, <1>6, <2>1, CountFour
    <2>3. Skipped(t, i, at + 6 + 6) \in Nat /\ Skipped(t, i, at + 6 + 6) <= Skipped(t, i, at + 6) + 1
      BY <1>1, <1>6, <2>1, CountFour
    <2> QED
      BY <1>1, <1>2, <1>6, <2>1, <2>2, <2>3, SMTT(30)
  <1>7. at + n <= e + 1
    BY DEF Takes
  <1> QED
    BY <1>3, <1>4, <1>5, <1>6, <1>7 DEF Takes

LEMMA UnescapedFits ==
  ASSUME NEW t \in Seq(Char), NEW i \in 0..Len(t), NEW e \in i..Len(t) - 1, At(t, e) = Quote
  PROVE  /\ Unescaped(t, i, e).ok \in BOOLEAN
         /\ Unescaped(t, i, e).out \in Seq(Char)
         /\ Len(Unescaped(t, i, e).out) + Skipped(t, i, e) <= e - i + 1
         /\ ~Unescaped(t, i, e).ok => Len(Unescaped(t, i, e).out) + Skipped(t, i, e) <= e - i
  <1> DEFINE n == e - i
             first == [ok |-> TRUE, at |-> i, out |-> <<>>]
             go(s) == IF s.ok /\ s.at < e THEN Unescape(t, e, s) ELSE s
             step == [k \in 1..n |-> [s \in Round |-> go(s)]]
             body(g) == [k \in 0..n |-> IF k = 0 THEN first ELSE go(g[k - 1])]
             round == CHOOSE g : g = body(g)
             Fits(s) == /\ s.at \in i..e + 1
                        /\ Len(s.out) + Skipped(t, i, s.at) <= s.at - i
                        /\ ~s.ok => s.at < e
  <1>1. n \in Nat /\ e \in Nat /\ e < Len(t)
    OBVIOUS
  <1>2. first \in Round
    BY DEF Round
  <1>3. ASSUME NEW s \in Round PROVE go(s) \in Round /\ (Fits(s) => Fits(go(s)))
    <2>1. ASSUME s.ok, s.at < e PROVE go(s) \in Round /\ (Fits(s) => Fits(go(s)))
      <3>1. go(s) = Unescape(t, e, s) /\ s.at \in Nat /\ s.out \in Seq(Char)
        BY <2>1 DEF Round
      <3>2. ASSUME Unescape(t, e, s) = [s EXCEPT !.ok = FALSE]
            PROVE  go(s) \in Round /\ (Fits(s) => Fits(go(s)))
        <4>1. go(s) \in Round /\ go(s).at = s.at /\ go(s).out = s.out
          BY <3>1, <3>2, StoppedIs
        <4> HIDE DEF go
        <4> QED
          BY <2>1, <4>1
      <3>3. ASSUME NEW m \in {1, 2, 6, 12}, NEW bytes \in Seq(Char), Takes(t, e, s.at, m, bytes),
                   Unescape(t, e, s) = Taken(s, m, bytes)
            PROVE  go(s) \in Round /\ (Fits(s) => Fits(go(s)))
        <4> DEFINE r == go(s)
                   at == s.at
                   out == s.out
        <4>1. /\ r \in Round /\ r.ok = s.ok
              /\ r.at = at + m /\ r.out = out \o bytes
          <5>1. m \in Nat
            OBVIOUS
          <5>2. r = Taken(s, m, bytes)
            BY <3>1, <3>3
          <5> HIDE DEF r
          <5> QED
            BY <5>1, <5>2, TakenIs
        <4> HIDE DEF r
        <4>2. ASSUME Fits(s) PROVE Fits(r)
          <5>1. at \in i..e - 1 /\ at \in i..Len(t) /\ out \in Seq(Char) /\ at \in Int
            BY <2>1, <3>1, <4>2
          <5>2. Len(out) + Skipped(t, i, at) <= at - i
            BY <4>2
          <5>3. Takes(t, e, at, m, bytes)
            BY <3>3
          <5> HIDE DEF at, out
          <5>4. /\ at + m <= e + 1
                /\ Len(bytes) + Skipped(t, i, at + m) <= m + Skipped(t, i, at)
            BY <5>1, <5>3, TakesCount
          <5>5. at + m \in i..Len(t) /\ at + m \in i..e + 1
            BY <5>1, <5>4
          <5>6. Skipped(t, i, at + m) \in Nat /\ Skipped(t, i, at) \in Nat
            BY <5>1, <5>5, CountStep
          <5>7. Len(out \o bytes) = Len(out) + Len(bytes) /\ Len(out) \in Nat /\ Len(bytes) \in Nat
            BY <5>1
          <5>8. i \in Int /\ m \in Int
            OBVIOUS
          <5>9. Len(out \o bytes) + Skipped(t, i, at + m) <= (at + m) - i
            BY <5>1, <5>2, <5>4, <5>6, <5>7, <5>8, SMTT(30)
          <5>10. r.at \in i..e + 1
            BY <4>1, <5>5
          <5>11. Len(r.out) + Skipped(t, i, r.at) <= r.at - i
            BY <4>1, <5>9
          <5>12. r.ok
            BY <2>1, <4>1
          <5> QED
            BY <5>10, <5>11, <5>12
        <4> QED
          BY <4>1, <4>2 DEF r
      <3>4. \/ Unescape(t, e, s) = [s EXCEPT !.ok = FALSE]
            \/ \E m \in {1, 2, 6, 12}, bytes \in Seq(Char) :
                 Takes(t, e, s.at, m, bytes) /\ Unescape(t, e, s) = Taken(s, m, bytes)
        BY <1>1, <2>1, UnescapeTakes
      <3> HIDE DEF go, Fits
      <3> QED
        BY <3>2, <3>3, <3>4
    <2>2. ASSUME ~(s.ok /\ s.at < e) PROVE go(s) = s
      BY <2>2
    <2> HIDE DEF go, Fits
    <2> QED
      BY <2>1, <2>2
  <1>5. PICK f \in [0..n -> Round] : Iterates(f, first, n, step)
    <2>1. step \in [1..n -> [Round -> Round]]
      <3> HIDE DEF go
      <3> QED
        BY <1>3
    <2> HIDE DEF n, first, step
    <2> QED
      BY <1>1, <1>2, <2>1, Iterate
  <1>6. f = body(f)
    <2>1. ASSUME NEW k \in 0..n PROVE f[k] = IF k = 0 THEN first ELSE go(f[k - 1])
      <3>1. CASE k = 0
        BY <1>5, <3>1 DEF Iterates
      <3>2. CASE k # 0
        <4>1. k \in 1..n /\ k - 1 \in 0..n
          BY <3>2
        <4>2. f[k - 1] \in Round /\ f[k] = step[k][f[k - 1]]
          BY <1>5, <4>1 DEF Iterates
        <4> HIDE DEF go
        <4> QED
          BY <3>2, <4>1, <4>2
      <3> QED
        BY <3>1, <3>2
    <2> HIDE DEF go, first
    <2> QED
      BY <1>5, <2>1
  <1>7. round = body(round)
    <2> HIDE DEF go, first, n
    <2>1. \E g : g = body(g)
      BY <1>6
    <2> QED
      BY <2>1
  <1>8. Unescaped(t, i, e) = round[n]
    BY DEF Unescaped
  <1> HIDE DEF round
  <1> DEFINE T == {k \in 0..n : round[k] \in Round /\ Fits(round[k])}
  <1>9. 0 \in T
    <2>1. round[0] = first
      BY <1>1, <1>7
    <2>2. Skipped(t, i, i) = 0
      BY CountStep
    <2> QED
      BY <1>2, <2>1, <2>2
  <1>10. ASSUME NEW k \in 1..n, k - 1 \in T PROVE k \in T
    <2>1. round[k - 1] \in Round /\ Fits(round[k - 1])
      BY <1>10
    <2>2. round[k] = go(round[k - 1])
      <3> HIDE DEF go, first
      <3> QED
        BY <1>7
    <2> HIDE DEF go, Fits
    <2> QED
      BY <1>3, <2>1, <2>2
  <1>11. \A k \in 0..n : k \in T
    <2> HIDE DEF T, n
    <2> QED
      BY <1>1, <1>9, <1>10, Induction
  <1> DEFINE u == round[n]
  <1>12. u \in Round /\ Fits(u)
    <2>1. n \in 0..n
      BY <1>1
    <2> HIDE DEF n
    <2> QED
      BY <1>11, <2>1
  <1> HIDE DEF u, T
  <1>13. /\ Len(u.out) + Skipped(t, i, e) <= e - i + 1
         /\ ~u.ok => Len(u.out) + Skipped(t, i, e) <= e - i
    <2> DEFINE at == u.at
               l == Len(u.out)
    <2>1. at \in i..e + 1 /\ l \in Nat /\ e \in i..Len(t) /\ i \in Int /\ e \in Int
      BY <1>12 DEF Round
    <2>5. l + Skipped(t, i, at) <= at - i /\ (~u.ok => at < e)
      BY <1>12
    <2> HIDE DEF at, l
    <2>2. Skipped(t, i, e) \in Nat /\ Skipped(t, i, e + 1) = Skipped(t, i, e)
      <3>1. At(t, e) # Backslash
        BY DEF Quote, Backslash
      <3> QED
        BY <2>1, <3>1, CountPlain, CountStep
    <2>3. CASE at <= e
      <3>1. at \in i..Len(t) /\ e \in at..Len(t)
        BY <2>1, <2>3
      <3>2. Skipped(t, i, e) <= Skipped(t, i, at) + (e - at) /\ Skipped(t, i, at) \in Nat
        BY <3>1, CountMost, CountStep
      <3>3. l + Skipped(t, i, e) <= e - i
        BY <2>1, <2>2, <2>5, <3>2
      <3> QED
        BY <2>1, <2>2, <3>3 DEF l
    <2>4. CASE at = e + 1
      <3>1. l + Skipped(t, i, e) <= e + 1 - i /\ u.ok
        BY <2>1, <2>2, <2>4, <2>5
      <3> QED
        BY <2>1, <2>2, <3>1 DEF l
    <2> QED
      BY <2>1, <2>3, <2>4
  <1> QED
    BY <1>8, <1>12, <1>13 DEF Round, u

\* parse_string never writes more than it has room for, and stops behind a quote.
LEMMA ParsedStringIs ==
  ASSUME NEW t \in Seq(Char), NEW o \in Nat
  PROVE  /\ ParsedString(t, o).ok \in BOOLEAN
         /\ ParsedString(t, o).out \in Seq(Char)
         /\ ParsedString(t, o).room > 0 =>
              Len(ParsedString(t, o).out) + (IF ParsedString(t, o).ok THEN 1 ELSE 0)
                <= ParsedString(t, o).room
         /\ ParsedString(t, o).ok =>
              /\ ParsedString(t, o).after \in o + 2..Len(t)
              /\ At(t, o) = Quote /\ At(t, ParsedString(t, o).after - 1) = Quote
  <1> DEFINE e == ClosingQuote(t, o + 1)
             u == Unescaped(t, o + 1, e)
             room == Allocation(t, o, e)
             none == [ok |-> FALSE, out |-> <<>>, room |-> 0, after |-> o]
             some == [ok |-> u.ok, out |-> u.out, room |-> room, after |-> e + 1]
             s == ParsedString(t, o)
  <1>1. s = IF At(t, o) # Quote \/ e = -1 THEN none ELSE some
    BY DEF ParsedString
  <1> HIDE DEF s, e
  <1>2. ASSUME At(t, o) # Quote \/ e = -1
        PROVE  ~s.ok /\ s.ok \in BOOLEAN /\ s.out = <<>> /\ s.room = 0
    BY <1>1, <1>2
  <1>3. ASSUME At(t, o) = Quote, e # -1
        PROVE  /\ s.ok \in BOOLEAN /\ s.out \in Seq(Char)
               /\ Len(s.out) + 1 <= s.room /\ s.room \in Int
               /\ s.after \in o + 2..Len(t) /\ At(t, s.after - 1) = Quote
    <2>1. o < Len(t)
      <3>1. At(t, o) # 256
        BY <1>3 DEF Quote
      <3>2. o >= Len(t) => At(t, o) = 256
        BY AtRange
      <3>3. Len(t) \in Nat
        OBVIOUS
      <3> QED
        BY <3>1, <3>2, <3>3
    <2>2. o + 1 \in 0..Len(t)
      BY <2>1
    <2>3. e \in o + 1..Len(t) - 1 /\ At(t, e) = Quote
      BY <1>3, <2>2, ClosingIs DEF e
    <2>4. /\ u.ok \in BOOLEAN /\ u.out \in Seq(Char)
          /\ Len(u.out) + Skipped(t, o + 1, e) <= (e - (o + 1)) + 1
      BY <2>2, <2>3, UnescapedFits
    <2>5. Skipped(t, o + 1, e) \in Nat
      BY <2>2, <2>3, CountStep
    <2> HIDE DEF u
    <2>6. Len(u.out) + 1 <= room /\ room \in Int
      BY <2>3, <2>4, <2>5, SMTT(30) DEF Allocation
    <2> HIDE DEF room
    <2>7. s = some
      BY <1>1, <1>3
    <2>8. e + 1 \in o + 2..Len(t) /\ (e + 1) - 1 = e
      BY <2>3
    <2>9. s.ok = u.ok /\ s.out = u.out /\ s.room = room /\ s.after = e + 1
      BY <2>7
    <2> QED
      BY <2>3, <2>4, <2>6, <2>8, <2>9
  <1>4. s.room > 0 => Len(s.out) + (IF s.ok THEN 1 ELSE 0) <= s.room
    <2>1. ASSUME At(t, o) = Quote, e # -1
          PROVE  Len(s.out) + (IF s.ok THEN 1 ELSE 0) <= s.room
      <3>1. /\ Len(s.out) + 1 <= s.room /\ s.room \in Int
            /\ Len(s.out) \in Nat /\ s.ok \in BOOLEAN
        BY <1>3, <2>1
      <3>3. CASE s.ok
        BY <3>1, <3>3
      <3>4. CASE ~s.ok
        BY <3>1, <3>4
      <3> QED
        BY <3>1, <3>3, <3>4
    <2>2. ASSUME At(t, o) # Quote \/ e = -1 PROVE ~(s.room > 0)
      <3>1. s.room = 0
        BY <1>2, <2>2
      <3> QED
        BY <3>1
    <2> QED
      BY <2>1, <2>2
  <1>5. s.ok => At(t, o) = Quote /\ e # -1
    BY <1>2
  <1>6. s.ok \in BOOLEAN /\ s.out \in Seq(Char)
    <2>1. CASE At(t, o) # Quote \/ e = -1
      <3>1. s.ok \in BOOLEAN /\ s.out = <<>>
        BY <1>2, <2>1
      <3>2. <<>> \in Seq(Char)
        OBVIOUS
      <3> QED
        BY <3>1, <3>2
    <2>2. CASE At(t, o) = Quote /\ e # -1
      BY <1>3, <2>2
    <2> QED
      BY <2>1, <2>2
  <1> QED
    BY <1>3, <1>4, <1>5, <1>6 DEF s

-----------------------------------------------------------------------------
(***************************************************************************)
(* C strings, and the bytes print_string_ptr and print_number write.       *)
(***************************************************************************)
LEMMA NonZeroIs == NonZero \subseteq Char /\ \A b \in Char : b # 0 => b \in NonZero
  BY DEF NonZero, Char

LEMMA SubChars ==
  ASSUME NEW s \in Seq(NonZero)
  PROVE  s \in Seq(Char)
  <1>1. \A k \in 1..Len(s) : s[k] \in Char
    BY NonZeroIs
  <1> QED
    BY <1>1

\* What is left of the bytes up to the first 0.
LEMMA CStringIs ==
  ASSUME NEW s \in Seq(Char)
  PROVE  CString(s) \in Seq(NonZero) /\ Len(CString(s)) <= Len(s)
  <1> DEFINE zeroes == {k \in 1..Len(s) : s[k] = 0}
  <1>1. CString(s) = IF zeroes = {} THEN s ELSE SubSeq(s, 1, Min(zeroes) - 1)
    BY DEF CString
  <1>2. CASE zeroes = {}
    <2>1. \A k \in 1..Len(s) : s[k] \in NonZero
      BY <1>2, NonZeroIs
    <2> QED
      BY <1>1, <1>2, <2>1
  <1>3. CASE zeroes # {}
    <2> DEFINE z == Min(zeroes)
    <2>1. zeroes \in SUBSET Nat
      OBVIOUS
    <2>2. z \in zeroes /\ \A y \in zeroes : z <= y
      <3> HIDE DEF zeroes
      <3> QED
        BY <1>3, <2>1, MinIs
    <2> HIDE DEF z
    <2>3. z \in 1..Len(s)
      BY <2>2
    <2>4. ASSUME NEW k \in 1..z - 1 PROVE k \in 1..Len(s) /\ s[k] \in NonZero
      <3>1. k \in 1..Len(s) /\ ~(z <= k)
        BY <2>3
      <3>2. s[k] # 0
        BY <2>2, <3>1
      <3> QED
        BY <3>1, <3>2, NonZeroIs
    <2>5. CString(s) = SubSeq(s, 1, z - 1)
      BY <1>1, <1>3 DEF z
    <2>6. /\ Len(SubSeq(s, 1, z - 1)) = z - 1
          /\ \A k \in 1..z - 1 : SubSeq(s, 1, z - 1)[k] = s[k]
      BY <2>3
    <2>7. SubSeq(s, 1, z - 1) \in Seq(NonZero)
      BY <2>3, <2>4, <2>6
    <2> QED
      BY <2>3, <2>5, <2>6, <2>7
  <1> QED
    BY <1>2, <1>3

\* strlen finds the terminator behind bytes that are not 0.
LEMMA StrlenIs ==
  ASSUME NEW s \in Seq(Char), NEW z \in 1..Len(s), s[z] = 0, \A k \in 1..z - 1 : s[k] # 0
  PROVE  Len(CString(s)) = z - 1
  <1> DEFINE zeroes == {k \in 1..Len(s) : s[k] = 0}
  <1>1. z \in zeroes /\ zeroes \in SUBSET Nat
    OBVIOUS
  <1>2. Min(zeroes) \in zeroes /\ \A y \in zeroes : Min(zeroes) <= y
    <2> HIDE DEF zeroes
    <2> QED
      BY <1>1, MinIs
  <1>3. Min(zeroes) = z
    <2>1. Min(zeroes) \in 1..Len(s) /\ s[Min(zeroes)] = 0 /\ Min(zeroes) <= z
      BY <1>1, <1>2
    <2> HIDE DEF zeroes
    <2> QED
      BY <2>1
  <1>4. CString(s) = SubSeq(s, 1, z - 1)
    BY <1>1, <1>3 DEF CString
  <1>5. Len(SubSeq(s, 1, z - 1)) = z - 1
    OBVIOUS
  <1> QED
    BY <1>4, <1>5

LEMMA EscapeIs ==
  ASSUME NEW b \in NonZero
  PROVE  /\ Escape(b) \in Seq(NonZero)
         /\ EscapeCharacters(b) \in Nat
         /\ Len(Escape(b)) = 1 + EscapeCharacters(b)
  <1>1. b \in Nat /\ b < 256 /\ b # 0
    BY DEF NonZero, Char
  <1>2. CASE b \in {Quote, Backslash}
    <2>1. Escape(b) = <<Backslash, b>> /\ EscapeCharacters(b) = 1
      BY <1>2 DEF Escape, EscapeCharacters
    <2>2. Backslash \in NonZero
      BY DEF Backslash, NonZero, Char
    <2> QED
      BY <2>1, <2>2
  <1>3. CASE b \notin {Quote, Backslash} /\ b \in Controls
    <2>1. Escape(b) = <<Backslash, Letter[IndexIn(Meant, b)]>> /\ EscapeCharacters(b) = 1
      BY <1>3 DEF Escape, EscapeCharacters
    <2>2. DOMAIN Meant = 1..5 /\ Letter \in [1..5 -> {98, 102, 110, 114, 116}]
      BY DEF Meant, Letter
    <2>3. b \in {Meant[k] : k \in DOMAIN Meant}
      BY <1>3, <2>2 DEF Controls
    <2>4. IndexIn(Meant, b) \in 1..5
      BY <2>2, <2>3, IndexIs
    <2>5. Letter[IndexIn(Meant, b)] \in {98, 102, 110, 114, 116}
      BY <2>2, <2>4
    <2>6. Letter[IndexIn(Meant, b)] \in NonZero
      BY <2>5 DEF NonZero, Char
    <2>7. Backslash \in NonZero
      BY DEF Backslash, NonZero, Char
    <2> QED
      BY <2>1, <2>6, <2>7
  <1>4. CASE b \notin {Quote, Backslash} /\ b \notin Controls /\ b < 32
    <2> DEFINE x == HexLetter(b \div 16)
               y == HexLetter(b % 16)
    <2>1. Escape(b) = <<Backslash, 117, 48, 48, x, y>> /\ EscapeCharacters(b) = 5
      BY <1>4 DEF Escape, EscapeCharacters
    <2>2. x \in NonZero /\ y \in NonZero
      <3>1. b \div 16 \in Nat /\ b \div 16 < 16 /\ b % 16 \in Nat /\ b % 16 < 16
        BY <1>1, <1>4
      <3>2. ASSUME NEW d \in Nat, d < 16 PROVE HexLetter(d) \in NonZero
        BY <3>2 DEF HexLetter, NonZero, Char
      <3> QED
        BY <3>1, <3>2
    <2> HIDE DEF x, y
    <2>3. Backslash \in NonZero /\ 117 \in NonZero /\ 48 \in NonZero
      BY DEF Backslash, NonZero, Char
    <2> QED
      BY <2>1, <2>2, <2>3
  <1>5. CASE b \notin {Quote, Backslash} /\ b \notin Controls /\ ~(b < 32)
    <2>1. Escape(b) = <<b>> /\ EscapeCharacters(b) = 0
      BY <1>5 DEF Escape, EscapeCharacters
    <2> QED
      BY <2>1
  <1> QED
    BY <1>2, <1>3, <1>4, <1>5

LEMMA OutputLengthIs ==
  ASSUME NEW s \in Seq(NonZero)
  PROVE  \E f \in [0..Len(s) -> Nat] :
           /\ f[0] = 0
           /\ \A k \in 1..Len(s) : f[k] = f[k - 1] + 1 + EscapeCharacters(s[k])
           /\ OutputLength(s) = f[Len(s)]
  <1> DEFINE n == Len(s)
             step == [k \in 1..n |-> [x \in Nat |-> x + 1 + EscapeCharacters(s[k])]]
             body(g) == [k \in 0..n |-> IF k = 0 THEN 0 ELSE g[k - 1] + 1 + EscapeCharacters(s[k])]
             upto == CHOOSE g : g = body(g)
  <1>1. n \in Nat
    OBVIOUS
  <1>2. step \in [1..n -> [Nat -> Nat]]
    <2>1. ASSUME NEW k \in 1..n, NEW x \in Nat PROVE x + 1 + EscapeCharacters(s[k]) \in Nat
      <3>1. s[k] \in NonZero
        OBVIOUS
      <3>2. EscapeCharacters(s[k]) \in Nat
        BY <3>1, EscapeIs
      <3> QED
        BY <3>2
    <2> QED
      BY <2>1
  <1>3. 0 \in Nat
    OBVIOUS
  <1>4. PICK f \in [0..n -> Nat] : Iterates(f, 0, n, step)
    <2> HIDE DEF n, step
    <2> QED
      BY <1>1, <1>2, <1>3, Iterate
  <1>5. f = body(f)
    <2>1. ASSUME NEW k \in 0..n
          PROVE  f[k] = IF k = 0 THEN 0 ELSE f[k - 1] + 1 + EscapeCharacters(s[k])
      <3>1. CASE k = 0
        BY <1>4, <3>1 DEF Iterates
      <3>2. CASE k # 0
        <4>1. k \in 1..n /\ k - 1 \in 0..n
          BY <3>2
        <4>2. f[k - 1] \in Nat /\ f[k] = step[k][f[k - 1]]
          BY <1>4, <4>1 DEF Iterates
        <4> QED
          BY <3>2, <4>1, <4>2
      <3> QED
        BY <3>1, <3>2
    <2> QED
      BY <1>4, <2>1
  <1>6. upto = body(upto)
    <2> HIDE DEF n
    <2>1. \E g : g = body(g)
      BY <1>5
    <2> QED
      BY <2>1
  <1>7. OutputLength(s) = upto[n]
    BY DEF OutputLength
  <1> HIDE DEF upto
  <1>8. upto[0] = 0 /\ \A k \in 1..n : upto[k] = upto[k - 1] + 1 + EscapeCharacters(s[k])
    BY <1>1, <1>6
  <1> DEFINE T == {k \in 0..n : upto[k] \in Nat}
  <1>9. 0 \in T
    BY <1>1, <1>3, <1>8
  <1>10. ASSUME NEW k \in 1..n, k - 1 \in T PROVE k \in T
    <2>1. s[k] \in NonZero /\ upto[k - 1] \in Nat
      BY <1>10
    <2>2. EscapeCharacters(s[k]) \in Nat
      BY <2>1, EscapeIs
    <2>3. upto[k] \in Nat
      BY <1>8, <2>1, <2>2
    <2> QED
      BY <2>3
  <1>11. \A k \in 0..n : k \in T
    <2> HIDE DEF T, n
    <2> QED
      BY <1>1, <1>9, <1>10, Induction
  <1>12. upto = [k \in 0..n |-> upto[k]]
    BY <1>6
  <1>13. upto \in [0..n -> Nat]
    BY <1>11, <1>12
  <1> QED
    BY <1>7, <1>8, <1>13

LEMMA EscapesIs ==
  ASSUME NEW s \in Seq(NonZero)
  PROVE  \E f \in [0..Len(s) -> Seq(NonZero)] :
           /\ f[0] = <<>>
           /\ \A k \in 1..Len(s) : f[k] = f[k - 1] \o Escape(s[k])
           /\ Escapes(s) = f[Len(s)]
  <1> DEFINE n == Len(s)
             step == [k \in 1..n |-> [x \in Seq(NonZero) |-> x \o Escape(s[k])]]
             body(g) == [k \in 0..n |-> IF k = 0 THEN <<>> ELSE g[k - 1] \o Escape(s[k])]
             upto == CHOOSE g : g = body(g)
  <1>1. n \in Nat
    OBVIOUS
  <1>2. step \in [1..n -> [Seq(NonZero) -> Seq(NonZero)]]
    <2>1. ASSUME NEW k \in 1..n, NEW x \in Seq(NonZero) PROVE x \o Escape(s[k]) \in Seq(NonZero)
      <3>1. s[k] \in NonZero
        OBVIOUS
      <3>2. Escape(s[k]) \in Seq(NonZero)
        BY <3>1, EscapeIs
      <3> QED
        BY <3>2
    <2> QED
      BY <2>1
  <1>3. <<>> \in Seq(NonZero)
    OBVIOUS
  <1>4. PICK f \in [0..n -> Seq(NonZero)] : Iterates(f, <<>>, n, step)
    <2> HIDE DEF n, step
    <2> QED
      BY <1>1, <1>2, <1>3, Iterate
  <1>5. f = body(f)
    <2>1. ASSUME NEW k \in 0..n
          PROVE  f[k] = IF k = 0 THEN <<>> ELSE f[k - 1] \o Escape(s[k])
      <3>1. CASE k = 0
        BY <1>4, <3>1 DEF Iterates
      <3>2. CASE k # 0
        <4>1. k \in 1..n /\ k - 1 \in 0..n
          BY <3>2
        <4>2. f[k - 1] \in Seq(NonZero) /\ f[k] = step[k][f[k - 1]]
          BY <1>4, <4>1 DEF Iterates
        <4> QED
          BY <3>2, <4>1, <4>2
      <3> QED
        BY <3>1, <3>2
    <2> QED
      BY <1>4, <2>1
  <1>6. upto = body(upto)
    <2> HIDE DEF n
    <2>1. \E g : g = body(g)
      BY <1>5
    <2> QED
      BY <2>1
  <1>7. Escapes(s) = upto[n]
    BY DEF Escapes
  <1> HIDE DEF upto
  <1>8. upto[0] = <<>> /\ \A k \in 1..n : upto[k] = upto[k - 1] \o Escape(s[k])
    BY <1>1, <1>6, SMTT(30)
  <1> DEFINE T == {k \in 0..n : upto[k] \in Seq(NonZero)}
  <1>9. 0 \in T
    <2>1. 0 \in 0..n /\ upto[0] \in Seq(NonZero)
      BY <1>1, <1>3, <1>8
    <2> HIDE DEF n
    <2> QED
      BY <2>1
  <1>10. ASSUME NEW k \in 1..n, k - 1 \in T PROVE k \in T
    <2>1. s[k] \in NonZero /\ upto[k - 1] \in Seq(NonZero)
      BY <1>10
    <2>2. Escape(s[k]) \in Seq(NonZero)
      BY <2>1, EscapeIs
    <2>3. upto[k] \in Seq(NonZero)
      <3> DEFINE a == upto[k - 1]
                 b == Escape(s[k])
      <3>1. upto[k] = a \o b /\ a \in Seq(NonZero) /\ b \in Seq(NonZero)
        BY <1>8, <2>1, <2>2
      <3> HIDE DEF a, b
      <3> QED
        BY <3>1
    <2> QED
      BY <2>3
  <1>11. \A k \in 0..n : k \in T
    <2> HIDE DEF T, n
    <2> QED
      BY <1>1, <1>9, <1>10, Induction
  <1>12. upto = [k \in 0..n |-> upto[k]]
    BY <1>6
  <1>13. upto \in [0..n -> Seq(NonZero)]
    BY <1>11, <1>12
  <1> QED
    BY <1>7, <1>8, <1>13

\* The first loop of print_string_ptr counts what the second writes.
LEMMA EscapesAre ==
  ASSUME NEW s \in Seq(NonZero)
  PROVE  Escapes(s) \in Seq(NonZero) /\ Len(Escapes(s)) = OutputLength(s) /\ OutputLength(s) \in Nat
  <1> DEFINE n == Len(s)
  <1>1. n \in Nat
    OBVIOUS
  <1>2. PICK f \in [0..n -> Nat] :
           /\ f[0] = 0
           /\ \A k \in 1..n : f[k] = f[k - 1] + 1 + EscapeCharacters(s[k])
           /\ OutputLength(s) = f[n]
    BY OutputLengthIs
  <1>3. PICK g \in [0..n -> Seq(NonZero)] :
           /\ g[0] = <<>>
           /\ \A k \in 1..n : g[k] = g[k - 1] \o Escape(s[k])
           /\ Escapes(s) = g[n]
    BY EscapesIs
  <1> DEFINE T == {k \in 0..n : Len(g[k]) = f[k]}
  <1>4. 0 \in T
    BY <1>1, <1>2, <1>3
  <1>5. ASSUME NEW k \in 1..n, k - 1 \in T PROVE k \in T
    <2>1. k \in 0..n /\ k - 1 \in 0..n /\ s[k] \in NonZero
      OBVIOUS
    <2>2. /\ Escape(s[k]) \in Seq(NonZero) /\ EscapeCharacters(s[k]) \in Nat
          /\ Len(Escape(s[k])) = 1 + EscapeCharacters(s[k])
      BY <2>1, EscapeIs
    <2>3. g[k - 1] \in Seq(NonZero) /\ f[k - 1] \in Nat
      BY <2>1
    <2>4. Len(g[k - 1]) = f[k - 1]
      BY <1>5
    <2> DEFINE a == g[k - 1]  b == Escape(s[k])
    <2>5. g[k] = a \o b
      BY <1>3
    <2>6. f[k] = Len(a) + Len(b)
      BY <1>2, <2>2, <2>3, <2>4
    <2>8. a \in Seq(NonZero) /\ b \in Seq(NonZero)
      BY <2>2, <2>3
    <2> HIDE DEF a, b
    <2>7. Len(a \o b) = Len(a) + Len(b)
      BY <2>8
    <2> QED
      BY <2>1, <2>5, <2>6, <2>7
  <1>6. \A k \in 0..n : k \in T
    <2> HIDE DEF T, n
    <2> QED
      BY <1>1, <1>4, <1>5, Induction
  <1>7. n \in 0..n
    BY <1>1
  <1> QED
    BY <1>2, <1>3, <1>6, <1>7

-----------------------------------------------------------------------------
(***************************************************************************)
(* What print_string_ptr writes, parse_string reads back.                  *)
(***************************************************************************)
\* Where the escape of each byte of s ends in Escapes(s).
Ends(s, ends) ==
  /\ ends \in [0..Len(s) -> Nat] /\ ends[0] = 0 /\ ends[Len(s)] = Len(Escapes(s))
  /\ \A k \in 1..Len(s) :
       /\ ends[k] = ends[k - 1] + Len(Escape(s[k]))
       /\ ends[k] <= Len(Escapes(s))
       /\ \A j \in 1..Len(Escape(s[k])) : Escapes(s)[ends[k - 1] + j] = Escape(s[k])[j]

LEMMA Longer ==
  ASSUME NEW a \in Nat, NEW x \in Nat, NEW m \in Nat, a + x <= m
  PROVE  a <= m /\ 1..a \subseteq 1..(a + x)
  OBVIOUS

LEMMA Inside ==
  ASSUME NEW a \in Nat, NEW x \in Nat, NEW j \in 1..x
  PROVE  a + j \in 1..(a + x)
  OBVIOUS

LEMMA EndsExist ==
  ASSUME NEW s \in Seq(NonZero)
  PROVE  \E ends : Ends(s, ends)
  <1>1. PICK f \in [0..Len(s) -> Seq(NonZero)] :
           /\ f[0] = <<>>
           /\ \A k \in 1..Len(s) : f[k] = f[k - 1] \o Escape(s[k])
           /\ Escapes(s) = f[Len(s)]
    BY EscapesIs
  <1> DEFINE n == Len(s)
             Begins(k) == /\ Len(f[k]) <= Len(f[n])
                          /\ \A j \in 1..Len(f[k]) : f[n][j] = f[k][j]
             T == {k \in 1..n : Begins(k)}
             ends == [k \in 0..n |-> Len(f[k])]
  <1>2. n \in Nat /\ \A k \in 1..n : s[k] \in NonZero
    OBVIOUS
  <1> HIDE DEF n
  <1>3. ASSUME NEW k \in 1..n
        PROVE  /\ f[k] \in Seq(NonZero) /\ f[k - 1] \in Seq(NonZero) /\ Escape(s[k]) \in Seq(NonZero)
               /\ Len(f[k]) = Len(f[k - 1]) + Len(Escape(s[k]))
               /\ \A j \in 1..Len(f[k - 1]) : f[k][j] = f[k - 1][j]
               /\ \A j \in 1..Len(Escape(s[k])) : f[k][Len(f[k - 1]) + j] = Escape(s[k])[j]
    <2>1. Escape(s[k]) \in Seq(NonZero)
      BY <1>2, EscapeIs
    <2>2. k \in 0..n /\ k - 1 \in 0..n
      BY <1>2
    <2>3. f[k] \in Seq(NonZero) /\ f[k - 1] \in Seq(NonZero)
      BY <1>1, <2>2 DEF n
    <2>4. f[k] = f[k - 1] \o Escape(s[k])
      BY <1>1 DEF n
    <2> PICK a, x : a = f[k - 1] /\ x = Escape(s[k])
      OBVIOUS
    <2>5. a \in Seq(NonZero) /\ x \in Seq(NonZero) /\ f[k] = a \o x
      BY <2>1, <2>3, <2>4
    <2>6. /\ Len(a \o x) = Len(a) + Len(x)
          /\ \A j \in 1..Len(a) : (a \o x)[j] = a[j]
          /\ \A j \in 1..Len(x) : (a \o x)[Len(a) + j] = x[j]
      BY <2>5
    <2> QED
      BY <2>1, <2>3, <2>5, <2>6
  <1>4. ASSUME NEW k \in 1..n, \A j \in k + 1..n : j \in T PROVE k \in T
    <2>1. CASE k = n
      <3>1. Len(f[n]) <= Len(f[n])
        BY <1>3, <2>1
      <3> QED
        BY <2>1, <3>1
    <2>2. CASE k # n
      <3>1. k + 1 \in k + 1..n /\ k + 1 \in 1..n /\ (k + 1) - 1 = k
        BY <1>2, <2>2
      <3>2. Begins(k + 1)
        BY <1>4, <3>1
      <3>3. /\ Len(f[k + 1]) = Len(f[k]) + Len(Escape(s[k + 1]))
            /\ \A j \in 1..Len(f[k]) : f[k + 1][j] = f[k][j]
            /\ Len(f[k]) \in Nat /\ Len(Escape(s[k + 1])) \in Nat /\ Len(f[n]) \in Nat
        <4>1. f[n] \in Seq(NonZero)
          BY <1>1, <1>2 DEF n
        <4> QED
          BY <1>3, <3>1, <4>1
      <3>4. Len(f[k]) <= Len(f[n]) /\ 1..Len(f[k]) \subseteq 1..Len(f[k + 1])
        <4> PICK a, c, m, x : a = Len(f[k]) /\ c = Len(f[k + 1]) /\ m = Len(f[n]) /\ x = Len(Escape(s[k + 1]))
          OBVIOUS
        <4>1. a \in Nat /\ m \in Nat /\ x \in Nat /\ c = a + x
          BY <3>3
        <4>2. a + x <= m
          BY <3>2, <4>1
        <4>3. a <= m /\ 1..a \subseteq 1..c
          BY <4>1, <4>2, Longer
        <4> QED
          BY <4>3
      <3>5. ASSUME NEW j \in 1..Len(f[k]) PROVE f[n][j] = f[k][j]
        <4>1. j \in 1..Len(f[k + 1])
          BY <3>4
        <4> QED
          BY <3>2, <3>3, <4>1
      <3> QED
        BY <3>4, <3>5
    <2> QED
      BY <2>1, <2>2
  <1>5. \A k \in 1..n : Begins(k)
    <2>1. \A k \in 1..n : (\A j \in k + 1..n : j \in T) => k \in T
      BY <1>4
    <2>2. \A k \in 1..n : k \in T
      <3> HIDE DEF T
      <3> QED
        BY <1>2, <2>1, DownInduction
    <2> QED
      BY <2>2
  <1>6. ends \in [0..n -> Nat] /\ ends[0] = 0 /\ ends[n] = Len(Escapes(s))
    <2>1. \A k \in 0..n : f[k] \in Seq(NonZero)
      BY <1>1 DEF n
    <2>2. \A k \in 0..n : Len(f[k]) \in Nat
      BY <2>1
    <2>3. Len(f[0]) = 0 /\ 0 \in 0..n /\ n \in 0..n
      BY <1>1, <1>2
    <2> QED
      BY <1>1, <2>2, <2>3 DEF n
  <1>7. ASSUME NEW k \in 1..n
        PROVE  /\ ends[k] = ends[k - 1] + Len(Escape(s[k]))
               /\ ends[k] <= Len(Escapes(s))
               /\ \A j \in 1..Len(Escape(s[k])) : Escapes(s)[ends[k - 1] + j] = Escape(s[k])[j]
    <2>1. ends[k] = Len(f[k]) /\ ends[k - 1] = Len(f[k - 1]) /\ Escapes(s) = f[n]
      BY <1>1, <1>2 DEF n
    <2> HIDE DEF ends
    <2>2. ASSUME NEW j \in 1..Len(Escape(s[k])) PROVE f[n][Len(f[k - 1]) + j] = Escape(s[k])[j]
      <3>1. Len(f[k - 1]) \in Nat /\ Len(Escape(s[k])) \in Nat
        BY <1>3
      <3>2. Len(f[k - 1]) + j \in 1..Len(f[k])
        <4> PICK a, x : a = Len(f[k - 1]) /\ x = Len(Escape(s[k]))
          OBVIOUS
        <4>1. a \in Nat /\ x \in Nat /\ j \in 1..x /\ Len(f[k]) = a + x
          BY <1>3, <3>1
        <4>3. a + j \in 1..(a + x)
          BY <4>1, Inside
        <4> QED
          BY <4>1, <4>3
      <3> QED
        BY <1>3, <1>5, <3>2
    <2> QED
      BY <1>3, <1>5, <2>1, <2>2
  <1> HIDE DEF ends
  <1>8. Ends(s, ends)
    BY <1>6, <1>7 DEF Ends, n
  <1> QED
    BY <1>8

LEMMA EscapeForm ==
  ASSUME NEW b \in NonZero
  PROVE  \/ Escape(b) = <<Backslash, b>> /\ b \in {Quote, Backslash}
         \/ \E k \in 1..5 : Escape(b) = <<Backslash, Letter[k]>> /\ Meant[k] = b
         \/ /\ b < 32
            /\ \E x \in 48..102, y \in 48..102 :
                 /\ Escape(b) = <<Backslash, 117, 48, 48, x, y>>
                 /\ HexDigit(x) >= 0 /\ HexDigit(y) >= 0 /\ HexDigit(x) * 16 + HexDigit(y) = b
         \/ Escape(b) = <<b>> /\ b \notin {Quote, Backslash}
  <1>1. b \in Nat /\ b < 256 /\ b # 0
    BY DEF NonZero, Char
  <1>2. CASE b \in {Quote, Backslash}
    BY <1>2 DEF Escape
  <1>3. CASE b \notin {Quote, Backslash} /\ b \in Controls
    <2>1. Escape(b) = <<Backslash, Letter[IndexIn(Meant, b)]>>
      BY <1>3 DEF Escape
    <2>2. DOMAIN Meant = 1..5
      BY DEF Meant
    <2>3. b \in {Meant[k] : k \in DOMAIN Meant}
      BY <1>3, <2>2 DEF Controls
    <2>4. IndexIn(Meant, b) \in 1..5 /\ Meant[IndexIn(Meant, b)] = b
      BY <2>2, <2>3, IndexIs
    <2> QED
      BY <2>1, <2>4
  <1>4. CASE b \notin {Quote, Backslash} /\ b \notin Controls /\ b < 32
    <2> DEFINE x == HexLetter(b \div 16)
               y == HexLetter(b % 16)
    <2>1. Escape(b) = <<Backslash, 117, 48, 48, x, y>>
      BY <1>4 DEF Escape
    <2>2. ASSUME NEW d \in Nat, d < 16 PROVE HexLetter(d) \in 48..102 /\ HexDigit(HexLetter(d)) = d
      BY <2>2 DEF HexLetter, HexDigit
    <2>3. /\ b \div 16 \in Nat /\ b \div 16 < 16 /\ b % 16 \in Nat /\ b % 16 < 16
          /\ (b \div 16) * 16 + (b % 16) = b
      BY <1>1, <1>4
    <2>4. /\ x \in 48..102 /\ HexDigit(x) = b \div 16
          /\ y \in 48..102 /\ HexDigit(y) = b % 16
      BY <2>2, <2>3
    <2> HIDE DEF x, y
    <2>5. HexDigit(x) >= 0 /\ HexDigit(y) >= 0 /\ HexDigit(x) * 16 + HexDigit(y) = b
      BY <2>3, <2>4
    <2> QED
      BY <1>4, <2>1, <2>4, <2>5
  <1>5. CASE b \notin {Quote, Backslash} /\ b \notin Controls /\ ~(b < 32)
    BY <1>5 DEF Escape
  <1> QED
    BY <1>2, <1>3, <1>4, <1>5

\* Nothing that ends the string is among the m bytes at p.
Passes(t, i, p, m) ==
  /\ ~Escaped(t, i)[p + m]
  /\ \A r \in p..p + m - 1 : At(t, r) = Quote => Escaped(t, i)[r]

\* The bytes of x stand at p.
Stands(t, p, x) == \A j \in 1..Len(x) : At(t, p + j - 1) = x[j]

LEMMA PassEscape ==
  ASSUME NEW t \in Seq(Char), NEW i \in 0..Len(t), NEW p \in i..Len(t), NEW b \in NonZero,
         p + Len(Escape(b)) <= Len(t), Stands(t, p, Escape(b)), ~Escaped(t, i)[p]
  PROVE  Passes(t, i, p, Len(Escape(b)))
  <1> DEFINE x == Escape(b)
             esc == Escaped(t, i)
  <1>1. p \in Nat /\ i \in Nat /\ Len(t) \in Nat
    OBVIOUS
  <1>2. ~esc[p] /\ \A r \in i + 1..Len(t) : esc[r] <=> At(t, r - 1) = Backslash /\ ~esc[r - 1]
    BY EscapedIs
  <1>3. ASSUME NEW k \in Nat, p + k < Len(t)
        PROVE  esc[p + k + 1] <=> At(t, p + k) = Backslash /\ ~esc[p + k]
    <2>1. p + k + 1 \in i + 1..Len(t) /\ (p + k + 1) - 1 = p + k
      BY <1>1, <1>3
    <2> QED
      BY <1>2, <2>1
  <1>4. Backslash # Quote /\ Quote # 117 /\ Quote # 48 /\ Backslash # 117 /\ Backslash # 48
    BY DEF Quote, Backslash
  <1> HIDE DEF esc
  <1>5. ASSUME NEW a, x = <<Backslash, a>>
        PROVE  Passes(t, i, p, Len(x))
    <2>1. Len(x) = 2 /\ x[1] = Backslash
      BY <1>5
    <2>2. At(t, p) = Backslash /\ p + 2 <= Len(t)
      <3>1. 1 \in 1..Len(x) /\ p + 1 - 1 = p
        BY <1>1, <2>1
      <3> QED
        BY <2>1, <3>1 DEF Stands
    <2>3. esc[p + 1]
      <3>1. p + 0 = p /\ p + 0 < Len(t) /\ p + 0 + 1 = p + 1 /\ 0 \in Nat
        BY <1>1, <2>2
      <3> QED
        BY <1>2, <1>3, <2>2, <3>1
    <2>4. ~esc[p + 2]
      <3>1. 1 \in Nat /\ p + 1 < Len(t) /\ p + 1 + 1 = p + 2
        BY <1>1, <2>2
      <3> QED
        BY <1>3, <2>3, <3>1
    <2>5. \A r \in p..p + 2 - 1 : r = p \/ r = p + 1
      BY <1>1
    <2> QED
      BY <1>4, <2>1, <2>2, <2>3, <2>4, <2>5 DEF Passes, esc
  <1>6. ASSUME NEW y \in 48..102, NEW z \in 48..102, HexDigit(y) >= 0, HexDigit(z) >= 0,
               x = <<Backslash, 117, 48, 48, y, z>>
        PROVE  Passes(t, i, p, Len(x))
    <2>1. y \notin {Quote, Backslash} /\ z \notin {Quote, Backslash}
      <3>1. y \in Nat /\ z \in Nat
        OBVIOUS
      <3>2. /\ y \in {Backslash, Quote} => HexDigit(y) = -1
            /\ z \in {Backslash, Quote} => HexDigit(z) = -1
        BY <3>1, HexDigitRange
      <3>3. ~(-1 >= 0)
        OBVIOUS
      <3> QED
        BY <1>6, <3>2, <3>3
    <2>2. Len(x) = 6 /\ x[1] = Backslash /\ x[2] = 117 /\ x[3] = 48 /\ x[4] = 48 /\ x[5] = y /\ x[6] = z
      BY <1>6
    <2> HIDE DEF x
    <2>3. \A j \in 1..6 : At(t, p + j - 1) = x[j]
      BY <2>2 DEF Stands, x
    <2>4. /\ At(t, p) = Backslash
          /\ \A k \in 1..5 : At(t, p + k) \notin {Quote, Backslash}
      <3>1. p + 1 - 1 = p /\ 1 \in 1..6
        BY <1>1
      <3>2. \A k \in 1..5 : k + 1 \in 1..6 /\ p + (k + 1) - 1 = p + k
        BY <1>1
      <3>3. \A k \in 1..5 : At(t, p + k) = x[k + 1]
        BY <2>3, <3>2
      <3>4. \A k \in 1..5 : k = 1 \/ k = 2 \/ k = 3 \/ k = 4 \/ k = 5
        OBVIOUS
      <3>5. /\ 1 + 1 = 2 /\ 2 + 1 = 3 /\ 3 + 1 = 4 /\ 4 + 1 = 5 /\ 5 + 1 = 6
            /\ 117 \notin {Quote, Backslash} /\ 48 \notin {Quote, Backslash}
        BY <1>4
      <3>6. \A k \in 1..5 : x[k + 1] \notin {Quote, Backslash}
        BY <2>1, <2>2, <3>4, <3>5
      <3> QED
        BY <2>2, <2>3, <3>1, <3>3, <3>6
    <2>5. p + 6 <= Len(t)
      BY <2>2 DEF x
    <2>6. ~esc[p + 6]
      <3>1. 5 \in Nat /\ p + 5 < Len(t) /\ p + 5 + 1 = p + 6 /\ 5 \in 1..5
        BY <1>1, <2>5
      <3> QED
        BY <1>3, <2>4, <3>1
    <2>7. \A r \in p..p + 6 - 1 : r = p \/ \E k \in 1..5 : r = p + k
      <3>1. ASSUME NEW r \in p..p + 6 - 1, r # p PROVE r - p \in 1..5 /\ r = p + (r - p)
        BY <1>1, <3>1
      <3> QED
        BY <3>1
    <2>8. \A r \in p..p + 6 - 1 : At(t, r) # Quote
      BY <1>4, <2>4, <2>7
    <2> QED
      BY <2>2, <2>6, <2>8 DEF Passes, esc
  <1>7. ASSUME x = <<b>>, b \notin {Quote, Backslash}
        PROVE  Passes(t, i, p, Len(x))
    <2>1. Len(x) = 1 /\ x[1] = b
      BY <1>7
    <2>2. At(t, p) = b /\ p + 1 <= Len(t)
      <3>1. 1 \in 1..Len(x) /\ p + 1 - 1 = p
        BY <1>1, <2>1
      <3> QED
        BY <2>1, <3>1 DEF Stands
    <2>3. ~esc[p + 1]
      <3>1. p + 0 = p /\ p + 0 < Len(t) /\ p + 0 + 1 = p + 1 /\ 0 \in Nat
        BY <1>1, <2>2
      <3> QED
        BY <1>3, <1>7, <2>2, <3>1
    <2>4. \A r \in p..p + 1 - 1 : r = p
      BY <1>1
    <2> QED
      BY <1>7, <2>1, <2>2, <2>3, <2>4 DEF Passes, esc
  <1> QED
    BY <1>5, <1>6, <1>7, EscapeForm

LEMMA ReadEscape ==
  ASSUME NEW t \in Seq(Char), NEW e \in Nat, e < Len(t), NEW r \in Round, NEW b \in NonZero,
         r.at + Len(Escape(b)) <= e, Stands(t, r.at, Escape(b))
  PROVE  Unescape(t, e, r) = Taken(r, Len(Escape(b)), <<b>>)
  <1> DEFINE x == Escape(b)
             at == r.at
             c == At(t, at + 1)
             literal == Utf16Literal(t, at, e)
  <1>1. at \in Nat /\ b \in Nat /\ b < 256
    BY DEF Round, NonZero, Char
  <1>2. Unescape(t, e, r) =
          IF At(t, at) # Backslash THEN Taken(r, 1, <<At(t, at)>>)
          ELSE IF c \in {Letter[k] : k \in 1..5} THEN Taken(r, 2, <<Meant[IndexIn(Letter, c)]>>)
          ELSE IF c \in {Quote, Backslash, Slash} THEN Taken(r, 2, <<c>>)
          ELSE IF c = 117 /\ literal.length > 0 THEN Taken(r, literal.length, literal.out)
          ELSE [r EXCEPT !.ok = FALSE]
    BY DEF Unescape, Taken
  <1>3. /\ DOMAIN Letter = 1..5
        /\ {Letter[k] : k \in 1..5} = {98, 102, 110, 114, 116}
        /\ \A j \in 1..5, k \in 1..5 : Letter[j] = Letter[k] => j = k
    BY DEF Letter
  <1>4. \A j \in 1..Len(x) : At(t, at + j - 1) = x[j]
    BY DEF Stands
  <1> HIDE DEF at, c, literal
  <1>5. CASE x = <<Backslash, b>> /\ b \in {Quote, Backslash}
    <2>1. Len(x) = 2 /\ x[1] = Backslash /\ x[2] = b
      BY <1>5
    <2>2. At(t, at) = Backslash /\ c = b
      <3>1. 1 \in 1..2 /\ 2 \in 1..2 /\ at + 1 - 1 = at /\ at + 2 - 1 = at + 1
        BY <1>1
      <3> QED
        BY <1>4, <2>1, <3>1 DEF c
    <2>3. c \notin {Letter[k] : k \in 1..5} /\ c \in {Quote, Backslash, Slash}
      <3>1. c \in {Quote, Backslash, Slash}
        BY <1>5, <2>2
      <3>2. c \notin {98, 102, 110, 114, 116}
        BY <1>5, <2>2 DEF Quote, Backslash
      <3> QED
        BY <1>3, <3>1, <3>2, Zenon
    <2> QED
      BY <1>2, <2>1, <2>2, <2>3
  <1>6. ASSUME NEW k \in 1..5, x = <<Backslash, Letter[k]>>, Meant[k] = b
        PROVE  Unescape(t, e, r) = Taken(r, Len(x), <<b>>)
    <2>1. Len(x) = 2 /\ x[1] = Backslash /\ x[2] = Letter[k]
      BY <1>6
    <2>2. At(t, at) = Backslash /\ c = Letter[k]
      <3>1. 1 \in 1..2 /\ 2 \in 1..2 /\ at + 1 - 1 = at /\ at + 2 - 1 = at + 1
        BY <1>1
      <3> QED
        BY <1>4, <2>1, <3>1 DEF c
    <2>3. IndexIn(Letter, c) = k
      <3>1. c \in {Letter[j] : j \in DOMAIN Letter}
        BY <1>3, <2>2
      <3>2. IndexIn(Letter, c) \in 1..5 /\ Letter[IndexIn(Letter, c)] = Letter[k]
        BY <1>3, <2>2, <3>1, IndexIs
      <3> QED
        BY <1>3, <3>2
    <2>4. c \in {Letter[j] : j \in 1..5}
      BY <2>2
    <2> QED
      BY <1>2, <1>6, <2>1, <2>2, <2>3, <2>4
  <1>7. ASSUME NEW y \in 48..102, NEW z \in 48..102, HexDigit(y) >= 0, HexDigit(z) >= 0,
               x = <<Backslash, 117, 48, 48, y, z>>, HexDigit(y) * 16 + HexDigit(z) = b, b < 32
        PROVE  Unescape(t, e, r) = Taken(r, Len(x), <<b>>)
    <2>1. Len(x) = 6 /\ x[1] = Backslash /\ x[2] = 117 /\ x[3] = 48 /\ x[4] = 48 /\ x[5] = y /\ x[6] = z
      BY <1>7
    <2>2. at + 6 <= e
      BY <2>1 DEF at
    <2> HIDE DEF x
    <2>3. /\ At(t, at) = Backslash /\ c = 117
          /\ At(t, at + 2) = 48 /\ At(t, at + 3) = 48 /\ At(t, at + 4) = y /\ At(t, at + 5) = z
      <3>1. \A j \in 1..6 : At(t, at + j - 1) = x[j]
        BY <1>4, <2>1
      <3>2. /\ at + 1 - 1 = at /\ at + 2 - 1 = at + 1 /\ at + 3 - 1 = at + 2
            /\ at + 4 - 1 = at + 3 /\ at + 5 - 1 = at + 4 /\ at + 6 - 1 = at + 5
        BY <1>1
      <3>3. At(t, at + 1 - 1) = x[1] /\ At(t, at + 2 - 1) = x[2] /\ At(t, at + 3 - 1) = x[3]
        BY <3>1
      <3>4. At(t, at + 4 - 1) = x[4] /\ At(t, at + 5 - 1) = x[5] /\ At(t, at + 6 - 1) = x[6]
        BY <3>1
      <3> QED
        BY <2>1, <3>2, <3>3, <3>4 DEF c
    <2>4. Hex4(t, at + 2) = b
      <3> DEFINE d == [k \in 0..3 |-> HexDigit(At(t, (at + 2) + k))]
      <3>1. Hex4(t, at + 2) = IF -1 \in {d[0], d[1], d[2], d[3]} THEN 0
                              ELSE ((d[0] * 16 + d[1]) * 16 + d[2]) * 16 + d[3]
        BY DEF Hex4
      <3>2. (at + 2) + 0 = at + 2 /\ (at + 2) + 1 = at + 3 /\ (at + 2) + 2 = at + 4 /\ (at + 2) + 3 = at + 5
        BY <1>1
      <3>3. /\ d[0] = HexDigit(48) /\ d[1] = HexDigit(48)
            /\ d[2] = HexDigit(y) /\ d[3] = HexDigit(z)
        BY <2>3, <3>2
      <3>4. HexDigit(48) = 0
        BY DEF HexDigit
      <3>5. HexDigit(y) \in Int /\ HexDigit(z) \in Int
        <4>1. y \in Nat /\ z \in Nat
          OBVIOUS
        <4> QED
          BY <4>1, HexDigitRange
      <3> HIDE DEF d
      <3> QED
        BY <1>7, <3>1, <3>3, <3>4, <3>5, SMTT(30)
    <2>5. literal = [length |-> 6, out |-> <<b>>]
      <3>1. ~HighSurrogate(b) /\ ~LowSurrogate(b)
        BY <1>1, <1>7, SMT DEF HighSurrogate, LowSurrogate
      <3>2. Utf8(b) = <<b>>
        BY <1>1, <1>7, Utf8One
      <3>3. ~(e - at < 6)
        BY <1>1, <2>2
      <3> QED
        BY <2>4, <3>1, <3>2, <3>3 DEF Utf16Literal, literal
    <2>6. literal.length = 6 /\ literal.out = <<b>>
      BY <2>5
    <2>7. c \notin {Letter[k] : k \in 1..5} /\ c \notin {Quote, Backslash, Slash}
      <3>1. c \notin {Quote, Backslash, Slash}
        BY <2>3 DEF Quote, Backslash, Slash
      <3>2. c \notin {98, 102, 110, 114, 116}
        BY <2>3
      <3> QED
        BY <1>3, <3>1, <3>2, Zenon
    <2> QED
      BY <1>2, <2>1, <2>3, <2>6, <2>7 DEF x
  <1>8. CASE x = <<b>> /\ b \notin {Quote, Backslash}
    <2>1. Len(x) = 1 /\ x[1] = b
      BY <1>8
    <2>2. At(t, at) = b
      <3>1. 1 \in 1..1 /\ at + 1 - 1 = at
        BY <1>1
      <3> QED
        BY <1>4, <2>1, <3>1
    <2> QED
      BY <1>2, <1>8, <2>1, <2>2
  <1> QED
    BY <1>5, <1>6, <1>7, <1>8, EscapeForm

\* The text between the quotes at o and e is s, escaped.
Quoted(t, o, e, s) ==
  /\ o \in Nat /\ e = o + 1 + Len(Escapes(s)) /\ e < Len(t)
  /\ At(t, o) = Quote /\ At(t, e) = Quote
  /\ Stands(t, o + 1, Escapes(s))

LEMMA Shift ==
  ASSUME NEW o \in Nat, NEW a \in Nat, NEW j \in Nat
  PROVE  (o + 1) + (a + j) - 1 = (o + 1 + a) + j - 1
  OBVIOUS

LEMMA Between ==
  ASSUME NEW i \in Nat, NEW a \in Nat, NEW l \in Nat, i + a <= l
  PROVE  i + a \in i..l
  OBVIOUS

LEMMA Stretch ==
  ASSUME NEW i \in Nat, NEW a \in Nat, NEW m \in Nat, NEW b, b = a + m,
         NEW e \in Nat, NEW l \in Nat, i + b <= e, e < l
  PROVE  /\ i + a <= l /\ i + b <= l /\ (i + a) + m = i + b
         /\ m >= 1 => i + a < e
         /\ \A r \in i..i + b - 1 : r \in i..i + a - 1 \/ r \in i + a..(i + a) + m - 1
  OBVIOUS

LEMMA QuotedAt ==
  ASSUME NEW t \in Seq(Char), NEW s \in Seq(NonZero), NEW o, NEW e, Quoted(t, o, e, s),
         NEW ends, Ends(s, ends), NEW k \in 1..Len(s)
  PROVE  /\ s[k] \in NonZero /\ ends[k - 1] \in Nat /\ ends[k] \in Nat
         /\ ends[k] = ends[k - 1] + Len(Escape(s[k])) /\ Len(Escape(s[k])) >= 1
         /\ o + 1 + ends[k] <= e
         /\ Stands(t, o + 1 + ends[k - 1], Escape(s[k]))
  <1>1. s[k] \in NonZero /\ k \in 0..Len(s) /\ k - 1 \in 0..Len(s)
    OBVIOUS
  <1>2. Len(Escape(s[k])) \in Nat /\ Len(Escape(s[k])) >= 1
    <2>1. EscapeCharacters(s[k]) \in Nat /\ Len(Escape(s[k])) = 1 + EscapeCharacters(s[k])
      BY <1>1, EscapeIs
    <2> QED
      BY <2>1
  <1> PICK m, x, a, b, z : m = Len(Escape(s[k])) /\ x = Escape(s[k]) /\ a = ends[k - 1] /\ b = ends[k]
                           /\ z = Len(Escapes(s))
    OBVIOUS
  <1>3. a \in Nat /\ b \in Nat /\ b = a + m /\ b <= z
    BY <1>1 DEF Ends
  <1>4. z \in Nat /\ m \in Nat
    BY <1>2, EscapesAre
  <1>5. o \in Nat /\ e = o + 1 + z
    BY DEF Quoted
  <1>6. o + 1 + b <= e
    BY <1>3, <1>4, <1>5
  <1>7. ASSUME NEW j \in 1..m PROVE At(t, (o + 1 + a) + j - 1) = x[j]
    <2>1. a + j \in 1..z
      BY <1>3, <1>4, SMTT(30)
    <2>2. At(t, (o + 1) + (a + j) - 1) = Escapes(s)[a + j]
      BY <2>1 DEF Quoted, Stands
    <2>3. (o + 1) + (a + j) - 1 = (o + 1 + a) + j - 1
      <3>1. j \in Nat
        BY <1>4
      <3> QED
        BY <1>3, <1>5, <3>1, Shift
    <2>4. Escapes(s)[a + j] = x[j]
      BY DEF Ends
    <2> QED
      BY <2>2, <2>3, <2>4
  <1> QED
    BY <1>1, <1>2, <1>3, <1>6, <1>7 DEF Stands

LEMMA ClosesThere ==
  ASSUME NEW t \in Seq(Char), NEW s \in Seq(NonZero), NEW o, NEW e, Quoted(t, o, e, s)
  PROVE  ClosingQuote(t, o + 1) = e
  <1> PICK ends : Ends(s, ends)
    BY EndsExist
  <1> DEFINE n == Len(s)
             i == o + 1
             esc == Escaped(t, i)
             T == {k \in 0..n : /\ ~esc[i + ends[k]]
                                /\ \A r \in i..i + ends[k] - 1 : At(t, r) = Quote => esc[r]}
             quotes == {p \in i..Len(t) - 1 : At(t, p) = Quote /\ ~esc[p]}
  <1>1. n \in Nat /\ o \in Nat /\ i \in Nat /\ e \in Nat /\ Len(t) \in Nat /\ e < Len(t) /\ i <= e
    <2>1. Len(Escapes(s)) \in Nat
      BY EscapesAre
    <2> PICK z : z = Len(Escapes(s))
      OBVIOUS
    <2>2. o \in Nat /\ e = o + 1 + z /\ e < Len(t)
      BY DEF Quoted
    <2> QED
      BY <2>1, <2>2
  <1>2. ends[0] = 0 /\ ends[n] = Len(Escapes(s)) /\ i + ends[n] = e
    BY DEF Ends, Quoted
  <1>3. 0 \in T
    <2>1. ~esc[i]
      <3>1. i \in 0..Len(t)
        BY <1>1
      <3> HIDE DEF i
      <3> QED
        BY <3>1, EscapedIs
    <2> HIDE DEF i, esc
    <2>2. i + 0 = i /\ i..i + 0 - 1 = {} /\ 0 \in 0..n
      BY <1>1
    <2> QED
      BY <1>2, <2>1, <2>2
  <1>4. ASSUME NEW k \in 1..n, k - 1 \in T PROVE k \in T
    <2> PICK a, b, m : a = ends[k - 1] /\ b = ends[k] /\ m = Len(Escape(s[k]))
      OBVIOUS
    <2>1. /\ s[k] \in NonZero /\ a \in Nat /\ b \in Nat /\ b = a + m /\ m >= 1
          /\ i + b <= e /\ Stands(t, i + a, Escape(s[k]))
      BY QuotedAt
    <2>2. ~esc[i + a] /\ \A r \in i..i + a - 1 : At(t, r) = Quote => esc[r]
      BY <1>4
    <2>3. i \in 0..Len(t)
      BY <1>1
    <2> HIDE DEF i
    <2>4. m \in Nat
      <3>1. Escape(s[k]) \in Seq(NonZero)
        BY <2>1, EscapeIs
      <3> QED
        BY <3>1
    <2> PICK l : l = Len(t)
      OBVIOUS
    <2>10. /\ i \in Nat /\ a \in Nat /\ b \in Nat /\ m \in Nat /\ e \in Nat /\ l \in Nat
           /\ b = a + m /\ i + b <= e /\ e < l
      BY <1>1, <2>1, <2>4
    <2>5. i + a \in i..Len(t) /\ (i + a) + m <= Len(t) /\ (i + a) + m = i + b
      <3>1. i + a \in i..l
        <4>1. i + a <= l
          BY <2>10, Stretch, SMTT(30)
        <4>2. i \in Nat /\ a \in Nat /\ l \in Nat
          BY <2>10
        <4> QED
          BY <4>1, <4>2, Between
      <3>2. i + b <= l
        BY <2>10, Stretch
      <3>3. (i + a) + m = i + b
        BY <2>10, Stretch
      <3> QED
        BY <3>1, <3>2, <3>3
    <2>6. Passes(t, i, i + a, m)
      <3>1. ~Escaped(t, i)[i + a]
        BY <2>2
      <3> HIDE DEF esc
      <3> QED
        BY <2>1, <2>3, <2>5, <3>1, PassEscape
    <2> HIDE DEF esc
    <2>7. ~esc[i + b] /\ \A r \in i + a..(i + a) + m - 1 : At(t, r) = Quote => esc[r]
      BY <2>5, <2>6 DEF Passes, esc
    <2>8. \A r \in i..i + b - 1 : r \in i..i + a - 1 \/ r \in i + a..(i + a) + m - 1
      BY <2>10, Stretch
    <2>9. k \in 0..n
      BY <1>1
    <2> QED
      BY <2>2, <2>7, <2>8, <2>9
  <1>5. n \in T
    <2>1. n \in 0..n
      BY <1>1
    <2> HIDE DEF T, n
    <2> QED
      BY <1>1, <1>3, <1>4, <2>1, Induction
  <1>6. ~esc[e] /\ \A r \in i..e - 1 : At(t, r) = Quote => esc[r]
    <2> HIDE DEF esc, i
    <2> PICK z : z = ends[n]
      OBVIOUS
    <2>1. z \in Nat /\ i + z = e
      <3>1. n \in 0..Len(s)
        BY <1>1
      <3> QED
        BY <1>2, <3>1 DEF Ends
    <2>2. i + z - 1 = e - 1
      <3> HIDE DEF n
      <3>1. i \in Nat /\ z \in Nat /\ i + z = e
        BY <1>1, <2>1
      <3>2. \A x \in Nat, y \in Nat : x + (y - 1) = (x + y) - 1
        OBVIOUS
      <3>3. i + (z - 1) = (i + z) - 1
        BY <3>1, <3>2
      <3> QED
        BY <3>1, <3>3
    <2>3. ~esc[i + z] /\ \A r \in i..i + z - 1 : At(t, r) = Quote => esc[r]
      BY <1>5
    <2> QED
      BY <2>1, <2>2, <2>3
  <1>7. ClosingQuote(t, i) = IF quotes = {} THEN -1 ELSE Min(quotes)
    BY DEF ClosingQuote
  <1> HIDE DEF esc, i
  <1>8. e \in quotes
    <2>1. At(t, e) = Quote /\ e \in i..Len(t) - 1
      BY <1>1 DEF Quoted
    <2> QED
      BY <1>6, <2>1
  <1>9. \A p \in quotes : p >= e
    <2>1. ASSUME NEW p \in quotes, ~(p >= e) PROVE FALSE
      <3>1. p \in i..e - 1
        BY <1>1, <2>1
      <3> QED
        BY <1>6, <2>1, <3>1
    <2> QED
      BY <2>1
  <1>10. quotes \in SUBSET Nat
    BY <1>1
  <1> HIDE DEF quotes
  <1>11. Min(quotes) \in quotes /\ Min(quotes) <= e
    BY <1>8, <1>10, MinIs
  <1>12. Min(quotes) = e
    <2> PICK m : m = Min(quotes)
      OBVIOUS
    <2>1. m \in Nat /\ m >= e /\ m <= e
      BY <1>9, <1>10, <1>11
    <2> QED
      BY <1>1, <2>1
  <1> QED
    BY <1>7, <1>8, <1>12 DEF i

LEMMA UnescapesThere ==
  ASSUME NEW t \in Seq(Char), NEW s \in Seq(NonZero), NEW o, NEW e, Quoted(t, o, e, s)
  PROVE  Unescaped(t, o + 1, e).ok /\ Unescaped(t, o + 1, e).out = s
  <1> PICK ends : Ends(s, ends)
    BY EndsExist
  <1> DEFINE i == o + 1
             n == Len(s)
             first == [ok |-> TRUE, at |-> i, out |-> <<>>]
             go(r) == IF r.ok /\ r.at < e THEN Unescape(t, e, r) ELSE r
             step == [k \in 1..e - i |-> [r \in Round |-> go(r)]]
             body(g) == [k \in 0..e - i |-> IF k = 0 THEN first ELSE go(g[k - 1])]
             round == CHOOSE g : g = body(g)
             Read(k) == [ok |-> TRUE, at |-> i + ends[k], out |-> SubSeq(s, 1, k)]
  <1>1. n \in Nat /\ o \in Nat /\ i \in Nat /\ e \in Nat /\ e - i \in Nat /\ e < Len(t) /\ i <= e
    <2>1. Len(Escapes(s)) \in Nat
      BY EscapesAre
    <2> PICK z : z = Len(Escapes(s))
      OBVIOUS
    <2>2. o \in Nat /\ e = o + 1 + z /\ e < Len(t)
      BY DEF Quoted
    <2> QED
      BY <2>1, <2>2
  <1>2. \A k \in 0..n : ends[k] \in Nat
    BY DEF Ends
  <1>3. ends[0] = 0 /\ i + ends[n] = e
    BY DEF Ends, Quoted
  <1>4. \A k \in 0..n : SubSeq(s, 1, k) \in Seq(NonZero) /\ SubSeq(s, 1, k) \in Seq(Char)
    <2>1. ASSUME NEW k \in 0..n PROVE SubSeq(s, 1, k) \in Seq(NonZero)
      BY <1>1
    <2> QED
      BY <2>1, SubChars
  <1>5. \A k \in 0..n : Read(k) \in Round
    <2>1. ASSUME NEW k \in 0..n PROVE i + ends[k] \in Nat /\ SubSeq(s, 1, k) \in Seq(Char)
      BY <1>1, <1>2, <1>4
    <2> QED
      BY <2>1 DEF Round
  \* One byte of s takes one round.
  <1>6. ASSUME NEW k \in 1..n
        PROVE  go(Read(k - 1)) = Read(k)
    <2> PICK a, b, m, c : a = ends[k - 1] /\ b = ends[k] /\ m = Len(Escape(s[k])) /\ c = s[k]
      OBVIOUS
    <2>1. /\ c \in NonZero /\ a \in Nat /\ b \in Nat /\ b = a + m /\ m >= 1
          /\ i + b <= e /\ Stands(t, i + a, Escape(c))
      BY QuotedAt
    <2>2. m \in Nat
      <3>1. Escape(c) \in Seq(NonZero)
        BY <2>1, EscapeIs
      <3> QED
        BY <3>1
    <2> PICK r : r = Read(k - 1)
      OBVIOUS
    <2>3. r \in Round /\ r.ok /\ r.at = i + a /\ r.out = SubSeq(s, 1, k - 1)
      <3>1. k - 1 \in 0..n
        BY <1>1
      <3> QED
        BY <1>5, <3>1
    <2> HIDE DEF i, Read
    <2>4. (i + a) + m = i + b /\ i + a < e
      <3> PICK l : l = Len(t)
        OBVIOUS
      <3>1. /\ i \in Nat /\ a \in Nat /\ b \in Nat /\ m \in Nat /\ e \in Nat /\ l \in Nat
            /\ b = a + m /\ i + b <= e /\ e < l /\ m >= 1
        BY <1>1, <2>1, <2>2
      <3>2. (i + a) + m = i + b
        BY <3>1, Stretch
      <3>3. i + a < e
        BY <3>1, Stretch, SMTT(30)
      <3> QED
        BY <3>2, <3>3
    <2>5. Unescape(t, e, r) = Taken(r, m, <<c>>)
      <3>1. r.at + Len(Escape(c)) <= e /\ Stands(t, r.at, Escape(c)) /\ Len(Escape(c)) = m
        BY <2>1, <2>3, <2>4
      <3>2. e \in Nat /\ e < Len(t) /\ r \in Round /\ c \in NonZero
        BY <1>1, <2>1, <2>3
      <3>3. Unescape(t, e, r) = Taken(r, Len(Escape(c)), <<c>>)
        BY <3>1, <3>2, ReadEscape
      <3> QED
        BY <3>1, <3>3
    <2>6. SubSeq(s, 1, k - 1) \o <<c>> = SubSeq(s, 1, k)
      BY <1>1
    <2>7. /\ Taken(r, m, <<c>>) \in Round /\ Taken(r, m, <<c>>).ok
          /\ Taken(r, m, <<c>>).at = i + b /\ Taken(r, m, <<c>>).out = SubSeq(s, 1, k)
      <3>1. c \in Char
        BY <2>1, NonZeroIs
      <3>2. <<c>> \in Seq(Char)
        BY <3>1
      <3>3. /\ Taken(r, m, <<c>>) \in Round /\ Taken(r, m, <<c>>).ok = r.ok
            /\ Taken(r, m, <<c>>).at = r.at + m /\ Taken(r, m, <<c>>).out = r.out \o <<c>>
        BY <2>2, <2>3, <3>2, TakenIs, ZenonT(60)
      <3> QED
        BY <2>3, <2>4, <2>6, <3>3
    <2>8. Taken(r, m, <<c>>) = Read(k)
      <3>1. Read(k) \in Round
        BY <1>1, <1>5
      <3>2. Read(k).ok /\ Read(k).at = i + b /\ Read(k).out = SubSeq(s, 1, k)
        BY DEF Read
      <3>3. Read(k).ok = TRUE /\ Taken(r, m, <<c>>).ok = TRUE
        BY <2>7, <3>1, <3>2 DEF Round
      <3> QED
        BY <2>7, <3>1, <3>2, <3>3, SameRound
    <2> QED
      BY <2>3, <2>4, <2>5, <2>8
  \* Once all are taken, nothing changes.
  <1>7. go(Read(n)) = Read(n)
    BY <1>1, <1>3
  <1>8. n <= e - i
    <2> DEFINE U == {k \in 0..n : k <= ends[k]}
    <2>1. 0 \in U
      BY <1>1, <1>3
    <2>2. ASSUME NEW k \in 1..n, k - 1 \in U PROVE k \in U
      <3> PICK a, b, m : a = ends[k - 1] /\ b = ends[k] /\ m = Len(Escape(s[k]))
        OBVIOUS
      <3>1. b = a + m /\ m >= 1 /\ a \in Nat /\ b \in Nat
        BY QuotedAt
      <3>2. k - 1 <= a /\ k \in Nat
        BY <1>1, <2>2
      <3>3. m \in Int
        <4>1. s[k] \in NonZero
          OBVIOUS
        <4>2. Escape(s[k]) \in Seq(NonZero)
          BY <4>1, EscapeIs
        <4> QED
          BY <4>2
      <3>4. k <= b
        BY <3>1, <3>2, <3>3
      <3> QED
        BY <1>1, <3>4
    <2>3. n \in U
      <3>1. n \in 0..n
        BY <1>1
      <3> HIDE DEF U, n
      <3> QED
        BY <1>1, <2>1, <2>2, <3>1, Induction
    <2> PICK z : z = ends[n]
      OBVIOUS
    <2>4. z \in Nat /\ n <= z /\ i + z = e
      <3>1. n \in 0..n
        BY <1>1
      <3> QED
        BY <1>2, <1>3, <2>3, <3>1
    <2> HIDE DEF n, i
    <2> QED
      BY <1>1, <2>4
  <1> DEFINE f == [k \in 0..e - i |-> IF k <= n THEN Read(k) ELSE Read(n)]
  <1>9. f = body(f)
    <2>1. ASSUME NEW k \in 0..e - i
          PROVE  f[k] = IF k = 0 THEN first ELSE go(f[k - 1])
      <3>1. CASE k = 0
        <4>1. Read(0) = first
          <5>1. SubSeq(s, 1, 0) = <<>>
            OBVIOUS
          <5>2. i + 0 = i
            BY <1>1
          <5> QED
            BY <1>3, <5>1, <5>2
        <4>2. 0 <= n
          BY <1>1
        <4> HIDE DEF Read, first
        <4> QED
          BY <3>1, <4>1, <4>2
      <3>2. CASE k # 0
        <4>1. k \in Nat /\ k - 1 \in 0..e - i
          BY <1>1, <3>2
        <4>2. f[k - 1] = IF k - 1 <= n THEN Read(k - 1) ELSE Read(n)
          BY <4>1
        <4>3. f[k] = IF k <= n THEN Read(k) ELSE Read(n)
          OBVIOUS
        <4> HIDE DEF Read, go, f, n
        <4>4. CASE k <= n
          <5>1. k \in 1..n /\ k - 1 <= n
            BY <1>1, <3>2, <4>1, <4>4
          <5> QED
            BY <1>6, <3>2, <4>2, <4>3, <4>4, <5>1
        <4>5. CASE k = n + 1
          <5>1. ~(k <= n) /\ k - 1 = n /\ n <= n
            BY <1>1, <4>5
          <5> QED
            BY <1>7, <3>2, <4>2, <4>3, <5>1
        <4>6. CASE k > n + 1
          <5>1. ~(k <= n) /\ ~(k - 1 <= n)
            BY <1>1, <4>1, <4>6
          <5> QED
            BY <1>7, <3>2, <4>2, <4>3, <5>1
        <4> QED
          BY <1>1, <4>1, <4>4, <4>5, <4>6
      <3> QED
        BY <3>1, <3>2
    <2> HIDE DEF first, go, Read
    <2> QED
      BY <2>1
  <1>10. round = body(round)
    <2> HIDE DEF first, go
    <2>1. \E g : g = body(g)
      <3> HIDE DEF f
      <3> QED
        BY <1>9
    <2> QED
      BY <2>1
  <1>11. Unescaped(t, i, e) = round[e - i]
    BY DEF Unescaped
  <1> HIDE DEF round
  <1> DEFINE V == {k \in 0..e - i : round[k] = f[k]}
  <1>12. 0 \in V
    <2> HIDE DEF first, go, f
    <2>1. 0 \in 0..e - i
      BY <1>1
    <2> QED
      BY <1>9, <1>10, <2>1
  <1>13. ASSUME NEW k \in 1..e - i, k - 1 \in V PROVE k \in V
    <2> HIDE DEF first, go, f
    <2>1. k \in 0..e - i /\ k # 0
      BY <1>1
    <2>2. round[k] = go(round[k - 1])
      BY <1>10, <2>1
    <2>3. f[k] = go(f[k - 1])
      BY <1>9, <2>1
    <2> QED
      BY <1>13, <2>1, <2>2, <2>3
  <1>14. round[e - i] = f[e - i]
    <2> PICK d : d = e - i
      OBVIOUS
    <2>1. d \in Nat /\ d \in 0..d
      BY <1>1
    <2> HIDE DEF V
    <2>2. 0 \in V /\ \A k \in 1..d : k - 1 \in V => k \in V
      BY <1>12, <1>13
    <2>3. d \in V
      BY <2>1, <2>2, Induction
    <2> QED
      BY <2>3 DEF V
  <1>15. f[e - i] = Read(n)
    <2>1. e - i \in 0..e - i
      BY <1>1
    <2> HIDE DEF Read
    <2>2. f[e - i] = IF e - i <= n THEN Read(e - i) ELSE Read(n)
      BY <2>1
    <2> HIDE DEF f, n, i
    <2>3. e - i <= n => e - i = n
      BY <1>1, <1>8
    <2> QED
      BY <2>2, <2>3
  <1>16. SubSeq(s, 1, n) = s
    OBVIOUS
  <1>17. Read(n).ok /\ Read(n).out = s
    BY <1>16
  <1> HIDE DEF f, Read
  <1> QED
    BY <1>11, <1>14, <1>15, <1>17

LEMMA SubNats ==
  ASSUME NEW s \in Seq(NonZero)
  PROVE  s \in Seq(Nat) /\ Len(s) \in Nat
  <1>1. \A k \in 1..Len(s) : s[k] \in Nat
    BY DEF NonZero, Char
  <1> QED
    BY <1>1

\* A string that print_string_ptr has written, wherever it stands in a text, is
\* read by parse_string to what it was, up to its closing quote.
THEOREM StringsReadBack ==
  ASSUME NEW s \in Seq(NonZero), NEW t \in Seq(Char), NEW o \in Nat,
         Bytes(t, o, Len(Escapes(s)) + 2) = <<Quote>> \o Escapes(s) \o <<Quote>>
  PROVE  /\ ParsedString(t, o).ok
         /\ ParsedString(t, o).out = s
         /\ ParsedString(t, o).after = o + Len(Escapes(s)) + 2
  <1> PICK x, z : x = Escapes(s) /\ z = Len(x)
    OBVIOUS
  <1> DEFINE w == <<Quote>> \o x \o <<Quote>>
             e == o + 1 + z
  <1>1. x \in Seq(NonZero) /\ z \in Nat /\ x \in Seq(Nat)
    <2>1. x \in Seq(NonZero)
      BY EscapesAre
    <2>2. Len(x) \in Nat /\ x \in Seq(Nat)
      BY <2>1, SubNats
    <2> QED
      BY <2>1, <2>2
  <1>2. /\ w \in Seq(Nat) /\ w # <<>> /\ Len(w) = z + 2
        /\ w[1] = Quote /\ w[z + 2] = Quote /\ \A j \in 1..z : w[j + 1] = x[j]
    <2>1. Quote \in Nat
      BY DEF Quote
    <2> QED
      BY <1>1, <2>1
  <1>3. Bytes(t, o, Len(w)) = w
    BY <1>2
  <1> HIDE DEF w
  <1>4. o + Len(w) <= Len(t) /\ \A k \in 1..Len(w) : At(t, o + k - 1) = w[k]
    BY <1>2, <1>3, BytesAre
  <1>5. Quoted(t, o, e, s)
    <2>1. e < Len(t)
      BY <1>1, <1>2, <1>4
    <2>2. At(t, o) = Quote /\ At(t, e) = Quote
      <3>1. o + 1 - 1 = o /\ o + (z + 2) - 1 = e /\ 1 \in 1..z + 2 /\ z + 2 \in 1..z + 2
        BY <1>1
      <3>2. At(t, o + 1 - 1) = w[1] /\ At(t, o + (z + 2) - 1) = w[z + 2]
        BY <1>2, <1>4, <3>1
      <3> QED
        BY <1>2, <3>1, <3>2
    <2>3. ASSUME NEW j \in 1..z PROVE At(t, (o + 1) + j - 1) = x[j]
      <3>1. j + 1 \in 1..z + 2 /\ o + (j + 1) - 1 = (o + 1) + j - 1
        BY <1>1
      <3> QED
        BY <1>2, <1>4, <3>1
    <2> QED
      BY <2>1, <2>2, <2>3 DEF Quoted, Stands
  <1>6. ClosingQuote(t, o + 1) = e
    BY <1>5, ClosesThere
  <1>7. Unescaped(t, o + 1, e).ok /\ Unescaped(t, o + 1, e).out = s
    BY <1>5, UnescapesThere
  <1>8. At(t, o) = Quote /\ e # -1 /\ e + 1 = o + z + 2
    BY <1>1, <1>5 DEF Quoted
  <1> HIDE DEF e
  <1> QED
    BY <1>6, <1>7, <1>8 DEF ParsedString
=============================================================================
