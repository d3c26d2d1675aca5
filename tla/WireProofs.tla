----------------------------- MODULE WireProofs -----------------------------
(***************************************************************************)
(* Proofs about one direction of a connection, for messages of any size,   *)
(* any limits and any number of messages and of faults: the wire, and the  *)
(* texts it carries.                                                       *)
(***************************************************************************)
EXTENDS WireProps, TLAPS, SequenceTheorems, WellFoundedInduction

-----------------------------------------------------------------------------
(***************************************************************************)
(* Until a byte is repeated, the bytes that are received, on their way and *)
(* still to be sent come in the order of their places in the chunks, and   *)
(* none is of a chunk that has been pulled.                                *)
(***************************************************************************)
Plaintext == {Length(n) : n \in Nat} \cup {Body(m) : m \in Message}
Byte == [chunk : Nat, pos : Nat, intact : BOOLEAN]

Before(a, b) == a.chunk < b.chunk \/ (a.chunk = b.chunk /\ a.pos < b.pos)
Rising(s) == \A i, j \in 1..Len(s) : i < j => Before(s[i], s[j])
Precedes(s, t) == \A i \in 1..Len(s), j \in 1..Len(t) : Before(s[i], t[j])

\* A byte of a chunk that has been sealed.
Placed(b) == b.chunk \in 1..Len(sealed) /\ b.pos \in 1..(sealed[b.chunk].size + ABytes)

\* A byte of a chunk that has not been pulled.
Fresh(b) == b.chunk > rx

\* Not the byte with which the chunk begins that the reader waits for.
Missed(b) == ~(b.chunk = rx + 1 /\ b.pos = 1)

Occurring(s) == {s[i] : i \in 1..Len(s)}
Afloat == Occurring(got) \cup Occurring(pipe) \cup Occurring(rest)

Types ==
  /\ sealed \in Seq(Plaintext) /\ todo \in Seq(Plaintext)
  /\ got \in Seq(Byte) /\ pipe \in Seq(Byte) /\ rest \in Seq(Byte)
  /\ net_length \in Nat /\ rx \in 0..Len(sealed)

Places == \A b \in Afloat : Placed(b)

InOrder ==
  /\ Rising(got) /\ Rising(pipe) /\ Rising(rest)
  /\ Precedes(got, pipe) /\ Precedes(got, rest) /\ Precedes(pipe, rest)
  /\ \A b \in Afloat : Fresh(b)

Astray == rx < Len(sealed) /\ \A b \in Afloat : Missed(b)

WInv ==
  /\ Types /\ Places
  /\ ~replayed => InOrder
  /\ broken /\ ~replayed => Astray

LEMMA Lengths == LenSize \in Nat /\ ABytes \in Nat /\ ABytes > 0 /\ LenSize > 0 /\ Stale \subseteq Nat
  BY WireAssumption

LEMMA Sizes == \A p \in Plaintext : p.size \in Nat /\ (p.size = LenSize => p.says \in Nat)
  <1>1. \A m \in Message : Size[m] \in Nat /\ Size[m] # LenSize
    BY WireAssumption
  <1> QED
    BY <1>1, Lengths DEF Plaintext, Length, Body

-----------------------------------------------------------------------------
(* Sequences of bytes that lose some, and two of which one is fed by the   *)
(* other.                                                                  *)
Alike(a, b) == a.chunk = b.chunk /\ a.pos = b.pos

Thinned(s, t) ==
  \E f \in [1..Len(t) -> 1..Len(s)] :
    /\ \A i, j \in 1..Len(t) : i < j => f[i] < f[j]
    /\ \A i \in 1..Len(t) : Alike(t[i], s[f[i]])

LEMMA ThinnedOrder ==
  ASSUME NEW s \in Seq(Byte), NEW t \in Seq(Byte), Thinned(s, t), Rising(s)
  PROVE  Rising(t)
  <1> PICK f \in [1..Len(t) -> 1..Len(s)] :
        /\ \A i, j \in 1..Len(t) : i < j => f[i] < f[j]
        /\ \A i \in 1..Len(t) : Alike(t[i], s[f[i]])
    BY DEF Thinned
  <1> SUFFICES ASSUME NEW i \in 1..Len(t), NEW j \in 1..Len(t), i < j
               PROVE  Before(t[i], t[j])
    BY DEF Rising
  <1>1. Before(s[f[i]], s[f[j]])
    BY DEF Rising
  <1> QED
    BY <1>1 DEF Before, Alike

LEMMA ThinnedPrecedes ==
  ASSUME NEW s1 \in Seq(Byte), NEW t1 \in Seq(Byte), Thinned(s1, t1),
         NEW s2 \in Seq(Byte), NEW t2 \in Seq(Byte), Thinned(s2, t2), Precedes(s1, s2)
  PROVE  Precedes(t1, t2)
  <1>1. PICK f \in [1..Len(t1) -> 1..Len(s1)] : \A i \in 1..Len(t1) : Alike(t1[i], s1[f[i]])
    BY DEF Thinned
  <1>2. PICK g \in [1..Len(t2) -> 1..Len(s2)] : \A i \in 1..Len(t2) : Alike(t2[i], s2[g[i]])
    BY DEF Thinned
  <1> SUFFICES ASSUME NEW i \in 1..Len(t1), NEW j \in 1..Len(t2) PROVE Before(t1[i], t2[j])
    BY DEF Precedes
  <1>3. Before(s1[f[i]], s2[g[j]])
    BY DEF Precedes
  <1> QED
    BY <1>1, <1>2, <1>3 DEF Before, Alike

LEMMA ThinnedOccurring ==
  ASSUME NEW s \in Seq(Byte), NEW t \in Seq(Byte), Thinned(s, t), NEW b \in Occurring(t)
  PROVE  \E a \in Occurring(s) : Alike(b, a)
  BY DEF Thinned, Occurring

LEMMA ThinnedSelf ==
  ASSUME NEW s \in Seq(Byte)
  PROVE  Thinned(s, s) /\ Thinned(s, <<>>) /\ <<>> \in Seq(Byte)
  <1>1. Thinned(s, s)
    <2> DEFINE f == [i \in 1..Len(s) |-> i]
    <2>1. f \in [1..Len(s) -> 1..Len(s)]
      OBVIOUS
    <2> QED
      BY <2>1 DEF Thinned, Alike
  <1>2. Thinned(s, <<>>)
    <2> DEFINE f == [i \in 1..Len(<<>>) |-> i]
    <2>1. Len(<<>>) = 0 /\ 1..0 = {}
      OBVIOUS
    <2>2. f \in [1..Len(<<>>) -> 1..Len(s)]
      BY <2>1
    <2> HIDE DEF f
    <2> QED
      BY <2>1, <2>2 DEF Thinned
  <1> QED
    BY <1>1, <1>2

LEMMA Cut ==
  ASSUME NEW s \in Seq(Byte), NEW m \in 1..(Len(s) + 1), NEW n \in (m - 1)..Len(s)
  PROVE  /\ SubSeq(s, m, n) \in Seq(Byte) /\ Len(SubSeq(s, m, n)) = n - m + 1
         /\ \A i \in 1..(n - m + 1) : SubSeq(s, m, n)[i] = s[m + i - 1]
  <1>1. m \in Int /\ n \in Int /\ \A i \in m..n : s[i] \in Byte
    OBVIOUS
  <1>2. SubSeq(s, m, n) \in Seq(Byte)
        /\ Len(SubSeq(s, m, n)) = (IF m <= n THEN n - m + 1 ELSE 0)
        /\ \A i \in 1..(n - m + 1) : SubSeq(s, m, n)[i] = s[m + i - 1]
    BY <1>1, SubSeqProperties
  <1> QED
    BY <1>2

LEMMA Altered ==
  ASSUME NEW s \in Seq(Byte), NEW i \in 1..Len(s)
  PROVE  /\ [s EXCEPT ![i].intact = FALSE] \in Seq(Byte)
         /\ Thinned(s, [s EXCEPT ![i].intact = FALSE])
         /\ Len([s EXCEPT ![i].intact = FALSE]) = Len(s)
  <1> DEFINE t == [s EXCEPT ![i].intact = FALSE]
  <1> DEFINE b == [s[i] EXCEPT !.intact = FALSE]
  <1>1. b \in Byte /\ Alike(b, s[i]) /\ t = [s EXCEPT ![i] = b]
    <2>1. s[i] \in Byte
      OBVIOUS
    <2>2. b \in Byte /\ Alike(b, s[i])
      BY <2>1 DEF Byte, Alike
    <2> QED
      BY <2>2
  <1> HIDE DEF t, b
  <1>2. t \in Seq(Byte) /\ Len(t) = Len(s)
        /\ \A j \in 1..Len(s) : t[j] = IF j = i THEN b ELSE s[j]
    BY <1>1, ExceptSeq
  <1>3. \A j \in 1..Len(s) : Alike(t[j], s[j])
    BY <1>1, <1>2 DEF Alike
  <1> DEFINE f == [j \in 1..Len(s) |-> j]
  <1>4. f \in [1..Len(t) -> 1..Len(s)]
    BY <1>2
  <1>5. Thinned(s, t)
    BY <1>2, <1>3, <1>4 DEF Thinned
  <1> QED
    BY <1>2, <1>5 DEF t

LEMMA Removed ==
  ASSUME NEW s \in Seq(Byte), NEW i \in 1..Len(s)
  PROVE  /\ RemoveAt(s, i) \in Seq(Byte) /\ Thinned(s, RemoveAt(s, i))
         /\ Len(RemoveAt(s, i)) = Len(s) - 1
  <1> DEFINE t == RemoveAt(s, i)
  <1>1. t \in Seq(Byte) /\ Len(t) = Len(s) - 1
        /\ \A j \in 1..Len(t) : t[j] = IF j < i THEN s[j] ELSE s[j + 1]
    <2> DEFINE p == SubSeq(s, 1, i - 1)
               q == SubSeq(s, i + 1, Len(s))
    <2>1. p \in Seq(Byte) /\ Len(p) = i - 1 /\ \A j \in 1..(i - 1) : p[j] = s[j]
      BY Cut
    <2>2. q \in Seq(Byte) /\ Len(q) = Len(s) - i /\ \A j \in 1..(Len(s) - i) : q[j] = s[i + j]
      BY Cut
    <2>3. t = p \o q
      BY DEF RemoveAt
    <2> HIDE DEF p, q, t
    <2>4. t \in Seq(Byte) /\ Len(t) = Len(s) - 1
      BY <2>1, <2>2, <2>3, ConcatProperties
    <2>5. ASSUME NEW j \in 1..Len(t) PROVE t[j] = IF j < i THEN s[j] ELSE s[j + 1]
      <3>1. t[j] = IF j <= Len(p) THEN p[j] ELSE q[j - Len(p)]
        BY <2>1, <2>2, <2>3, <2>4, ConcatProperties
      <3>2. CASE j < i
        BY <2>1, <3>1, <3>2
      <3>3. CASE ~(j < i)
        <4> DEFINE k == j - (i - 1)
        <4>1. k \in 1..(Len(s) - i) /\ i + k = j + 1 /\ k = j - Len(p) /\ ~(j <= Len(p))
          BY <2>1, <2>4, <3>3
        <4> HIDE DEF k
        <4>2. q[k] = s[i + k]
          BY <2>2, <4>1
        <4> QED
          BY <3>1, <3>3, <4>1, <4>2
      <3> QED
        BY <3>2, <3>3
    <2> QED
      BY <2>4, <2>5
  <1> DEFINE f == [j \in 1..Len(t) |-> IF j < i THEN j ELSE j + 1]
  <1> HIDE DEF t
  <1>2. f \in [1..Len(t) -> 1..Len(s)]
    BY <1>1
  <1>3. \A j, k \in 1..Len(t) : j < k => f[j] < f[k]
    BY <1>1
  <1>4. \A j \in 1..Len(t) : Alike(t[j], s[f[j]])
    BY <1>1 DEF Alike
  <1>5. Thinned(s, t)
    BY <1>2, <1>3, <1>4 DEF Thinned
  <1> QED
    BY <1>1, <1>5 DEF t

LEMMA Truncated ==
  ASSUME NEW s \in Seq(Byte), NEW k \in 0..Len(s)
  PROVE  SubSeq(s, 1, k) \in Seq(Byte) /\ Thinned(s, SubSeq(s, 1, k))
  <1> DEFINE t == SubSeq(s, 1, k)
  <1>1. t \in Seq(Byte) /\ Len(t) = k /\ \A j \in 1..k : t[j] = s[j]
    OBVIOUS
  <1> DEFINE f == [j \in 1..k |-> j]
  <1> HIDE DEF t
  <1>2. f \in [1..Len(t) -> 1..Len(s)]
    BY <1>1
  <1>3. Thinned(s, t)
    BY <1>1, <1>2 DEF Thinned, Alike
  <1> QED
    BY <1>1, <1>3 DEF t

LEMMA Repeated ==
  ASSUME NEW s \in Seq(Byte), NEW i \in 1..Len(s)
  PROVE  /\ InsertAt(s, i, s[i]) \in Seq(Byte)
         /\ Occurring(InsertAt(s, i, s[i])) \subseteq Occurring(s)
         /\ Len(InsertAt(s, i, s[i])) = Len(s) + 1
  <1> DEFINE p == SubSeq(s, 1, i - 1)
             q == SubSeq(s, i, Len(s))
             t == InsertAt(s, i, s[i])
  <1>1. p \in Seq(Byte) /\ Len(p) = i - 1 /\ \A j \in 1..(i - 1) : p[j] = s[j]
    BY Cut
  <1>2. q \in Seq(Byte) /\ Len(q) = Len(s) - i + 1 /\ \A j \in 1..Len(q) : q[j] = s[i + j - 1]
    BY Cut
  <1>3. t = (p \o <<s[i]>>) \o q
    BY DEF InsertAt
  <1> HIDE DEF p, q, t
  <1> DEFINE r == p \o <<s[i]>>
  <1>4. s[i] \in Byte /\ <<s[i]>> \in Seq(Byte) /\ Len(<<s[i]>>) = 1 /\ <<s[i]>>[1] = s[i]
    OBVIOUS
  <1>5. r \in Seq(Byte) /\ Len(r) = i /\ \A j \in 1..Len(r) : r[j] = s[j]
    <2>1. r \in Seq(Byte) /\ Len(r) = i
      BY <1>1, <1>4, ConcatProperties
    <2>2. \A j \in 1..i : r[j] = IF j <= Len(p) THEN p[j] ELSE <<s[i]>>[j - Len(p)]
      BY <1>1, <1>4, ConcatProperties
    <2> HIDE DEF r
    <2>3. ASSUME NEW j \in 1..i PROVE r[j] = s[j]
      <3>1. CASE j < i
        BY <1>1, <2>2, <3>1
      <3>2. CASE j = i
        <4>1. ~(j <= Len(p)) /\ j - Len(p) = 1
          BY <1>1, <3>2
        <4> QED
          BY <1>4, <2>2, <3>2, <4>1
      <3> QED
        BY <3>1, <3>2
    <2> QED
      BY <2>1, <2>3
  <1> HIDE DEF r
  <1>6. t \in Seq(Byte) /\ Len(t) = Len(s) + 1
        /\ \A j \in 1..Len(t) : t[j] = IF j <= Len(r) THEN r[j] ELSE q[j - Len(r)]
    BY <1>2, <1>3, <1>5, ConcatProperties DEF r
  <1>7. ASSUME NEW j \in 1..Len(t) PROVE \E k \in 1..Len(s) : t[j] = s[k]
    <2>1. CASE j <= i
      BY <1>5, <1>6, <2>1
    <2>2. CASE j > i
      <3> DEFINE k == j - i
      <3>1. k \in 1..Len(q) /\ k = j - Len(r) /\ ~(j <= Len(r)) /\ i + k - 1 \in 1..Len(s)
        BY <1>2, <1>5, <1>6, <2>2
      <3> HIDE DEF k
      <3>2. q[k] = s[i + k - 1]
        BY <1>2, <3>1
      <3> QED
        BY <1>6, <3>1, <3>2
    <2> QED
      BY <2>1, <2>2, <1>6
  <1>8. Occurring(t) \subseteq Occurring(s)
    BY <1>7 DEF Occurring
  <1> QED
    BY <1>6, <1>8 DEF t

\* The first n bytes of t go over to the end of s.
FedBy(s, t, n) == s \o SubSeq(t, 1, n)
LeftOf(t, n) == SubSeq(t, n + 1, Len(t))

LEMMA Fed ==
  ASSUME NEW s \in Seq(Byte), NEW t \in Seq(Byte), NEW n \in 1..Len(t)
  PROVE  /\ FedBy(s, t, n) \in Seq(Byte) /\ LeftOf(t, n) \in Seq(Byte)
         /\ Occurring(FedBy(s, t, n)) \cup Occurring(LeftOf(t, n))
              \subseteq Occurring(s) \cup Occurring(t)
         /\ Rising(s) /\ Rising(t) /\ Precedes(s, t) =>
              /\ Rising(FedBy(s, t, n)) /\ Rising(LeftOf(t, n))
              /\ Precedes(FedBy(s, t, n), LeftOf(t, n))
         /\ \A w \in Seq(Byte) : Precedes(s, w) /\ Precedes(t, w) =>
              Precedes(FedBy(s, t, n), w) /\ Precedes(LeftOf(t, n), w)
         /\ \A w \in Seq(Byte) : Precedes(w, s) /\ Precedes(w, t) =>
              Precedes(w, FedBy(s, t, n)) /\ Precedes(w, LeftOf(t, n))
  <1> DEFINE u == FedBy(s, t, n)
             v == LeftOf(t, n)
  <1> DEFINE p == SubSeq(t, 1, n)
  <1>1. p \in Seq(Byte) /\ Len(p) = n /\ \A i \in 1..n : p[i] = t[i]
    BY Cut
  <1>2. u = s \o p /\ v = SubSeq(t, n + 1, Len(t))
    BY DEF FedBy, LeftOf
  <1> HIDE DEF p, u, v
  <1>20. u \in Seq(Byte) /\ Len(u) = Len(s) + n
         /\ \A i \in 1..Len(u) : u[i] = IF i <= Len(s) THEN s[i] ELSE p[i - Len(s)]
    <2>1. u \in Seq(Byte) /\ Len(u) = Len(s) + n
      BY <1>1, <1>2, ConcatProperties
    <2>2. \A i \in 1..(Len(s) + Len(p)) : u[i] = IF i <= Len(s) THEN s[i] ELSE p[i - Len(s)]
      BY <1>1, <1>2, ConcatProperties
    <2> QED
      BY <1>1, <2>1, <2>2
  <1>3. \A i \in 1..Len(u) : IF i <= Len(s) THEN u[i] = s[i]
                             ELSE i - Len(s) \in 1..n /\ u[i] = t[i - Len(s)]
    BY <1>1, <1>20
  <1>4. /\ v \in Seq(Byte) /\ Len(v) = Len(t) - n
        /\ \A i \in 1..Len(v) : v[i] = t[i + n] /\ i + n \in 1..Len(t)
    BY <1>2, Cut
  <1>5. Occurring(u) \cup Occurring(v) \subseteq Occurring(s) \cup Occurring(t)
    <2>1. ASSUME NEW i \in 1..Len(u) PROVE u[i] \in Occurring(s) \cup Occurring(t)
      <3>1. CASE i <= Len(s)
        <4>1. i \in 1..Len(s) /\ u[i] = s[i]
          BY <1>3, <1>20, <3>1
        <4> QED
          BY <4>1 DEF Occurring
      <3>2. CASE ~(i <= Len(s))
        <4> DEFINE k == i - Len(s)
        <4>1. k \in 1..Len(t) /\ u[i] = t[k]
          BY <1>3, <3>2
        <4> HIDE DEF k
        <4> QED
          BY <4>1 DEF Occurring
      <3> QED
        BY <3>1, <3>2
    <2>2. ASSUME NEW i \in 1..Len(v) PROVE v[i] \in Occurring(t)
      <3> DEFINE k == i + n
      <3>1. k \in 1..Len(t) /\ v[i] = t[k]
        BY <1>4
      <3> HIDE DEF k
      <3> QED
        BY <3>1 DEF Occurring
    <2> QED
      BY <2>1, <2>2 DEF Occurring
  <1>6. ASSUME Rising(t) PROVE Rising(v)
    <2> SUFFICES ASSUME NEW i \in 1..Len(v), NEW j \in 1..Len(v), i < j PROVE Before(v[i], v[j])
      BY DEF Rising
    <2>1. i + n \in 1..Len(t) /\ v[i] = t[i + n]
      BY <1>4
    <2>2. j + n \in 1..Len(t) /\ v[j] = t[j + n]
      BY <1>4
    <2>3. i + n < j + n
      BY <1>4
    <2> QED
      BY <1>6, <2>1, <2>2, <2>3 DEF Rising
  <1>7. ASSUME Rising(t), Precedes(s, t) PROVE Precedes(u, v)
    <2> SUFFICES ASSUME NEW i \in 1..Len(u), NEW j \in 1..Len(v) PROVE Before(u[i], v[j])
      BY DEF Precedes
    <2>1. v[j] = t[j + n] /\ j + n \in 1..Len(t)
      BY <1>4
    <2>2. CASE i <= Len(s)
      BY <1>3, <1>7, <2>1, <2>2 DEF Precedes
    <2>3. CASE ~(i <= Len(s))
      <3>1. i - Len(s) \in 1..n /\ u[i] = t[i - Len(s)]
        BY <1>3, <2>3
      <3> DEFINE k == i - Len(s)
                 l == j + n
      <3>2. k \in 1..Len(t) /\ l \in 1..Len(t) /\ k < l /\ u[i] = t[k] /\ v[j] = t[l]
        BY <1>4, <2>1, <3>1
      <3> QED
        BY <1>7, <3>2 DEF Rising
    <2> QED
      BY <2>2, <2>3
  <1>8. ASSUME Rising(s), Rising(t), Precedes(s, t) PROVE Rising(u)
    <2> SUFFICES ASSUME NEW i \in 1..Len(u), NEW j \in 1..Len(u), i < j PROVE Before(u[i], u[j])
      BY DEF Rising
    <2>1. CASE j <= Len(s)
      BY <1>20, <1>3, <1>8, <2>1 DEF Rising
    <2>2. CASE i <= Len(s) /\ ~(j <= Len(s))
      <3> DEFINE l == j - Len(s)
      <3>1. i \in 1..Len(s) /\ l \in 1..Len(t) /\ u[i] = s[i] /\ u[j] = t[l]
        BY <1>20, <1>3, <2>2
      <3> HIDE DEF l
      <3> QED
        BY <1>8, <3>1 DEF Precedes
    <2>3. CASE ~(i <= Len(s))
      <3> DEFINE k == i - Len(s)
                 l == j - Len(s)
      <3>1. ~(j <= Len(s)) /\ k < l
        BY <1>20, <2>3
      <3>2. k \in 1..Len(t) /\ l \in 1..Len(t) /\ u[i] = t[k] /\ u[j] = t[l]
        BY <1>3, <2>3, <3>1
      <3> HIDE DEF k, l
      <3> QED
        BY <1>8, <3>1, <3>2 DEF Rising
    <2> QED
      BY <1>20, <2>1, <2>2, <2>3
  <1>9. ASSUME NEW w \in Seq(Byte), Precedes(s, w), Precedes(t, w)
        PROVE  Precedes(u, w) /\ Precedes(v, w)
    <2>1. Precedes(v, w)
      BY <1>4, <1>9 DEF Precedes
    <2>2. ASSUME NEW i \in 1..Len(u), NEW j \in 1..Len(w) PROVE Before(u[i], w[j])
      <3>1. CASE i <= Len(s)
        <4>1. i \in 1..Len(s) /\ u[i] = s[i]
          BY <1>20, <1>3, <3>1
        <4> QED
          BY <1>9, <4>1 DEF Precedes
      <3>2. CASE ~(i <= Len(s))
        <4> DEFINE k == i - Len(s)
        <4>1. k \in 1..Len(t) /\ u[i] = t[k]
          BY <1>3, <3>2
        <4> QED
          BY <1>9, <4>1 DEF Precedes
      <3> QED
        BY <3>1, <3>2
    <2> QED
      BY <2>1, <2>2 DEF Precedes
  <1>10. ASSUME NEW w \in Seq(Byte), Precedes(w, s), Precedes(w, t)
         PROVE  Precedes(w, u) /\ Precedes(w, v)
    <2>1. Precedes(w, v)
      BY <1>4, <1>10 DEF Precedes
    <2>2. ASSUME NEW i \in 1..Len(u), NEW j \in 1..Len(w) PROVE Before(w[j], u[i])
      <3>1. CASE i <= Len(s)
        <4>1. i \in 1..Len(s) /\ u[i] = s[i]
          BY <1>20, <1>3, <3>1
        <4> QED
          BY <1>10, <4>1 DEF Precedes
      <3>2. CASE ~(i <= Len(s))
        <4> DEFINE k == i - Len(s)
        <4>1. k \in 1..Len(t) /\ u[i] = t[k]
          BY <1>3, <3>2
        <4> QED
          BY <1>10, <4>1 DEF Precedes
      <3> QED
        BY <3>1, <3>2
    <2> QED
      BY <2>1, <2>2 DEF Precedes
  <1> QED
    BY <1>20, <1>4, <1>5, <1>6, <1>7, <1>8, <1>9, <1>10 DEF u, v

-----------------------------------------------------------------------------
(***************************************************************************)
(* The invariant.                                                          *)
(***************************************************************************)
LEMMA Occurrences ==
  ASSUME Types
  PROVE  \A b \in Afloat : b \in Byte
  BY DEF Types, Afloat, Occurring

LEMMA Thinner ==
  ASSUME WInv, UNCHANGED <<sealed, rx, broken, replayed>>,
         todo' \in Seq(Plaintext), net_length' \in Nat,
         got' \in Seq(Byte), pipe' \in Seq(Byte), rest' \in Seq(Byte),
         Thinned(got, got'), Thinned(pipe, pipe'), Thinned(rest, rest')
  PROVE  WInv'
  <1>1. Types /\ Types'
    BY DEF WInv, Types
  <1>2. ASSUME NEW b \in Afloat' PROVE \E a \in Afloat : Alike(b, a)
    <2>1. CASE b \in Occurring(got)'
      BY <1>1, <2>1, ThinnedOccurring DEF Afloat, Types, Occurring
    <2>2. CASE b \in Occurring(pipe)'
      BY <1>1, <2>2, ThinnedOccurring DEF Afloat, Types, Occurring
    <2>3. CASE b \in Occurring(rest)'
      BY <1>1, <2>3, ThinnedOccurring DEF Afloat, Types, Occurring
    <2> QED
      BY <1>2, <2>1, <2>2, <2>3 DEF Afloat
  <1>3. Places'
    BY <1>2 DEF WInv, Places, Placed, Alike
  <1>4. ASSUME InOrder PROVE InOrder'
    <2>1. Rising(got)' /\ Rising(pipe)' /\ Rising(rest)'
      BY <1>1, <1>4, ThinnedOrder DEF InOrder, Types, Rising
    <2>2. Precedes(got, pipe)' /\ Precedes(got, rest)' /\ Precedes(pipe, rest)'
      <3>1. got \in Seq(Byte) /\ pipe \in Seq(Byte) /\ rest \in Seq(Byte)
        BY <1>1 DEF Types
      <3>2. Precedes(got, pipe) /\ Precedes(got, rest) /\ Precedes(pipe, rest)
        BY <1>4 DEF InOrder
      <3>3. Precedes(got', pipe') /\ Precedes(got', rest') /\ Precedes(pipe', rest')
        BY <3>1, <3>2, ThinnedPrecedes
      <3> QED
        BY <3>3 DEF Precedes
    <2>3. \A b \in Afloat' : Fresh(b)'
      BY <1>2, <1>4 DEF InOrder, Fresh, Alike
    <2> QED
      BY <2>1, <2>2, <2>3 DEF InOrder
  <1>5. ASSUME Astray PROVE Astray'
    BY <1>2, <1>5 DEF Astray, Missed, Alike
  <1> QED
    BY <1>1, <1>3, <1>4, <1>5 DEF WInv

\* A step that only moves bytes on.
LEMMA Moved ==
  ASSUME WInv, Types', UNCHANGED <<sealed, rx, broken, replayed>>, Afloat' \subseteq Afloat,
         InOrder => Rising(got)' /\ Rising(pipe)' /\ Rising(rest)'
                    /\ Precedes(got, pipe)' /\ Precedes(got, rest)' /\ Precedes(pipe, rest)'
  PROVE  WInv'
  <1>1. Places'
    BY DEF WInv, Places, Placed
  <1>2. InOrder => InOrder'
    BY DEF InOrder, Fresh
  <1>3. Astray => Astray'
    BY DEF Astray, Missed
  <1> QED
    BY <1>1, <1>2, <1>3 DEF WInv

LEMMA RecvStep ==
  ASSUME WInv, NEW n \in 1..Len(pipe), Recv(n)
  PROVE  WInv'
  <1>1. Types
    BY DEF WInv
  <1>2. UNCHANGED <<sealed, todo, rest, rx, broken, replayed, net_length>>
    BY DEF Recv, writer
  <1>3. got' = FedBy(got, pipe, n) /\ pipe' = LeftOf(pipe, n)
    BY DEF Recv, Received, FedBy, LeftOf
  <1>4. /\ got' \in Seq(Byte) /\ pipe' \in Seq(Byte)
        /\ Occurring(got') \cup Occurring(pipe') \subseteq Occurring(got) \cup Occurring(pipe)
        /\ Rising(got) /\ Rising(pipe) /\ Precedes(got, pipe) =>
             Rising(got') /\ Rising(pipe') /\ Precedes(got', pipe')
        /\ \A w \in Seq(Byte) : Precedes(got, w) /\ Precedes(pipe, w) =>
             Precedes(got', w) /\ Precedes(pipe', w)
    <2>1. got \in Seq(Byte) /\ pipe \in Seq(Byte)
      BY <1>1 DEF Types
    <2> QED
      BY <1>3, <2>1, Fed
  <1>5. Types'
    BY <1>1, <1>2, <1>4 DEF Types
  <1>6. Afloat' \subseteq Afloat
    BY <1>2, <1>4 DEF Afloat, Occurring
  <1>7. InOrder => Rising(got') /\ Rising(pipe') /\ Precedes(got', pipe')
                   /\ Precedes(got', rest) /\ Precedes(pipe', rest) /\ Rising(rest)
    BY <1>1, <1>4 DEF InOrder, Types
  <1>8. InOrder => Rising(got)' /\ Rising(pipe)' /\ Rising(rest)'
                   /\ Precedes(got, pipe)' /\ Precedes(got, rest)' /\ Precedes(pipe, rest)'
    BY <1>2, <1>7 DEF Rising, Precedes
  <1> QED
    BY <1>2, <1>5, <1>6, <1>8, Moved

LEMMA SendStep ==
  ASSUME WInv, NEW n \in 1..Len(rest), Send(n)
  PROVE  WInv'
  <1>1. Types
    BY DEF WInv
  <1>2. UNCHANGED <<sealed, todo, got, rx, broken, replayed, net_length>>
    BY DEF Send, reader
  <1>3. pipe' = FedBy(pipe, rest, n) /\ rest' = LeftOf(rest, n)
    BY DEF Send, Unsent, FedBy, LeftOf
  <1>4. /\ pipe' \in Seq(Byte) /\ rest' \in Seq(Byte)
        /\ Occurring(pipe') \cup Occurring(rest') \subseteq Occurring(pipe) \cup Occurring(rest)
        /\ Rising(pipe) /\ Rising(rest) /\ Precedes(pipe, rest) =>
             Rising(pipe') /\ Rising(rest') /\ Precedes(pipe', rest')
        /\ \A w \in Seq(Byte) : Precedes(w, pipe) /\ Precedes(w, rest) =>
             Precedes(w, pipe') /\ Precedes(w, rest')
    <2>1. pipe \in Seq(Byte) /\ rest \in Seq(Byte)
      BY <1>1 DEF Types
    <2> QED
      BY <1>3, <2>1, Fed
  <1>5. Types'
    BY <1>1, <1>2, <1>4 DEF Types
  <1>6. Afloat' \subseteq Afloat
    BY <1>2, <1>4 DEF Afloat, Occurring
  <1>7. InOrder => Rising(pipe') /\ Rising(rest') /\ Precedes(pipe', rest')
                   /\ Precedes(got, pipe') /\ Precedes(got, rest') /\ Rising(got)
    BY <1>1, <1>4 DEF InOrder, Types
  <1>8. InOrder => Rising(got)' /\ Rising(pipe)' /\ Rising(rest)'
                   /\ Precedes(got, pipe)' /\ Precedes(got, rest)' /\ Precedes(pipe, rest)'
    BY <1>2, <1>7 DEF Rising, Precedes
  <1> QED
    BY <1>2, <1>5, <1>6, <1>8, Moved

LEMMA CipherBytes ==
  ASSUME NEW k \in Nat, NEW p, p.size + ABytes \in Nat
  PROVE  /\ Cipher(k, p) \in Seq(Byte) /\ Len(Cipher(k, p)) = p.size + ABytes
         /\ \A i \in 1..Len(Cipher(k, p)) :
              Cipher(k, p)[i] = [chunk |-> k, pos |-> i, intact |-> TRUE]
  <1> DEFINE n == p.size + ABytes
             s == Cipher(k, p)
  <1>1. s = [i \in 1..n |-> [chunk |-> k, pos |-> i, intact |-> TRUE]]
    BY DEF Cipher
  <1> HIDE DEF n, s
  <1>2. n \in Nat
    BY DEF n
  <1>3. s \in [1..n -> Byte]
    BY <1>1, <1>2 DEF Byte
  <1>4. s \in Seq(Byte)
    BY <1>2, <1>3, SeqDef
  <1>5. Len(s) = n
    BY <1>2, <1>3, <1>4, LenProperties
  <1> QED
    BY <1>1, <1>4, <1>5 DEF n, s

LEMMA PushStep ==
  ASSUME WInv, Push
  PROVE  WInv'
  <1> DEFINE p == Head(todo)
             k == Len(sealed) + 1
  <1>1. Types /\ rest = <<>>
    BY DEF WInv, Push
  <1>2. p \in Plaintext /\ todo' \in Seq(Plaintext)
    BY <1>1 DEF Push, Types
  <1>3. UNCHANGED <<got, pipe, net_length, rx, broken, replayed>>
    BY DEF Push, reader
  <1>4. sealed' = Append(sealed, p) /\ rest' = Cipher(k, p)
    BY DEF Push
  <1>5. /\ sealed' \in Seq(Plaintext) /\ Len(sealed') = k /\ sealed'[k] = p
        /\ \A i \in 1..Len(sealed) : sealed'[i] = sealed[i]
    BY <1>1, <1>2, <1>4 DEF Types
  <1>6. p.size + ABytes \in Nat /\ k \in Nat
    BY <1>1, <1>2, Sizes, Lengths DEF Types
  <1> HIDE DEF p, k
  <1>7. /\ rest' \in Seq(Byte) /\ Len(rest') = p.size + ABytes
        /\ \A i \in 1..Len(rest') : rest'[i] = [chunk |-> k, pos |-> i, intact |-> TRUE]
    BY <1>4, <1>6, CipherBytes
  <1>8. Types'
    BY <1>1, <1>2, <1>3, <1>5, <1>7 DEF Types, k
  <1>70. \A i \in 1..Len(rest') : /\ rest'[i].chunk = k /\ rest'[i].pos = i
                                  /\ i \in 1..(p.size + ABytes)
    <2>1. 1..Len(rest') = 1..(p.size + ABytes)
      BY <1>7
    <2>2. ASSUME NEW i \in 1..Len(rest') PROVE rest'[i].chunk = k /\ rest'[i].pos = i
      <3>1. rest'[i] = [chunk |-> k, pos |-> i, intact |-> TRUE]
        BY <1>7
      <3> QED
        BY <3>1
    <2> QED
      BY <2>1, <2>2
  <1>9. ASSUME NEW b \in Afloat'
        PROVE  b \in Afloat \/ (b.chunk = k /\ b.pos \in 1..(p.size + ABytes))
    <2>1. b \in Occurring(got) \/ b \in Occurring(pipe) \/ b \in Occurring(rest')
      BY <1>3, <1>9 DEF Afloat, Occurring
    <2>2. CASE b \in Occurring(rest')
      <3>1. PICK i \in 1..Len(rest') : b = rest'[i]
        BY <2>2 DEF Occurring
      <3> QED
        BY <1>70, <3>1
    <2> QED
      BY <2>1, <2>2 DEF Afloat
  <1>10. \A b \in Afloat : b.chunk \in 1..Len(sealed) /\ b.chunk < k
    BY <1>1 DEF WInv, Places, Placed, k, Types
  <1>11. Places'
    <2> SUFFICES ASSUME NEW b \in Afloat' PROVE Placed(b)'
      BY DEF Places
    <2>1. CASE b \in Afloat
      BY <1>1, <1>5, <1>10, <2>1 DEF WInv, Places, Placed, k, Types
    <2>2. CASE b.chunk = k /\ b.pos \in 1..(p.size + ABytes)
      BY <1>5, <1>6, <2>2 DEF Placed, k
    <2> QED
      BY <1>9, <2>1, <2>2
  <1>12. ASSUME InOrder PROVE InOrder'
    <2>1. Rising(got)' /\ Rising(pipe)' /\ Precedes(got, pipe)'
      BY <1>3, <1>12 DEF InOrder, Rising, Precedes
    <2>2. Rising(rest)'
      <3>1. ASSUME NEW i \in 1..Len(rest'), NEW j \in 1..Len(rest'), i < j
            PROVE  Before(rest'[i], rest'[j])
        BY <1>70, <3>1 DEF Before
      <3>2. Rising(rest')
        BY <3>1 DEF Rising
      <3> QED
        BY <3>2 DEF Rising
    <2>3. \A i \in 1..Len(got) : got[i].chunk < k
      BY <1>10 DEF Afloat, Occurring
    <2>4. \A i \in 1..Len(pipe) : pipe[i].chunk < k
      BY <1>10 DEF Afloat, Occurring
    <2>5. Precedes(got, rest)' /\ Precedes(pipe, rest)'
      <3>1. Precedes(got, rest') /\ Precedes(pipe, rest')
        BY <1>70, <2>3, <2>4 DEF Precedes, Before
      <3> QED
        BY <1>3, <3>1 DEF Precedes
    <2>6. \A b \in Afloat' : Fresh(b)'
      <3>1. rx < k
        BY <1>1 DEF k, Types
      <3> QED
        BY <1>3, <1>9, <1>12, <3>1 DEF InOrder, Fresh
    <2> QED
      BY <2>1, <2>2, <2>5, <2>6 DEF InOrder
  <1>13. ASSUME Astray PROVE Astray'
    <2>1. rx < Len(sealed) /\ rx \in Nat /\ Len(sealed) \in Nat
      BY <1>1, <1>13 DEF Astray, Types
    <2>2. rx' < Len(sealed') /\ k > rx + 1
      BY <1>3, <1>5, <2>1 DEF k
    <2>3. \A b \in Afloat' : Missed(b)'
      BY <1>3, <1>9, <1>13, <2>1, <2>2 DEF Astray, Missed
    <2> QED
      BY <2>2, <2>3 DEF Astray
  <1> QED
    BY <1>3, <1>8, <1>11, <1>12, <1>13 DEF WInv

\* A chunk is pulled: what is still under way is of later chunks.
LEMMA PulledStep ==
  ASSUME WInv, Pulled, rx' = rx + 1, got' = <<>>, net_length' \in Nat,
         UNCHANGED <<sealed, todo, rest, pipe, broken, replayed>>
  PROVE  WInv' /\ ~(broken /\ ~replayed)
  <1> DEFINE k == rx + 1
             n == sealed[k].size + ABytes
  <1>1. Types /\ Places /\ k \in 1..Len(sealed) /\ got = Cipher(k, sealed[k]) /\ k \in Nat
    BY DEF WInv, Pulled, Opens, Types
  <1>2. n \in Nat /\ n >= 1
    <2>1. sealed[k] \in Plaintext
      BY <1>1 DEF Types
    <2>2. sealed[k].size \in Nat /\ ABytes \in Nat /\ ABytes > 0
      BY <2>1, Sizes, Lengths
    <2> QED
      BY <2>2
  <1> HIDE DEF k, n
  <1>3. Len(got) = n /\ \A i \in 1..n : got[i] = [chunk |-> k, pos |-> i, intact |-> TRUE]
    BY <1>1, <1>2 DEF Cipher, n
  <1>4. ~(broken /\ ~replayed)
    <2>1. got[1] \in Afloat /\ ~Missed(got[1])
      BY <1>2, <1>3 DEF Afloat, Occurring, Missed, k
    <2> QED
      BY <2>1 DEF WInv, Astray
  <1>5. <<>> \in Seq(Byte) /\ Len(<<>>) = 0
    OBVIOUS
  <1>6. Types'
    BY <1>1, <1>5 DEF Types, k
  <1>7. Afloat' = Occurring(pipe) \cup Occurring(rest) /\ Afloat' \subseteq Afloat
    BY <1>5 DEF Afloat, Occurring
  <1>8. Places'
    BY <1>1, <1>7 DEF Places, Placed
  <1>9. ASSUME InOrder PROVE InOrder'
    <2>1. Rising(got)' /\ Precedes(got, pipe)' /\ Precedes(got, rest)'
      BY <1>5 DEF Rising, Precedes
    <2>2. Rising(pipe)' /\ Rising(rest)' /\ Precedes(pipe, rest)'
      BY <1>9 DEF InOrder, Rising, Precedes
    <2>3. ASSUME NEW b \in Afloat' PROVE Fresh(b)'
      <3>1. Before(got[n], b)
        BY <1>2, <1>3, <1>7, <1>9, <2>3 DEF InOrder, Precedes, Occurring
      <3>2. b \in Byte /\ b.chunk > rx /\ Placed(b)
        BY <1>1, <1>7, <1>9, <2>3, Occurrences DEF InOrder, Fresh, Places
      <3>3. got[n].chunk = k /\ got[n].pos = n
        BY <1>2, <1>3
      <3>4. b.chunk \in Nat /\ b.pos \in Nat
        BY <3>2 DEF Byte
      <3>5. b.chunk # k
        <4> SUFFICES ASSUME b.chunk = k PROVE FALSE
          OBVIOUS
        <4>1. b.pos \in 1..n
          BY <3>2 DEF Placed, n
        <4> QED
          BY <1>1, <1>2, <3>1, <3>3, <3>4, <4>1 DEF Before
      <3> QED
        BY <1>1, <3>2, <3>4, <3>5 DEF Fresh, k, Types
    <2> QED
      BY <2>1, <2>2, <2>3 DEF InOrder
  <1> QED
    BY <1>4, <1>6, <1>8, <1>9 DEF WInv

\* The reader gives up a chunk: if it was full, the next one never opens.
LEMMA FailedStep ==
  ASSUME WInv, Failed, UNCHANGED <<writer, pipe, replayed>>
  PROVE  WInv'
  <1>1. Types /\ Places
    BY DEF WInv
  <1>2. UNCHANGED <<sealed, todo, rest, pipe, rx, net_length, replayed>> /\ got' = <<>>
    BY DEF Failed, writer
  <1>3. Thinned(got, got') /\ got' \in Seq(Byte)
    BY <1>1, <1>2, ThinnedSelf DEF Types
  <1>4. Thinned(pipe, pipe') /\ Thinned(rest, rest') /\ pipe' \in Seq(Byte) /\ rest' \in Seq(Byte)
    BY <1>1, <1>2, ThinnedSelf DEF Types
  <1>5. todo' \in Seq(Plaintext) /\ net_length' \in Nat
    BY <1>1, <1>2 DEF Types
  <1>6. CASE broken' = broken
    BY <1>2, <1>3, <1>4, <1>5, <1>6, Thinner
  <1>7. CASE Full /\ ~Opens(rx + 1) /\ broken' = TRUE
    <2>1. Wanted \in Nat /\ Wanted >= 1
      BY <1>1, Lengths DEF Wanted, Types
    <2>2. Len(got) >= 1 /\ got[1] \in Afloat
      BY <1>7, <2>1 DEF Full, Afloat, Occurring
    <2>3. Len(<<>>) = 0 /\ 1..0 = {}
      OBVIOUS
    <2>4. Afloat' = Occurring(pipe) \cup Occurring(rest) /\ Afloat' \subseteq Afloat
      BY <1>2, <2>3 DEF Afloat, Occurring
    <2>5. Types' /\ Places'
      BY <1>1, <1>2, <1>3, <2>4 DEF Types, Places, Placed
    <2>6. ASSUME InOrder PROVE InOrder'
      <3>1. Rising(got)' /\ Precedes(got, pipe)' /\ Precedes(got, rest)'
        BY <1>2, <2>3 DEF Rising, Precedes
      <3>2. Rising(pipe)' /\ Rising(rest)' /\ Precedes(pipe, rest)'
        BY <1>2, <2>6 DEF InOrder, Rising, Precedes
      <3>3. \A b \in Afloat' : Fresh(b)'
        BY <1>2, <2>4, <2>6 DEF InOrder, Fresh
      <3> QED
        BY <3>1, <3>2, <3>3 DEF InOrder
    <2>7. ASSUME InOrder PROVE Astray'
      <3>1. got[1] \in Byte /\ got[1].chunk > rx /\ Placed(got[1])
        BY <1>1, <2>2, <2>7, Occurrences DEF InOrder, Fresh, Places
      <3>2. got[1].chunk \in Nat /\ got[1].pos \in Nat /\ got[1].pos >= 1 /\ rx < Len(sealed)
        BY <1>1, <3>1 DEF Byte, Placed, Types
      <3>3. ASSUME NEW b \in Afloat' PROVE Missed(b)
        <4>1. Before(got[1], b) /\ b \in Byte
          BY <1>1, <2>2, <2>4, <2>7, <3>3, Occurrences DEF InOrder, Precedes, Occurring
        <4> QED
          BY <1>1, <3>1, <3>2, <4>1 DEF Before, Missed, Byte, Types
      <3> QED
        BY <1>2, <3>2, <3>3 DEF Astray, Missed
    <2> QED
      BY <1>2, <2>5, <2>6, <2>7 DEF WInv
  <1> QED
    BY <1>6, <1>7 DEF Failed, Failing

-----------------------------------------------------------------------------
(* The remaining steps.                                                    *)
LEMMA WriterGoneStep ==
  ASSUME WInv, NEW k \in 0..Len(pipe), WriterGone(k)
  PROVE  WInv'
  <1>1. Types
    BY DEF WInv
  <1>2. UNCHANGED <<sealed, got, net_length, rx, broken, replayed>>
    BY DEF WriterGone, reader
  <1>3. /\ pipe' = SubSeq(pipe, 1, Len(pipe) - k) /\ Len(pipe) - k \in 0..Len(pipe)
        /\ rest' = <<>> /\ todo' = <<>>
    BY <1>1 DEF WriterGone, Types
  <1>4. pipe' \in Seq(Byte) /\ Thinned(pipe, pipe')
    BY <1>1, <1>3, Truncated DEF Types
  <1>5. rest' \in Seq(Byte) /\ Thinned(rest, rest') /\ got' \in Seq(Byte) /\ Thinned(got, got')
    BY <1>1, <1>2, <1>3, ThinnedSelf DEF Types
  <1>6. todo' \in Seq(Plaintext) /\ net_length' \in Nat
    BY <1>1, <1>2, <1>3 DEF Types
  <1> QED
    BY <1>2, <1>4, <1>5, <1>6, Thinner

LEMMA TamperStep ==
  ASSUME WInv, NEW i \in 1..Len(pipe), Tamper(i)
  PROVE  WInv'
  <1>1. Types
    BY DEF WInv
  <1>2. UNCHANGED <<sealed, todo, rest, got, net_length, rx, broken>>
    BY DEF Tamper, writer, reader
  <1>3. rest' \in Seq(Byte) /\ Thinned(rest, rest') /\ got' \in Seq(Byte) /\ Thinned(got, got')
    BY <1>1, <1>2, ThinnedSelf DEF Types
  <1>4. todo' \in Seq(Plaintext) /\ net_length' \in Nat
    BY <1>1, <1>2 DEF Types
  <1>5. CASE pipe' = [pipe EXCEPT ![i].intact = FALSE] /\ UNCHANGED replayed
    <2>1. pipe' \in Seq(Byte) /\ Thinned(pipe, pipe')
      BY <1>1, <1>5, Altered DEF Types
    <2> QED
      BY <1>2, <1>3, <1>4, <1>5, <2>1, Thinner
  <1>6. CASE pipe' = RemoveAt(pipe, i) /\ UNCHANGED replayed
    <2>1. pipe' \in Seq(Byte) /\ Thinned(pipe, pipe')
      BY <1>1, <1>6, Removed DEF Types
    <2> QED
      BY <1>2, <1>3, <1>4, <1>6, <2>1, Thinner
  <1>7. CASE pipe' = InsertAt(pipe, i, pipe[i]) /\ replayed' = TRUE
    <2>1. pipe' \in Seq(Byte) /\ Occurring(pipe') \subseteq Occurring(pipe)
      BY <1>1, <1>7, Repeated DEF Types
    <2>2. Afloat' \subseteq Afloat
      BY <1>2, <2>1 DEF Afloat, Occurring
    <2>3. Types' /\ Places'
      BY <1>1, <1>2, <2>1, <2>2 DEF WInv, Types, Places, Placed
    <2> QED
      BY <1>7, <2>3 DEF WInv
  <1> QED
    BY <1>5, <1>6, <1>7 DEF Tamper

\* A step of the writer or of the reader that leaves the bytes alone or drops them.
LEMMA QuietStep ==
  ASSUME WInv, UNCHANGED <<sealed, rx, broken, replayed, net_length, pipe, got>>,
         todo' \in Seq(Plaintext), rest' = rest \/ rest' = <<>>
  PROVE  WInv'
  <1>1. Types
    BY DEF WInv
  <1>2. /\ rest' \in Seq(Byte) /\ Thinned(rest, rest')
        /\ got' \in Seq(Byte) /\ Thinned(got, got')
        /\ pipe' \in Seq(Byte) /\ Thinned(pipe, pipe')
    BY <1>1, ThinnedSelf DEF Types
  <1>3. net_length' \in Nat
    BY <1>1 DEF Types
  <1> QED
    BY <1>2, <1>3, Thinner

LEMMA OfferStep ==
  ASSUME WInv, NEW m \in Message, Offer(m)
  PROVE  WInv'
  <1>1. Length(Size[m]) \in Plaintext
    BY WireAssumption DEF Plaintext
  <1>2. todo' \in Seq(Plaintext)
    BY <1>1 DEF Offer
  <1> QED
    BY <1>2, QuietStep DEF Offer, reader

Begun == announcing \in Seq(Message)

LEMMA Undone ==
  ASSUME NEW S, NEW s \in Seq(S), NEW i \in 1..Len(s)
  PROVE  /\ RemoveAt(s, i) \in Seq(S)
         /\ Len(s) = 1 => RemoveAt(s, i) = <<>>
  <1>1. Len(s) \in Nat /\ i - 1 \in 0..Len(s) /\ i + 1 \in 1..(Len(s) + 1)
    OBVIOUS
  <1>2. SubSeq(s, 1, i - 1) \in Seq(S) /\ SubSeq(s, i + 1, Len(s)) \in Seq(S)
    BY <1>1, SubSeqProperties
  <1>3. RemoveAt(s, i) = SubSeq(s, 1, i - 1) \o SubSeq(s, i + 1, Len(s))
    BY DEF RemoveAt
  <1>4. Len(s) = 1 => SubSeq(s, 1, i - 1) = <<>> /\ SubSeq(s, i + 1, Len(s)) = <<>>
    BY <1>1, SubSeqProperties
  <1>5. <<>> \o <<>> = <<>>
    OBVIOUS
  <1> QED
    BY <1>2, <1>3, <1>4, <1>5

LEMMA BegunStep ==
  ASSUME Begun, [Next]_vars
  PROVE  Begun'
  <1>1. ASSUME NEW m \in Message, Offer(m) PROVE Begun'
    BY <1>1 DEF Begun, Offer
  <1>2. ASSUME NEW i \in 1..Len(announcing), Finish(i) PROVE Begun'
    BY <1>2, Undone DEF Begun, Finish
  <1>3. CASE UNCHANGED writer
    BY <1>3 DEF Begun, writer
  <1>4. CASE \E k \in 0..Len(pipe) : WriterGone(k)
    BY <1>4 DEF Begun, WriterGone
  <1>5. CASE Push \/ (\E n \in 1..Len(rest) : Send(n)) \/ SendFails \/ PushNoMemory
    BY <1>5 DEF Begun, Push, Send, SendFails, PushNoMemory
  <1>6. Receiving \/ (\E i \in 1..Len(pipe) : Tamper(i)) \/ UNCHANGED vars => UNCHANGED writer
    BY DEF Receiving, Recv, Answer, GotLength, GotBody, GotNothing, ServerNoLength, ServerNoBody,
       ClientNoLength, ClientNoBuffer, ClientOverrun, ClientNoBody, Tamper, vars
  <1> QED
    BY <1>1, <1>2, <1>3, <1>4, <1>5, <1>6 DEF Next, Sending

LEMMA FinishStep ==
  ASSUME WInv, Begun, NEW i \in 1..Len(announcing), Finish(i)
  PROVE  WInv'
  <1>1. announcing[i] \in Message
    BY DEF Begun
  <1>2. todo' \in Seq(Plaintext)
    BY <1>1 DEF Finish, Plaintext
  <1> QED
    BY <1>2, QuietStep DEF Finish, reader

LEMMA GotLengthStep ==
  ASSUME WInv, GotLength
  PROVE  WInv' /\ ~(broken /\ ~replayed)
  <1> DEFINE k == rx + 1
  <1>1. Types /\ Pulled /\ pc = "len" /\ net_length' = Plain.says
    BY DEF WInv, GotLength
  <1>2. k \in 1..Len(sealed) /\ got = Cipher(k, sealed[k]) /\ k \in Nat /\ sealed[k] \in Plaintext
    BY <1>1 DEF Pulled, Opens, Types
  <1>3. Len(got) = ABytes + LenSize
    BY <1>1 DEF Pulled, Full, Wanted
  <1> HIDE DEF k
  <1>4. sealed[k].size \in Nat /\ ABytes \in Nat /\ ABytes > 0
    BY <1>2, Sizes, Lengths
  <1>5. /\ Len(got) = sealed[k].size + ABytes
        /\ \A i \in 1..Len(got) : got[i] = [chunk |-> k, pos |-> i, intact |-> TRUE]
    BY <1>2, <1>4, CipherBytes
  <1>6. sealed[k].size = LenSize
    BY <1>3, <1>4, <1>5, Lengths
  <1>7. 1 \in 1..Len(got)
    BY <1>4, <1>5
  <1>8. got[1].chunk = k
    <2>1. got[1] = [chunk |-> k, pos |-> 1, intact |-> TRUE]
      BY <1>5, <1>7
    <2> QED
      BY <2>1
  <1>9. net_length' \in Nat
    <2>1. Head(got) = got[1]
      BY <1>1, <1>7 DEF Types
    <2> QED
      BY <1>1, <1>2, <1>6, <1>8, <2>1, Sizes DEF Plain
  <1> QED
    BY <1>1, <1>9, PulledStep DEF GotLength, writer

LEMMA GotBodyStep ==
  ASSUME WInv, GotBody \/ GotNothing
  PROVE  WInv' /\ ~(broken /\ ~replayed)
  <1>1. net_length' \in Nat
    BY DEF WInv, Types, GotBody, GotNothing
  <1> QED
    BY <1>1, PulledStep DEF GotBody, GotNothing, writer

-----------------------------------------------------------------------------
LEMMA InitWInv == Init => WInv
  <1> SUFFICES ASSUME Init PROVE WInv
    OBVIOUS
  <1>1. /\ sealed = <<>> /\ todo = <<>> /\ rest = <<>> /\ pipe = <<>> /\ got = <<>>
        /\ rx = 0 /\ net_length \in Nat /\ broken = FALSE
    BY Lengths DEF Init
  <1>2. Len(<<>>) = 0 /\ 1..0 = {}
    OBVIOUS
  <1>3. Types
    BY <1>1 DEF Types
  <1>4. Afloat = {}
    BY <1>1, <1>2 DEF Afloat, Occurring
  <1>5. Rising(got) /\ Rising(pipe) /\ Rising(rest)
        /\ Precedes(got, pipe) /\ Precedes(got, rest) /\ Precedes(pipe, rest)
    BY <1>1, <1>2 DEF Rising, Precedes
  <1> QED
    BY <1>1, <1>3, <1>4, <1>5 DEF WInv, Places, InOrder

LEMMA Steps ==
  ASSUME WInv, Begun, [Next]_vars
  PROVE  WInv' /\ (broken /\ ~replayed => UNCHANGED <<rx, accepted>>)
  <1>1. ASSUME NEW m \in Message, Offer(m)
        PROVE  WInv' /\ UNCHANGED <<rx, accepted>>
    BY <1>1, OfferStep DEF Offer, reader
  <1>2. CASE Push
    BY <1>2, PushStep DEF Push, reader
  <1>3. ASSUME NEW n \in 1..Len(rest), Send(n)
        PROVE  WInv' /\ UNCHANGED <<rx, accepted>>
    BY <1>3, SendStep DEF Send, reader
  <1>4. CASE SendFails
    <2>1. todo' \in Seq(Plaintext)
      BY <1>4 DEF SendFails, WInv, Types
    <2> QED
      BY <1>4, <2>1, QuietStep DEF SendFails, reader
  <1>5. CASE PushNoMemory
    <2>1. todo' \in Seq(Plaintext)
      BY <1>5 DEF PushNoMemory, WInv, Types
    <2> QED
      BY <1>5, <2>1, QuietStep DEF PushNoMemory, reader
  <1>6. ASSUME NEW k \in 0..Len(pipe), WriterGone(k)
        PROVE  WInv' /\ UNCHANGED <<rx, accepted>>
    BY <1>6, WriterGoneStep DEF WriterGone, reader
  <1>7. ASSUME NEW i \in 1..Len(pipe), Tamper(i)
        PROVE  WInv' /\ UNCHANGED <<rx, accepted>>
    BY <1>7, TamperStep DEF Tamper, reader
  <1>8. ASSUME NEW n \in 1..Len(pipe), Recv(n)
        PROVE  WInv' /\ UNCHANGED <<rx, accepted>>
    BY <1>8, RecvStep DEF Recv
  <1>9. CASE GotLength
    BY <1>9, GotLengthStep
  <1>10. CASE GotBody \/ GotNothing
    BY <1>10, GotBodyStep
  <1>11. CASE ServerNoLength \/ ServerNoBody \/ ClientNoLength \/ ClientNoBody
    <2>1. Failed /\ UNCHANGED <<writer, pipe, replayed>>
      BY <1>11 DEF ServerNoLength, ServerNoBody, ClientNoLength, ClientNoBody
    <2> QED
      BY <2>1, FailedStep DEF Failed
  <1>12. CASE ClientNoBuffer \/ ClientOverrun
    <2>1. UNCHANGED <<writer, pipe, got, net_length, rx, accepted, broken, replayed>>
      BY <1>12 DEF ClientNoBuffer, ClientOverrun
    <2>2. todo' \in Seq(Plaintext)
      BY <2>1 DEF WInv, Types, writer
    <2> QED
      BY <2>1, <2>2, QuietStep DEF writer
  <1>15. ASSUME NEW i \in 1..Len(announcing), Finish(i)
         PROVE  WInv' /\ UNCHANGED <<rx, accepted>>
    BY <1>15, FinishStep DEF Finish, reader
  <1>13. CASE UNCHANGED vars
    <2>1. UNCHANGED <<sealed, todo, rest, pipe, got, net_length, rx, accepted, broken, replayed>>
      BY <1>13 DEF vars, writer, reader
    <2>2. todo' \in Seq(Plaintext)
      BY <2>1 DEF WInv, Types
    <2> QED
      BY <2>1, <2>2, QuietStep
  <1>14. CASE Next
    BY <1>14, <1>1, <1>2, <1>3, <1>4, <1>5, <1>6, <1>7, <1>8, <1>9, <1>10, <1>11, <1>12,
       <1>15 DEF Next, Sending, Receiving, Answer
  <1> QED
    BY <1>13, <1>14

(* Once a chunk has failed to decrypt, and as long as no byte has been     *)
(* repeated, recv_all opens no other chunk and neither loop accepts a      *)
(* message: the first byte of the chunk it waits for has been consumed.    *)
THEOREM NeverResumesCorrect == Spec => NeverResumes
  <1>1. Init => WInv /\ Begun
    BY InitWInv DEF Init, Begun
  <1>2. WInv /\ Begun /\ [Next]_vars => WInv' /\ Begun'
    BY Steps, BegunStep
  <1>3. WInv /\ Begun /\ [Next]_vars => [broken /\ ~replayed => UNCHANGED <<rx, accepted>>]_vars
    BY Steps
  <1> QED
    BY <1>1, <1>2, <1>3, PTL DEF Spec, NeverResumes

-----------------------------------------------------------------------------
(***************************************************************************)
(* The types.                                                              *)
(***************************************************************************)
Chunk == {Length(Size[m]) : m \in Message} \cup {Body(m) : m \in Message}

Texts ==
  /\ offered \in Seq(Message) /\ announcing \in Seq(Message)
  /\ sent \in Seq(Message) /\ accepted \in Seq(Message)
  /\ todo \in Seq(Chunk) /\ sealed \in Seq(Chunk)

Ends ==
  /\ writing \in BOOLEAN /\ reading \in BOOLEAN /\ broken \in BOOLEAN
  /\ replayed \in BOOLEAN /\ mixed \in BOOLEAN /\ pc \in {"len", "body", "done"}

Bounds ==
  /\ faults \in 0..MaxFaults
  /\ Len(pipe) <= PipeCap + faults
  /\ Len(got) <= Wanted

\* Nothing of a chunk is in hand once the reader has hung up.
Stopped ==
  /\ pc = "done" => ~reading
  /\ ~reading /\ pc # "done" => got = <<>>

TInv == WInv /\ Texts /\ Ends /\ Bounds /\ Stopped

LEMMA ChunkFacts ==
  ASSUME NEW p \in Chunk
  PROVE  /\ p.size \in Nat /\ p \in Plaintext
         /\ p.kind = "len" => p.size = LenSize /\ p.says \in Nat
         /\ p.kind = "body" => p.size # LenSize /\ p.says \in Message /\ p = Body(p.says)
         /\ p.kind \in {"len", "body"}
  <1>1. \A m \in Message : Size[m] \in Nat /\ Size[m] # LenSize
    BY WireAssumption
  <1>2. CASE \E m \in Message : p = Length(Size[m])
    BY <1>1, <1>2, Lengths DEF Plaintext, Length
  <1>3. CASE \E m \in Message : p = Body(m)
    BY <1>1, <1>3 DEF Plaintext, Body
  <1> QED
    BY <1>2, <1>3 DEF Chunk

LEMMA Limits == PipeCap \in Nat /\ MaxFaults \in Nat
  BY WireAssumption

LEMMA WantedNat ==
  ASSUME WInv
  PROVE  Wanted \in Nat /\ Wanted >= 1
  BY Lengths DEF WInv, Types, Wanted

\* The chunk that has been pulled.
LEMMA PulledChunk ==
  ASSUME TInv, Pulled
  PROVE  /\ rx + 1 \in 1..Len(sealed) /\ sealed[rx + 1] \in Chunk
         /\ got = Cipher(rx + 1, sealed[rx + 1])
         /\ Plain = sealed[rx + 1]
         /\ sealed[rx + 1].size + ABytes = Wanted
         /\ got # <<>> /\ reading
  <1> DEFINE k == rx + 1
             p == sealed[k]
  <1>1. /\ k \in 1..Len(sealed) /\ k \in Nat /\ p \in Chunk /\ got = Cipher(k, p)
        /\ Len(got) = Wanted
    BY DEF TInv, Texts, WInv, Types, Pulled, Opens, Full
  <1>2. p.size \in Nat
    BY <1>1, ChunkFacts
  <1> HIDE DEF k, p
  <1>3. p.size + ABytes \in Nat /\ p.size + ABytes >= 1
    BY <1>2, Lengths
  <1>4. /\ got \in Seq(Byte) /\ Len(got) = p.size + ABytes
        /\ \A i \in 1..Len(got) : got[i] = [chunk |-> k, pos |-> i, intact |-> TRUE]
    BY <1>1, <1>3, CipherBytes
  <1>5. got[1] = [chunk |-> k, pos |-> 1, intact |-> TRUE] /\ Head(got) = got[1] /\ got # <<>>
    BY <1>3, <1>4
  <1>6. Plain = p
    BY <1>5 DEF Plain, p
  <1>7. reading
    BY <1>5 DEF TInv, Stopped, Pulled
  <1> QED
    BY <1>1, <1>4, <1>5, <1>6, <1>7 DEF k, p

LEMMA OfferTypes ==
  ASSUME TInv, NEW m \in Message, Offer(m)
  PROVE  Texts' /\ Ends' /\ Bounds' /\ Stopped'
  <1>1. Length(Size[m]) \in Chunk
    BY DEF Chunk
  <1>2. Texts'
    BY <1>1 DEF TInv, Texts, Offer, reader
  <1> QED
    BY <1>2 DEF TInv, Ends, Bounds, Stopped, Wanted, Offer, reader

LEMMA FinishTypes ==
  ASSUME TInv, NEW i \in 1..Len(announcing), Finish(i)
  PROVE  Texts' /\ Ends' /\ Bounds' /\ Stopped'
  <1>1. Body(announcing[i]) \in Chunk /\ announcing' \in Seq(Message)
    BY Undone DEF TInv, Texts, Chunk, Finish
  <1>2. Texts'
    BY <1>1 DEF TInv, Texts, Finish, reader
  <1> QED
    BY <1>2 DEF TInv, Ends, Bounds, Stopped, Wanted, Finish, reader

LEMMA PushTypes ==
  ASSUME TInv, Push
  PROVE  Texts' /\ Ends' /\ Bounds' /\ Stopped'
  <1>1. todo \in Seq(Chunk) /\ todo # <<>> /\ sealed \in Seq(Chunk) /\ sent \in Seq(Message)
    BY DEF TInv, Texts, Push
  <1>2. Head(todo) \in Chunk /\ Tail(todo) \in Seq(Chunk)
    BY <1>1, HeadTailProperties
  <1>3. sealed' \in Seq(Chunk) /\ todo' \in Seq(Chunk)
    BY <1>1, <1>2 DEF Push
  <1>4. sent' \in Seq(Message)
    BY <1>1, <1>2, ChunkFacts DEF Push
  <1>5. Texts'
    BY <1>3, <1>4 DEF TInv, Texts, Push, reader
  <1> QED
    BY <1>5 DEF TInv, Ends, Bounds, Stopped, Wanted, Push, reader

LEMMA SendTypes ==
  ASSUME TInv, NEW n \in 1..Len(rest), Send(n)
  PROVE  Texts' /\ Ends' /\ Bounds' /\ Stopped'
  <1>1. pipe \in Seq(Byte) /\ rest \in Seq(Byte)
    BY DEF TInv, WInv, Types
  <1>2. SubSeq(rest, 1, n) \in Seq(Byte) /\ Len(SubSeq(rest, 1, n)) = n
    BY <1>1, Cut
  <1>3. Len(pipe') = Len(pipe) + n
    BY <1>1, <1>2, ConcatProperties DEF Send
  <1>4. Bounds'
    BY <1>1, <1>3, Limits DEF TInv, Bounds, Wanted, Send, reader
  <1> QED
    BY <1>4 DEF TInv, Texts, Ends, Stopped, Send, reader

LEMMA WriterTypes ==
  ASSUME TInv, SendFails \/ PushNoMemory
  PROVE  Texts' /\ Ends' /\ Bounds' /\ Stopped'
  <1>1. todo' \in Seq(Chunk)
    BY HeadTailProperties DEF TInv, Texts, SendFails, PushNoMemory
  <1>2. /\ UNCHANGED <<pipe, got, Wanted>>
        /\ faults' = faults \/ (faults' = faults + 1 /\ faults < MaxFaults)
    BY DEF SendFails, PushNoMemory, Wanted, reader
  <1>3. Len(pipe) \in Nat /\ Bounds
    BY DEF TInv, WInv, Types
  <1>4. Bounds'
    BY <1>2, <1>3, Limits DEF Bounds
  <1> QED
    BY <1>1, <1>4 DEF TInv, Texts, Ends, Stopped, SendFails, PushNoMemory, reader

LEMMA WriterGoneTypes ==
  ASSUME TInv, NEW k \in 0..Len(pipe), WriterGone(k)
  PROVE  Texts' /\ Ends' /\ Bounds' /\ Stopped'
  <1>1. pipe \in Seq(Byte)
    BY DEF TInv, WInv, Types
  <1>2. Len(pipe') = Len(pipe) - k
    BY <1>1, Cut DEF WriterGone
  <1>3. Bounds'
    BY <1>1, <1>2, Limits DEF TInv, Bounds, Wanted, WriterGone, reader
  <1>4. Texts'
    BY DEF TInv, Texts, WriterGone, reader
  <1> QED
    BY <1>3, <1>4 DEF TInv, Ends, Stopped, WriterGone, reader

LEMMA TamperTypes ==
  ASSUME TInv, NEW i \in 1..Len(pipe), Tamper(i)
  PROVE  Texts' /\ Ends' /\ Bounds' /\ Stopped'
  <1>1. pipe \in Seq(Byte)
    BY DEF TInv, WInv, Types
  <1>2. Len(pipe') <= Len(pipe) + 1 /\ Len(pipe') \in Nat /\ replayed' \in BOOLEAN
    <2>1. Len([pipe EXCEPT ![i].intact = FALSE]) = Len(pipe)
      BY <1>1, Altered
    <2>2. Len(RemoveAt(pipe, i)) = Len(pipe) - 1
      BY <1>1, Removed
    <2>3. Len(InsertAt(pipe, i, pipe[i])) = Len(pipe) + 1
      BY <1>1, Repeated
    <2>4. Len(pipe) \in Nat /\ replayed \in BOOLEAN
      BY <1>1 DEF TInv, Ends
    <2>5. CASE pipe' = [pipe EXCEPT ![i].intact = FALSE] /\ UNCHANGED replayed
      BY <2>1, <2>4, <2>5
    <2>6. CASE pipe' = RemoveAt(pipe, i) /\ UNCHANGED replayed
      BY <1>1, <2>2, <2>4, <2>6
    <2>7. CASE pipe' = InsertAt(pipe, i, pipe[i]) /\ replayed' = TRUE
      BY <1>1, <2>3, <2>4, <2>7
    <2> QED
      BY <2>5, <2>6, <2>7 DEF Tamper
  <1>3. Bounds'
    BY <1>1, <1>2, Limits DEF TInv, Bounds, Wanted, Tamper, reader
  <1> QED
    BY <1>2, <1>3 DEF TInv, Texts, Ends, Stopped, Tamper, writer, reader

LEMMA RecvTypes ==
  ASSUME TInv, NEW n \in 1..Len(pipe), Recv(n)
  PROVE  Texts' /\ Ends' /\ Bounds' /\ Stopped'
  <1>1. got \in Seq(Byte) /\ pipe \in Seq(Byte)
    BY DEF TInv, WInv, Types
  <1>2. SubSeq(pipe, 1, n) \in Seq(Byte) /\ Len(SubSeq(pipe, 1, n)) = n
        /\ Len(SubSeq(pipe, n + 1, Len(pipe))) = Len(pipe) - n
    BY <1>1, Cut
  <1>3. Len(got') = Len(got) + n /\ Len(pipe') = Len(pipe) - n
    BY <1>1, <1>2, ConcatProperties DEF Recv, Received
  <1>4. Bounds'
    BY <1>1, <1>3, Limits DEF TInv, Bounds, Wanted, StillRoom, Recv
  <1> QED
    BY <1>4 DEF TInv, Texts, Ends, Stopped, Recv, writer

LEMMA AnswerTypes ==
  ASSUME TInv, WInv', Answer
  PROVE  Texts' /\ Ends' /\ Bounds' /\ Stopped'
  <1>1. accepted' \in Seq(Message)
    <2>1. CASE GotBody
      <3>1. Plain \in Chunk
        BY <2>1, PulledChunk DEF GotBody
      <3> QED
        BY <2>1, <3>1, ChunkFacts DEF TInv, Texts, GotBody
    <2>2. CASE accepted' = accepted
      BY <2>2 DEF TInv, Texts
    <2> QED
      BY <2>1, <2>2 DEF Answer, GotLength, GotNothing, ServerNoLength, ServerNoBody,
           ClientNoLength, ClientNoBuffer, ClientOverrun, ClientNoBody, Failed
  <1>2. UNCHANGED <<writer, pipe, writing, replayed>>
    BY DEF Answer, GotLength, GotBody, GotNothing, ServerNoLength, ServerNoBody,
           ClientNoLength, ClientNoBuffer, ClientOverrun, ClientNoBody
  <1>3. got' = <<>>
    BY DEF Answer, GotLength, GotBody, GotNothing, ServerNoLength, ServerNoBody,
           ClientNoLength, ClientNoBuffer, ClientOverrun, ClientNoBody, Failed
  <1>4. broken' \in BOOLEAN /\ (faults' = faults \/ (faults' = faults + 1 /\ faults < MaxFaults))
    BY DEF Answer, GotLength, GotBody, GotNothing, ServerNoLength, ServerNoBody,
           ClientNoLength, ClientNoBuffer, ClientOverrun, ClientNoBody, Failed, Failing, TInv, Ends
  <1>5. /\ pc' \in {"len", "body", "done"} /\ reading' \in BOOLEAN
        /\ pc' = "done" => ~reading'
    BY DEF Answer, GotLength, GotBody, GotNothing, ServerNoLength, ServerNoBody,
           ClientNoLength, ClientNoBuffer, ClientOverrun, ClientNoBody, Failed, Done, TInv, Ends
  <1>6. Bounds'
    <2>1. Wanted' \in Nat
      <3>1. net_length' \in Nat
        BY DEF WInv, Types
      <3>2. \A n \in Nat : ABytes + n \in Nat
        BY Lengths
      <3>3. ABytes + LenSize \in Nat /\ ABytes + net_length' \in Nat
        BY <3>1, <3>2, Lengths
      <3> QED
        BY <3>3 DEF Wanted
    <2>2. Len(pipe) \in Nat /\ Bounds
      BY DEF TInv, WInv, Types
    <2>3. faults' \in 0..MaxFaults /\ Len(pipe') <= PipeCap + faults'
      BY <1>2, <1>4, <2>2, Limits DEF Bounds
    <2>4. Len(got') <= Wanted'
      BY <1>3, <2>1
    <2> QED
      BY <2>3, <2>4 DEF Bounds
  <1>7. Texts'
    BY <1>1, <1>2 DEF TInv, Texts, writer
  <1>8. Ends'
    BY <1>2, <1>4, <1>5 DEF TInv, Ends, writer
  <1>9. Stopped'
    BY <1>3, <1>5 DEF Stopped
  <1> QED
    BY <1>6, <1>7, <1>8, <1>9

LEMMA InitTypes == Init => TInv
  <1> SUFFICES ASSUME Init PROVE TInv
    OBVIOUS
  <1>1. WInv
    BY InitWInv
  <1>2. Wanted \in Nat
    BY <1>1, WantedNat
  <1>3. Texts
    BY DEF Init, Texts
  <1>4. Ends /\ Stopped
    BY DEF Init, Ends, Stopped
  <1>5. Bounds
    <2>1. Len(<<>>) = 0
      OBVIOUS
    <2> QED
      BY <1>2, <2>1, Limits DEF Init, Bounds
  <1> QED
    BY <1>1, <1>3, <1>4, <1>5 DEF TInv

LEMMA TypeSteps ==
  ASSUME TInv, [Next]_vars
  PROVE  TInv'
  <1>1. WInv'
    BY Steps DEF TInv, Texts, Begun
  <1>2. CASE UNCHANGED vars
    BY <1>1, <1>2 DEF TInv, Texts, Ends, Bounds, Stopped, Wanted, vars, writer, reader
  <1>3. CASE Next
    <2>1. Texts' /\ Ends' /\ Bounds' /\ Stopped'
      BY <1>1, <1>3, OfferTypes, FinishTypes, PushTypes, SendTypes, WriterTypes, WriterGoneTypes, TamperTypes,
         RecvTypes, AnswerTypes DEF Next, Sending, Receiving
    <2> QED
      BY <1>1, <2>1 DEF TInv
  <1> QED
    BY <1>2, <1>3

(* Every variable keeps its type: in particular no chunk is ever sealed    *)
(* but a length and its message, recv_raw never has more bytes than the    *)
(* chunk it waits for, and the socket holds no more than it may, whatever  *)
(* is altered, dropped or repeated.                                        *)
THEOREM WireTypeCorrect == Spec => []TypeOK
  <1>1. TInv => TypeOK
    <2> SUFFICES ASSUME TInv PROVE TypeOK
      OBVIOUS
    <2>1. Len(pipe) <= PipeCap + MaxFaults
      BY Limits DEF TInv, WInv, Types, Bounds
    <2> QED
      BY <2>1 DEF TInv, WInv, Types, Texts, Ends, Bounds, TypeOK, Chunk
  <1> QED
    BY <1>1, InitTypes, TypeSteps, PTL DEF Spec

-----------------------------------------------------------------------------
(***************************************************************************)
(* The reader accepts a prefix of what the writer sealed.  f[i] is how     *)
(* many of the first i chunks are bodies.                                  *)
(***************************************************************************)
Tally(f, chunks, says) ==
  /\ f \in [0..Len(chunks) -> 0..Len(says)]
  /\ f[0] = 0 /\ f[Len(chunks)] = Len(says)
  /\ \A i \in 1..Len(chunks) :
       IF chunks[i].kind = "body" THEN f[i] = f[i - 1] + 1 /\ says[f[i]] = chunks[i].says
       ELSE f[i] = f[i - 1]

Counted == \E f : Tally(f, sealed, sent) /\ (reading => Len(accepted) = f[rx])

LEMMA TallyAppend ==
  ASSUME NEW chunks \in Seq(Chunk), NEW says \in Seq(Message), NEW f, Tally(f, chunks, says),
         NEW p \in Chunk
  PROVE  \E g : /\ Tally(g, Append(chunks, p),
                         IF p.kind = "body" THEN Append(says, p.says) ELSE says)
                /\ \A i \in 0..Len(chunks) : g[i] = f[i]
  <1> DEFINE n == Len(chunks)
             new == IF p.kind = "body" THEN Append(says, p.says) ELSE says
             q == Append(chunks, p)
             g == [i \in 0..(n + 1) |-> IF i <= n THEN f[i] ELSE Len(new)]
  <1>1. n \in Nat /\ Len(says) \in Nat /\ f \in [0..n -> 0..Len(says)]
    BY DEF Tally
  <1>2. q \in Seq(Chunk) /\ Len(q) = n + 1 /\ q[n + 1] = p /\ \A i \in 1..n : q[i] = chunks[i]
    BY AppendProperties
  <1>3. /\ new \in Seq(Message)
        /\ IF p.kind = "body" THEN Len(new) = Len(says) + 1 /\ new[Len(says) + 1] = p.says
           ELSE Len(new) = Len(says)
        /\ \A i \in 1..Len(says) : new[i] = says[i]
    <2>1. CASE p.kind = "body"
      BY <2>1, ChunkFacts, AppendProperties
    <2>2. CASE p.kind # "body"
      BY <2>2
    <2> QED
      BY <2>1, <2>2
  <1>4. f[0] = 0 /\ f[n] = Len(says)
    BY DEF Tally
  <1>5. \A i \in 1..n : IF chunks[i].kind = "body"
                        THEN f[i] = f[i - 1] + 1 /\ says[f[i]] = chunks[i].says
                        ELSE f[i] = f[i - 1]
    BY DEF Tally
  <1> HIDE DEF n, new, q
  <1>6. Len(new) \in Nat /\ Len(says) <= Len(new)
    BY <1>1, <1>3
  <1>7. \A i \in 0..n : g[i] = f[i]
    BY <1>1
  <1>8. g[n + 1] = Len(new)
    BY <1>1
  <1>9. g \in [0..(n + 1) -> 0..Len(new)]
    BY <1>1, <1>6
  <1> HIDE DEF g
  <1>10. ASSUME NEW i \in 1..(n + 1)
         PROVE  IF q[i].kind = "body" THEN g[i] = g[i - 1] + 1 /\ new[g[i]] = q[i].says
                ELSE g[i] = g[i - 1]
    <2>1. CASE i <= n
      <3>1. i \in 1..n /\ i - 1 \in 0..n /\ i \in 0..n
        BY <1>1, <2>1
      <3>2. q[i] = chunks[i] /\ g[i] = f[i] /\ g[i - 1] = f[i - 1] /\ f[i - 1] \in Nat
        BY <1>1, <1>2, <1>7, <3>1
      <3>3. CASE chunks[i].kind = "body"
        <4>1. f[i] \in 1..Len(says)
          BY <1>1, <1>5, <3>1, <3>2, <3>3
        <4> QED
          BY <1>3, <1>5, <3>1, <3>2, <3>3, <4>1
      <3>4. CASE chunks[i].kind # "body"
        BY <1>5, <3>1, <3>2, <3>4
      <3> QED
        BY <3>3, <3>4
    <2>2. CASE i = n + 1
      <3>1. q[i] = p /\ g[i] = Len(new) /\ i - 1 = n /\ n \in 0..n
        BY <1>1, <1>2, <1>8, <2>2
      <3>2. g[i - 1] = Len(says)
        BY <1>4, <1>7, <3>1
      <3> QED
        BY <1>3, <3>1, <3>2
    <2> QED
      BY <1>1, <2>1, <2>2
  <1>11. g[0] = 0
    BY <1>1, <1>4, <1>7
  <1>12. Tally(g, q, new)
    BY <1>2, <1>8, <1>9, <1>10, <1>11 DEF Tally
  <1> QED
    BY <1>7, <1>12 DEF n, new, q

LEMMA PushCounts ==
  ASSUME TInv, Counted, Push
  PROVE  Counted' /\ [Whole!SNext]_(Whole!svars)
  <1>1. todo \in Seq(Chunk) /\ todo # <<>> /\ sealed \in Seq(Chunk) /\ sent \in Seq(Message)
    BY DEF TInv, Texts, Push
  <1> DEFINE p == Head(todo)
  <1>2. p \in Chunk
    BY <1>1, HeadTailProperties
  <1>3. /\ sealed' = Append(sealed, p)
        /\ sent' = IF p.kind = "body" THEN Append(sent, p.says) ELSE sent
        /\ UNCHANGED <<reading, rx, accepted>>
    BY DEF Push, reader
  <1> HIDE DEF p
  <1>4. PICK f : Tally(f, sealed, sent) /\ (reading => Len(accepted) = f[rx])
    BY DEF Counted
  <1>5. PICK g : Tally(g, sealed', sent') /\ \A i \in 0..Len(sealed) : g[i] = f[i]
    BY <1>1, <1>2, <1>3, <1>4, TallyAppend
  <1>6. rx \in 0..Len(sealed)
    BY DEF TInv, WInv, Types
  <1>7. Counted'
    BY <1>3, <1>4, <1>5, <1>6 DEF Counted
  <1>8. CASE p.kind = "body"
    BY <1>2, <1>3, <1>7, <1>8, ChunkFacts DEF Whole!SNext, Whole!Offers
  <1>9. CASE p.kind # "body"
    BY <1>3, <1>7, <1>9 DEF Whole!svars
  <1> QED
    BY <1>8, <1>9

LEMMA PulledCounts ==
  ASSUME TInv, Counted, Pulled, rx' = rx + 1, UNCHANGED <<sealed, sent>>,
         \/ sealed[rx + 1].kind # "body" /\ UNCHANGED accepted
         \/ sealed[rx + 1].kind = "body" /\ accepted' = Append(accepted, sealed[rx + 1].says)
         \/ ~reading' /\ UNCHANGED accepted
  PROVE  Counted' /\ [Whole!SNext]_(Whole!svars)
  <1> DEFINE k == rx + 1
  <1>1. /\ k \in 1..Len(sealed) /\ reading /\ k - 1 = rx /\ k - 1 \in 0..Len(sealed)
        /\ rx' = k /\ k \in 0..Len(sealed)
    BY PulledChunk DEF TInv, WInv, Types
  <1>2. PICK f : Tally(f, sealed, sent) /\ (reading => Len(accepted) = f[rx])
    BY DEF Counted
  <1>3. accepted \in Seq(Message) /\ sent \in Seq(Message) /\ sealed \in Seq(Chunk)
    BY DEF TInv, Texts
  <1>4. Tally(f, sealed', sent')
    BY <1>2
  <1>5. CASE sealed[k].kind # "body" /\ UNCHANGED accepted
    <2>1. f[k] = f[rx]
      BY <1>1, <1>2, <1>5 DEF Tally
    <2> QED
      BY <1>1, <1>2, <1>4, <1>5, <2>1 DEF Counted, Whole!svars
  <1>6. CASE sealed[k].kind = "body" /\ accepted' = Append(accepted, sealed[k].says)
    <2>1. f[k] = f[rx] + 1 /\ sent[f[k]] = sealed[k].says
      BY <1>1, <1>2, <1>6 DEF Tally
    <2>2. f[k] \in 0..Len(sent) /\ f[rx] = Len(accepted)
      BY <1>1, <1>2 DEF Tally
    <2>3. Len(accepted) < Len(sent) /\ accepted' = Append(accepted, sent[Len(accepted) + 1])
      BY <1>3, <1>6, <2>1, <2>2
    <2>4. sealed[k] \in Chunk /\ sealed[k].says \in Message
      BY <1>1, <1>3, <1>6, ChunkFacts
    <2>5. Len(accepted') = f[k]
      BY <1>3, <1>6, <2>1, <2>2, <2>4, AppendProperties
    <2> QED
      BY <1>1, <1>4, <2>3, <2>5 DEF Counted, Whole!SNext, Whole!Accepts
  <1>7. CASE ~reading' /\ UNCHANGED accepted
    BY <1>4, <1>7 DEF Counted, Whole!svars
  <1> QED
    BY <1>5, <1>6, <1>7

\* A step that neither seals nor pulls.
LEMMA OtherCounts ==
  ASSUME Counted, UNCHANGED <<sealed, sent, rx, accepted>>, reading' => reading
  PROVE  Counted' /\ [Whole!SNext]_(Whole!svars)
  BY DEF Counted, Whole!svars

LEMMA StepCounts ==
  ASSUME TInv, Counted, [Next]_vars
  PROVE  Counted' /\ [Whole!SNext]_(Whole!svars)
  <1>1. CASE Push
    BY <1>1, PushCounts
  <1>2. CASE GotLength
    <2>1. sealed[rx + 1].kind # "body"
      BY <1>2, PulledChunk, ChunkFacts, Lengths DEF GotLength, Wanted
    <2> QED
      BY <1>2, <2>1, PulledCounts DEF GotLength, writer
  <1>3. CASE GotBody
    <2>1. /\ Pulled /\ Plain = sealed[rx + 1] /\ rx' = rx + 1 /\ UNCHANGED <<sealed, sent>>
          /\ accepted' = IF Plain.kind = "body" THEN Append(accepted, Plain.says) ELSE accepted
      BY <1>3, PulledChunk DEF GotBody, writer
    <2> QED
      BY <2>1, PulledCounts
  <1>4. CASE GotNothing
    <2>1. Pulled /\ rx' = rx + 1 /\ UNCHANGED <<sealed, sent, accepted>> /\ ~reading'
      BY <1>4 DEF GotNothing, Done, writer
    <2> QED
      BY <2>1, PulledCounts
  <1>5. CASE \/ ServerNoLength \/ ServerNoBody
             \/ ClientNoLength \/ ClientNoBuffer \/ ClientOverrun \/ ClientNoBody
    BY <1>5, OtherCounts DEF ServerNoLength, ServerNoBody, ClientNoLength, ClientNoBuffer,
       ClientOverrun, ClientNoBody, Failed, Done, writer
  <1>6. CASE \E n \in 1..Len(pipe) : Recv(n)
    BY <1>6, OtherCounts DEF Recv, writer
  <1>7. CASE \/ (\E m \in Message : Offer(m)) \/ (\E i \in 1..Len(announcing) : Finish(i))
             \/ (\E n \in 1..Len(rest) : Send(n)) \/ SendFails
             \/ PushNoMemory \/ (\E k \in 0..Len(pipe) : WriterGone(k))
    BY <1>7, OtherCounts DEF Offer, Finish, Send, SendFails, PushNoMemory, WriterGone, reader
  <1>8. CASE \E i \in 1..Len(pipe) : Tamper(i)
    BY <1>8, OtherCounts DEF Tamper, writer, reader
  <1>9. CASE UNCHANGED vars
    BY <1>9, OtherCounts DEF vars, writer, reader
  <1> QED
    BY <1>1, <1>2, <1>3, <1>4, <1>5, <1>6, <1>7, <1>8, <1>9
       DEF Next, Sending, Receiving, Answer

LEMMA InitCounts == Init => Counted /\ Whole!SInit
  <1> SUFFICES ASSUME Init PROVE Counted /\ Whole!SInit
    OBVIOUS
  <1>1. sealed = <<>> /\ sent = <<>> /\ accepted = <<>> /\ rx = 0 /\ Len(<<>>) = 0
    BY DEF Init
  <1> DEFINE f == [i \in 0..0 |-> 0]
  <1>2. f \in [0..0 -> 0..0] /\ f[0] = 0
    OBVIOUS
  <1> HIDE DEF f
  <1>3. Tally(f, sealed, sent)
    BY <1>1, <1>2 DEF Tally
  <1> QED
    BY <1>1, <1>2, <1>3 DEF Counted, Whole!SInit

(* recv_all over recv_raw implements Stream: whatever is altered, dropped, *)
(* repeated, left out for want of memory or cut off by the end of a        *)
(* process, either loop accepts messages of the peer only, in the order in *)
(* which send_all sealed them and without a gap.                           *)
THEOREM InOrderWithoutGapCorrect == Spec => InOrderWithoutGap
  <1>1. Init => TInv /\ Counted /\ Whole!SInit
    BY InitTypes, InitCounts
  <1>2. TInv /\ Counted /\ [Next]_vars => TInv' /\ Counted' /\ [Whole!SNext]_(Whole!svars)
    BY TypeSteps, StepCounts
  <1> QED
    BY <1>1, <1>2, PTL DEF Spec, InOrderWithoutGap, Whole!SSpec

-----------------------------------------------------------------------------
(***************************************************************************)
(* Until something fails, the bytes under way run through the chunks that  *)
(* have been sealed and not yet pulled.  Run(q, s, a): s is the bytes of   *)
(* the chunks of q after the first a.                                      *)
(***************************************************************************)
At(k, i) == [chunk |-> k, pos |-> i, intact |-> TRUE]

After(q, b) ==
  IF b.pos < q[b.chunk].size + ABytes THEN [b EXCEPT !.pos = @ + 1] ELSE At(b.chunk + 1, 1)

Run(q, s, a) ==
  IF a = Len(q) THEN s = <<>>
  ELSE /\ s # <<>>
       /\ s[1] = At(a + 1, 1)
       /\ s[Len(s)] = At(Len(q), q[Len(q)].size + ABytes)
       /\ \A i \in 1..(Len(s) - 1) : s[i + 1] = After(q, s[i])

Within(q, s) == \A i \in 1..Len(s) : s[i].chunk \in 1..Len(q)

Below == {p \in Nat \X Nat : p[1] < p[2]}

LEMMA BelowWellFounded == IsWellFoundedOn(Below, Nat)
  <1>1. IsWellFoundedOn(OpToRel(<, Nat), Nat)
    BY NatLessThanWellFounded
  <1>2. OpToRel(<, Nat) = Below
    BY DEF OpToRel, Below
  <1> QED
    BY <1>1, <1>2

LEMMA Least ==
  ASSUME NEW T \in SUBSET Nat, T # {}
  PROVE  \E x \in T : \A y \in T : ~(y < x)
  <1>1. \E x \in T : \A y \in T : <<y, x>> \notin Below
    BY BelowWellFounded, WFMin
  <1> QED
    BY <1>1 DEF Below

LEMMA ChunkLength ==
  ASSUME NEW q \in Seq(Chunk), NEW k \in 1..Len(q)
  PROVE  q[k].size + ABytes \in Nat /\ q[k].size + ABytes >= 1
  <1>1. q[k] \in Chunk
    OBVIOUS
  <1>2. q[k].size \in Nat
    BY <1>1, ChunkFacts
  <1> QED
    BY <1>2, Lengths

\* The bytes of a run begin with those of its first chunk: induction on i,
\* by way of the first byte that is not.
LEMMA RunFirst ==
  ASSUME NEW q \in Seq(Chunk), NEW s \in Seq(Byte), NEW a \in 0..Len(q), a # Len(q),
         Run(q, s, a)
  PROVE  \A i \in 1..Len(s) : i <= q[a + 1].size + ABytes => s[i] = At(a + 1, i)
  <1> DEFINE k == a + 1
             n == q[k].size + ABytes
             T == {i \in 1..Len(s) : i <= n /\ s[i] # At(k, i)}
  <1>1. k \in 1..Len(q) /\ k \in Nat
    OBVIOUS
  <1>2. n \in Nat
    BY <1>1, ChunkLength
  <1>3. s[1] = At(k, 1) /\ \A i \in 1..(Len(s) - 1) : s[i + 1] = After(q, s[i])
    BY DEF Run
  <1>4. \A i \in Nat : i < n => After(q, At(k, i)) = At(k, i + 1)
    BY DEF After, At
  <1> HIDE DEF k, n
  <1> SUFFICES T = {}
    BY DEF k, n
  <1> SUFFICES ASSUME T # {} PROVE FALSE
    OBVIOUS
  <1>10. T \in SUBSET Nat
    OBVIOUS
  <1> HIDE DEF T
  <1>5. PICK x \in T : \A y \in T : ~(y < x)
    BY <1>10, Least
  <1> USE DEF T
  <1>6. x \in 1..Len(s) /\ x <= n /\ s[x] # At(k, x) /\ x # 1
    BY <1>3
  <1> DEFINE y == x - 1
  <1>7. y \in 1..(Len(s) - 1) /\ y + 1 = x /\ y < x /\ y < n /\ y \in Nat
    BY <1>2, <1>6
  <1> HIDE DEF y
  <1>8. s[y] = At(k, y)
    BY <1>2, <1>5, <1>7
  <1>9. s[y + 1] = After(q, s[y])
    BY <1>3, <1>7
  <1> QED
    BY <1>4, <1>6, <1>7, <1>8, <1>9

LEMMA RunAppend ==
  ASSUME NEW q \in Seq(Chunk), NEW s \in Seq(Byte), NEW a \in 0..Len(q), Run(q, s, a),
         Within(q, s), NEW p \in Chunk
  PROVE  Run(Append(q, p), s \o Cipher(Len(q) + 1, p), a)
  <1> DEFINE n == Len(q)
             k == n + 1
             l == p.size + ABytes
             c == Cipher(k, p)
             t == s \o c
             r == Append(q, p)
  <1>1. n \in Nat /\ k \in Nat /\ k = n + 1
    OBVIOUS
  <1>2. r \in Seq(Chunk) /\ Len(r) = k /\ r[k] = p /\ \A i \in 1..n : r[i] = q[i]
    BY AppendProperties
  <1>3. l \in Nat /\ l >= 1
    BY ChunkFacts, Lengths
  <1>4. c \in Seq(Byte) /\ Len(c) = l /\ \A i \in 1..l : c[i] = At(k, i)
    BY <1>1, <1>3, CipherBytes DEF At
  <1>5. t \in Seq(Byte) /\ Len(t) = Len(s) + l
    BY <1>4, ConcatProperties
  <1>6. \A i \in 1..Len(s) : t[i] = s[i]
    BY <1>4, ConcatProperties
  <1>7. ASSUME NEW j \in 1..l PROVE t[Len(s) + j] = At(k, j)
    <2> DEFINE i == Len(s) + j
    <2>1. i \in 1..(Len(s) + Len(c)) /\ ~(i <= Len(s)) /\ i - Len(s) = j
      BY <1>4
    <2> HIDE DEF i
    <2>2. t[i] = c[i - Len(s)]
      BY <1>4, <2>1, ConcatProperties
    <2> QED
      BY <1>4, <2>1, <2>2 DEF i
  <1>8. \A i \in Nat : i < l => After(r, At(k, i)) = At(k, i + 1)
    BY <1>2 DEF After, At
  <1>9. Len(s) \in Nat
    OBVIOUS
  <1> HIDE DEF n, k, l, c, t, r
  <1>10. t # <<>>
    BY <1>3, <1>5, <1>9
  <1>11. t[Len(t)] = At(k, r[k].size + ABytes)
    <2>1. t[Len(s) + l] = At(k, l)
      BY <1>3, <1>7
    <2> QED
      BY <1>2, <1>5, <2>1 DEF l
  <1>12. CASE a = n
    <2>1. s = <<>> /\ Len(s) = 0
      BY <1>12 DEF Run, n
    <2>2. t[1] = At(a + 1, 1)
      <3>1. 1 \in 1..l /\ Len(s) + 1 = 1
        BY <1>3, <2>1
      <3> QED
        BY <1>1, <1>7, <1>12, <3>1
    <2>3. ASSUME NEW i \in 1..(Len(t) - 1) PROVE t[i + 1] = After(r, t[i])
      <3>1. i \in 1..l /\ i + 1 \in 1..l /\ i < l /\ i \in Nat /\ Len(s) + i = i
            /\ Len(s) + (i + 1) = i + 1
        BY <1>3, <1>5, <2>1
      <3>2. t[i] = At(k, i) /\ t[i + 1] = At(k, i + 1)
        BY <1>7, <3>1
      <3> QED
        BY <1>8, <3>1, <3>2
    <2>4. Run(r, t, a)
      BY <1>1, <1>2, <1>10, <1>11, <1>12, <2>2, <2>3 DEF Run
    <2> QED
      BY <2>4 DEF t, c, k, r, n
  <1>13. CASE a # n
    <2>1. /\ s # <<>> /\ s[1] = At(a + 1, 1) /\ s[Len(s)] = At(n, q[n].size + ABytes)
          /\ \A i \in 1..(Len(s) - 1) : s[i + 1] = After(q, s[i])
      BY <1>13 DEF Run, n
    <2>2. 1 \in 1..Len(s) /\ Len(s) \in 1..Len(s) /\ n \in 1..n
      <3>1. Len(s) >= 1
        BY <2>1
      <3> QED
        BY <1>1, <1>9, <1>13, <3>1 DEF n
    <2>3. t[1] = At(a + 1, 1)
      BY <1>6, <2>1, <2>2
    <2>4. ASSUME NEW i \in 1..(Len(t) - 1) PROVE t[i + 1] = After(r, t[i])
      <3>1. CASE i < Len(s)
        <4>1. i \in 1..(Len(s) - 1) /\ i \in 1..Len(s) /\ i + 1 \in 1..Len(s)
          BY <1>9, <3>1
        <4>2. t[i] = s[i] /\ t[i + 1] = s[i + 1] /\ s[i + 1] = After(q, s[i])
          BY <1>6, <2>1, <4>1
        <4>3. s[i].chunk \in 1..n
          BY <4>1 DEF Within, n
        <4>4. r[s[i].chunk] = q[s[i].chunk]
          BY <1>2, <4>3
        <4> QED
          BY <4>2, <4>4 DEF After
      <3>2. CASE i = Len(s)
        <4>1. t[i] = At(n, q[n].size + ABytes)
          BY <1>6, <2>1, <2>2, <3>2
        <4>2. q[n].size + ABytes \in Nat /\ r[n] = q[n]
          BY <1>2, <2>2, ChunkLength DEF n
        <4>3. After(r, t[i]) = At(n + 1, 1)
          BY <4>1, <4>2 DEF After, At
        <4>4. t[Len(s) + 1] = At(k, 1)
          <5>1. 1 \in 1..l
            BY <1>3
          <5> QED
            BY <1>7, <5>1
        <4> QED
          BY <1>1, <3>2, <4>3, <4>4
      <3>3. CASE i > Len(s)
        <4> DEFINE j == i - Len(s)
        <4>1. /\ j \in 1..l /\ j + 1 \in 1..l /\ j < l /\ j \in Nat
              /\ Len(s) + j = i /\ Len(s) + (j + 1) = i + 1
          BY <1>3, <1>5, <1>9, <3>3
        <4> HIDE DEF j
        <4>2. t[i] = At(k, j) /\ t[i + 1] = At(k, j + 1)
          BY <1>7, <4>1
        <4> QED
          BY <1>8, <4>1, <4>2
      <3> QED
        BY <1>3, <1>5, <1>9, <3>1, <3>2, <3>3
    <2>5. a # Len(r)
      BY <1>1, <1>2 DEF n
    <2>6. Run(r, t, a)
      BY <1>2, <1>10, <1>11, <2>3, <2>4, <2>5 DEF Run
    <2> QED
      BY <2>6 DEF t, c, k, r, n
  <1> QED
    BY <1>12, <1>13

LEMMA RunPulled ==
  ASSUME NEW q \in Seq(Chunk), NEW g \in Seq(Byte), NEW t \in Seq(Byte), NEW a \in 0..Len(q),
         a # Len(q), Run(q, g \o t, a), Len(g) = q[a + 1].size + ABytes, Within(q, t)
  PROVE  g = Cipher(a + 1, q[a + 1]) /\ Run(q, t, a + 1)
  <1> DEFINE k == a + 1
             n == q[k].size + ABytes
             s == g \o t
  <1>1. k \in 1..Len(q) /\ k \in Nat /\ Len(q) \in Nat /\ k = a + 1
    OBVIOUS
  <1>2. n \in Nat /\ n >= 1 /\ Len(g) = n
    BY <1>1, ChunkLength
  <1>3. s \in Seq(Byte) /\ Len(s) = n + Len(t)
    BY <1>2, ConcatProperties
  <1>4. \A i \in 1..n : s[i] = g[i]
    BY <1>2, ConcatProperties
  <1>5. ASSUME NEW j \in 1..Len(t) PROVE s[n + j] = t[j]
    <2> DEFINE i == n + j
    <2>1. i \in 1..(Len(g) + Len(t)) /\ ~(i <= Len(g)) /\ i - Len(g) = j
      BY <1>2
    <2> HIDE DEF i, n
    <2>2. s[i] = t[i - Len(g)]
      BY <2>1, ConcatProperties
    <2> QED
      BY <2>1, <2>2 DEF i
  <1>6. \A i \in 1..Len(s) : i <= n => s[i] = At(k, i)
    BY <1>3, RunFirst
  <1>7. /\ s # <<>> /\ s[Len(s)] = At(Len(q), q[Len(q)].size + ABytes)
        /\ \A i \in 1..(Len(s) - 1) : s[i + 1] = After(q, s[i])
    BY DEF Run
  <1>8. Cipher(k, q[k]) \in Seq(Byte) /\ Len(Cipher(k, q[k])) = n
        /\ \A i \in 1..n : Cipher(k, q[k])[i] = At(k, i)
    BY <1>1, <1>2, CipherBytes DEF At
  <1>9. Len(t) \in Nat
    OBVIOUS
  <1>10. After(q, At(k, n)) = At(k + 1, 1)
    BY <1>2 DEF After, At
  <1> HIDE DEF k, n, s
  <1>11. g = Cipher(k, q[k])
    <2>1. \A i \in 1..n : g[i] = Cipher(k, q[k])[i]
      BY <1>2, <1>3, <1>4, <1>6, <1>8, <1>9
    <2> QED
      BY <1>2, <1>8, <2>1, SeqEqual
  <1>12. s[n] = At(k, n)
    BY <1>2, <1>3, <1>6, <1>9
  <1>13. CASE t = <<>>
    <2>1. Len(s) = n
      BY <1>2, <1>3, <1>13
    <2>2. At(k, n).chunk = At(Len(q), q[Len(q)].size + ABytes).chunk
      BY <1>7, <1>12, <2>1
    <2>3. k = Len(q)
      BY <2>2 DEF At
    <2> QED
      BY <1>11, <1>13, <2>3 DEF Run, k
  <1>14. CASE t # <<>>
    <2>1. Len(t) >= 1
      BY <1>14
    <2>2. n \in 1..(Len(s) - 1) /\ 1 \in 1..Len(t) /\ Len(t) \in 1..Len(t)
      BY <1>2, <1>3, <1>9, <2>1
    <2>3. t[1] = At(k + 1, 1)
      BY <1>5, <1>7, <1>10, <1>12, <2>2
    <2>4. k # Len(q)
      <3>1. t[1].chunk \in 1..Len(q) /\ t[1].chunk = k + 1
        BY <2>2, <2>3 DEF Within, At
      <3> QED
        BY <1>1, <3>1
    <2>5. t[Len(t)] = At(Len(q), q[Len(q)].size + ABytes)
      BY <1>3, <1>5, <1>7, <2>2
    <2>6. ASSUME NEW j \in 1..(Len(t) - 1) PROVE t[j + 1] = After(q, t[j])
      <3> DEFINE i == n + j
      <3>1. j \in 1..Len(t) /\ j + 1 \in 1..Len(t) /\ i \in 1..(Len(s) - 1) /\ n + (j + 1) = i + 1
        BY <1>2, <1>3, <1>9
      <3> HIDE DEF i
      <3>2. t[j] = s[i] /\ t[j + 1] = s[i + 1]
        <4>1. t[j] = s[n + j] /\ t[j + 1] = s[n + (j + 1)]
          BY <1>5, <3>1
        <4> QED
          BY <3>1, <4>1 DEF i
      <3> QED
        BY <1>7, <3>1, <3>2
    <2>7. Run(q, t, k)
      BY <1>14, <2>3, <2>4, <2>5, <2>6 DEF Run
    <2> QED
      BY <1>11, <2>7 DEF k
  <1> QED
    BY <1>13, <1>14

-----------------------------------------------------------------------------
(***************************************************************************)
(* Nothing has failed and announcements come one at a time: a length and   *)
(* its body are sealed in turn, and the reader knows which of the two it   *)
(* waits for.                                                              *)
(***************************************************************************)
Calm == faults = 0 /\ writing /\ reading /\ ~mixed

\* The chunks still to seal.
Due == IF announcing = <<>> THEN todo ELSE Append(todo, Body(Head(announcing)))

Paired(plan) ==
  /\ \A k \in 1..Len(plan) :
       plan[k].kind = "len" =>
         /\ k < Len(plan)
         /\ \E m \in Message : plan[k] = Length(Size[m]) /\ plan[k + 1] = Body(m)
  /\ \A k \in 1..(Len(plan) - 1) : plan[k].kind = "body" => plan[k + 1].kind = "len"
  /\ Len(plan) > 0 => plan[1].kind = "len"

Turn ==
  /\ pc = "len" => rx = 0 \/ sealed[rx].kind = "body"
  /\ pc = "body" => rx > 0 /\ sealed[rx].kind = "len" /\ net_length = sealed[rx].says

Clean == Calm => Len(announcing) <= 1 /\ Paired(sealed \o Due) /\ Turn /\ Run(sealed, Underway, rx)

LEMMA PlanFacts ==
  ASSUME TInv
  PROVE  /\ Due \in Seq(Chunk)
         /\ sealed \o Due \in Seq(Chunk) /\ Len(sealed \o Due) = Len(sealed) + Len(Due)
         /\ \A k \in 1..Len(sealed) : (sealed \o Due)[k] = sealed[k]
  <1>1. sealed \in Seq(Chunk) /\ todo \in Seq(Chunk) /\ announcing \in Seq(Message)
    BY DEF TInv, Texts
  <1>2. Due \in Seq(Chunk)
    <2>1. announcing # <<>> => Head(announcing) \in Message
      BY <1>1, HeadTailProperties
    <2>2. announcing # <<>> => Body(Head(announcing)) \in Chunk
      BY <2>1 DEF Chunk
    <2> QED
      BY <1>1, <2>2, AppendProperties DEF Due
  <1> QED
    BY <1>1, <1>2, ConcatProperties

LEMMA UnderwayFacts ==
  ASSUME TInv
  PROVE  /\ got \in Seq(Byte) /\ pipe \in Seq(Byte) /\ rest \in Seq(Byte)
         /\ pipe \o rest \in Seq(Byte) /\ Underway \in Seq(Byte)
         /\ Within(sealed, pipe \o rest) /\ Within(sealed, Underway)
  <1>1. /\ got \in Seq(Byte) /\ pipe \in Seq(Byte) /\ rest \in Seq(Byte)
        /\ \A b \in Afloat : b.chunk \in 1..Len(sealed)
    BY DEF TInv, WInv, Types, Places, Placed
  <1> DEFINE w == pipe \o rest
  <1>2. w \in Seq(Byte) /\ Len(w) = Len(pipe) + Len(rest)
        /\ \A i \in 1..(Len(pipe) + Len(rest)) :
             w[i] = IF i <= Len(pipe) THEN pipe[i] ELSE rest[i - Len(pipe)]
    BY <1>1, ConcatProperties
  <1>3. ASSUME NEW i \in 1..Len(w) PROVE w[i] \in Afloat
    <2>1. CASE i <= Len(pipe)
      BY <1>1, <1>2, <2>1 DEF Afloat, Occurring
    <2>2. CASE ~(i <= Len(pipe))
      <3>1. i - Len(pipe) \in 1..Len(rest)
        BY <1>1, <1>2, <2>2
      <3> QED
        BY <1>2, <2>2, <3>1 DEF Afloat, Occurring
    <2> QED
      BY <2>1, <2>2
  <1>4. Underway = got \o w
    BY DEF Underway
  <1> HIDE DEF w
  <1>5. Underway \in Seq(Byte) /\ Len(Underway) = Len(got) + Len(w)
        /\ \A i \in 1..(Len(got) + Len(w)) :
             Underway[i] = IF i <= Len(got) THEN got[i] ELSE w[i - Len(got)]
    <2>1. got \in Seq(Byte) /\ w \in Seq(Byte)
      BY <1>1, <1>2
    <2> QED
      BY <1>4, <2>1, ConcatProperties
  <1>6. ASSUME NEW i \in 1..Len(Underway) PROVE Underway[i] \in Afloat
    <2>1. CASE i <= Len(got)
      BY <1>1, <1>5, <2>1 DEF Afloat, Occurring
    <2>2. CASE ~(i <= Len(got))
      <3>1. i - Len(got) \in 1..Len(w)
        BY <1>1, <1>2, <1>5, <2>2
      <3> QED
        BY <1>3, <1>5, <2>2, <3>1
    <2> QED
      BY <2>1, <2>2
  <1>7. Within(sealed, w) /\ Within(sealed, Underway)
    BY <1>1, <1>3, <1>6 DEF Within
  <1> QED
    BY <1>1, <1>2, <1>5, <1>7 DEF w

\* The reader waits for as many bytes as the next chunk has.
LEMMA Expected ==
  ASSUME TInv, Clean, Calm, rx # Len(sealed)
  PROVE  /\ Wanted = sealed[rx + 1].size + ABytes
         /\ pc \in {"len", "body"} /\ sealed[rx + 1].kind = pc
  <1> DEFINE plan == sealed \o Due
             k == rx + 1
  <1>1. /\ rx \in Nat /\ k \in 1..Len(sealed) /\ sealed \in Seq(Chunk) /\ Due \in Seq(Chunk)
        /\ pc \in {"len", "body"}
    BY PlanFacts DEF TInv, WInv, Types, Texts, Ends, Stopped, Calm
  <1>2. plan \in Seq(Chunk) /\ Len(plan) = Len(sealed) + Len(Due)
        /\ \A i \in 1..Len(sealed) : plan[i] = sealed[i]
    BY PlanFacts
  <1>3. Paired(plan) /\ Turn
    BY DEF Clean
  <1>4. plan[k] = sealed[k] /\ sealed[k] \in Chunk /\ k <= Len(plan) /\ Len(plan) \in Nat
    BY <1>1, <1>2
  <1> HIDE DEF plan
  <1>5. CASE pc = "len"
    <2>1. sealed[k].kind = "len"
      <3>1. plan[k].kind = "len"
        <4>1. CASE rx = 0
          BY <1>1, <1>3, <1>4, <4>1 DEF Paired
        <4>2. CASE rx # 0
          <5>1. rx \in 1..(Len(plan) - 1) /\ rx \in 1..Len(sealed) /\ sealed[rx].kind = "body"
            BY <1>1, <1>3, <1>4, <1>5, <4>2 DEF Turn
          <5> QED
            BY <1>2, <1>3, <5>1 DEF Paired
        <4> QED
          BY <4>1, <4>2
      <3> QED
        BY <1>4, <3>1
    <2> QED
      BY <1>4, <1>5, <2>1, ChunkFacts, Lengths DEF Wanted
  <1>6. CASE pc = "body"
    <2>1. rx \in 1..Len(plan) /\ rx \in 1..Len(sealed) /\ plan[rx] = sealed[rx]
          /\ sealed[rx].kind = "len" /\ net_length = sealed[rx].says
      BY <1>1, <1>2, <1>3, <1>4, <1>6 DEF Turn
    <2>2. PICK m \in Message : plan[rx] = Length(Size[m]) /\ plan[k] = Body(m)
      BY <1>3, <2>1 DEF Paired
    <2>3. sealed[k].kind = "body" /\ sealed[k].size = Size[m] /\ net_length = Size[m]
          /\ Size[m] \in Nat
      BY <1>4, <2>1, <2>2, WireAssumption DEF Body, Length
    <2> QED
      BY <1>6, <2>3, Lengths DEF Wanted
  <1> QED
    BY <1>1, <1>5, <1>6

LEMMA CalmOpens ==
  ASSUME TInv, Clean, Calm, Full
  PROVE  /\ rx # Len(sealed) /\ Opens(rx + 1)
         /\ Run(sealed, pipe \o rest, rx + 1)
  <1>1. sealed \in Seq(Chunk) /\ rx \in 0..Len(sealed) /\ got \in Seq(Byte)
        /\ Len(got) = Wanted /\ Wanted >= 1
    BY WantedNat DEF TInv, WInv, Types, Texts, Full
  <1>2. Run(sealed, got \o (pipe \o rest), rx)
    BY DEF Clean, Underway
  <1>3. rx # Len(sealed)
    <2> SUFFICES ASSUME rx = Len(sealed) PROVE FALSE
      OBVIOUS
    <2>1. got \o (pipe \o rest) = <<>>
      BY <1>2 DEF Run
    <2>2. got = <<>>
      BY <1>1, <2>1, UnderwayFacts, ConcatEqualIffEmpty
    <2> QED
      BY <1>1, <2>2
  <1>4. pipe \o rest \in Seq(Byte) /\ Within(sealed, pipe \o rest)
    BY UnderwayFacts
  <1>5. Len(got) = sealed[rx + 1].size + ABytes
    BY <1>1, <1>3, Expected
  <1>6. got = Cipher(rx + 1, sealed[rx + 1]) /\ Run(sealed, pipe \o rest, rx + 1)
    BY <1>1, <1>2, <1>3, <1>4, <1>5, RunPulled
  <1> QED
    BY <1>1, <1>3, <1>6 DEF Opens

LEMMA CleanPulled ==
  ASSUME TInv, Clean, Calm, Pulled, rx' = rx + 1, got' = <<>>,
         UNCHANGED <<sealed, todo, announcing, rest, pipe>>
  PROVE  /\ Len(announcing') <= 1
         /\ Paired(sealed \o Due)' /\ Run(sealed, Underway, rx)'
         /\ sealed'[rx'] = sealed[rx + 1] /\ sealed[rx + 1].kind = pc
         /\ Plain = sealed[rx + 1] /\ rx' > 0
  <1>1. Full
    BY DEF Pulled
  <1>2. rx # Len(sealed) /\ Run(sealed, pipe \o rest, rx + 1)
    BY <1>1, CalmOpens
  <1>3. Underway' = <<>> \o (pipe \o rest)
    BY DEF Underway
  <1>4. pipe \o rest \in Seq(Byte)
    BY UnderwayFacts
  <1>5. Underway' = pipe \o rest
    BY <1>3, <1>4, ConcatEmptySeq
  <1>6. Run(sealed, Underway, rx)'
    <2>1. Run(sealed', Underway', rx')
      BY <1>2, <1>5
    <2> QED
      BY <2>1 DEF Run, After
  <1>7. Paired(sealed \o Due)'
    BY DEF Clean, Paired, Due
  <1>9. Len(announcing') <= 1
    BY DEF Clean
  <1>8. rx' > 0
    BY DEF TInv, WInv, Types
  <1> QED
    BY <1>2, <1>6, <1>7, <1>8, <1>9, Expected, PulledChunk

\* Bytes that are only moved on.
LEMMA CleanMoved ==
  ASSUME TInv, Clean, Calm' => Calm, UNCHANGED <<sealed, todo, announcing, rx, pc, net_length>>,
         Underway' = Underway
  PROVE  Clean'
  <1> SUFFICES ASSUME Calm' PROVE Len(announcing') <= 1 /\ Paired(sealed \o Due)' /\ Turn' /\ Run(sealed, Underway, rx)'
    BY DEF Clean
  <1>1. Len(announcing) <= 1 /\ Paired(sealed \o Due) /\ Turn /\ Run(sealed, Underway, rx)
    BY DEF Clean
  <1>2. Len(announcing') <= 1 /\ Paired(sealed \o Due)' /\ Turn'
    BY <1>1 DEF Paired, Turn, Due
  <1>3. Run(sealed', Underway', rx')
    BY <1>1
  <1> QED
    BY <1>2, <1>3 DEF Run, After

Associative(s, t, u) == (s \o t) \o u = s \o (t \o u)

LEMMA Joined ==
  ASSUME NEW s \in Seq(Byte), NEW t \in Seq(Byte), NEW u \in Seq(Byte)
  PROVE  Associative(s, t, u)
  BY ConcatAssociative DEF Associative

LEMMA SendClean ==
  ASSUME TInv, Clean, NEW n \in 1..Len(rest), Send(n)
  PROVE  Clean'
  <1> DEFINE a == SubSeq(rest, 1, n)
             b == SubSeq(rest, n + 1, Len(rest))
  <1>1. got \in Seq(Byte) /\ pipe \in Seq(Byte) /\ rest \in Seq(Byte)
    BY UnderwayFacts
  <1>2. a \in Seq(Byte) /\ b \in Seq(Byte)
    BY <1>1, Cut
  <1>3. a \o b = rest
    <2>1. a \o b = SubSeq(rest, 1, Len(rest))
      BY <1>1, ConcatAdjacentSubSeq
    <2> QED
      BY <1>1, <2>1, SubSeqFull
  <1>4. pipe' = pipe \o a /\ rest' = b /\ UNCHANGED <<got, sealed, todo, rx, pc, net_length>>
        /\ UNCHANGED <<announcing, mixed, faults, writing, reading>>
    BY DEF Send, Unsent, reader
  <1> HIDE DEF a, b
  <1>5. pipe' \o rest' = pipe \o rest
    <2>1. Associative(pipe, a, b)
      BY <1>1, <1>2, Joined
    <2> QED
      BY <1>3, <1>4, <2>1 DEF Associative
  <1>6. Underway' = Underway
    BY <1>4, <1>5 DEF Underway
  <1> QED
    BY <1>4, <1>6, CleanMoved DEF Calm

LEMMA RecvClean ==
  ASSUME TInv, Clean, NEW n \in 1..Len(pipe), Recv(n)
  PROVE  Clean'
  <1> DEFINE a == SubSeq(pipe, 1, n)
             b == SubSeq(pipe, n + 1, Len(pipe))
  <1>1. got \in Seq(Byte) /\ pipe \in Seq(Byte) /\ rest \in Seq(Byte)
    BY UnderwayFacts
  <1>2. a \in Seq(Byte) /\ b \in Seq(Byte)
    BY <1>1, Cut
  <1>3. a \o b = pipe
    <2>1. a \o b = SubSeq(pipe, 1, Len(pipe))
      BY <1>1, ConcatAdjacentSubSeq
    <2> QED
      BY <1>1, <2>1, SubSeqFull
  <1>4. got' = got \o a /\ pipe' = b /\ UNCHANGED <<rest, sealed, todo, rx, pc, net_length>>
        /\ UNCHANGED <<announcing, mixed, faults, writing, reading>>
    BY DEF Recv, Received, writer
  <1> HIDE DEF a, b
  <1>5. b \o rest \in Seq(Byte)
    BY <1>1, <1>2, ConcatProperties
  <1>6. Associative(got, a, b \o rest)
    BY <1>1, <1>2, <1>5, Joined
  <1>7. Associative(a, b, rest)
    BY <1>1, <1>2, Joined
  <1>8. Underway' = Underway
    BY <1>3, <1>4, <1>6, <1>7 DEF Underway, Associative
  <1> QED
    BY <1>4, <1>8, CleanMoved DEF Calm

LEMMA Couple ==
  ASSUME NEW S, NEW a \in S, NEW b \in S
  PROVE  Append(<<a>>, b) = <<a, b>>
  <1>1. <<a>> \in Seq(S) /\ Len(<<a>>) = 1 /\ <<a>>[1] = a
    OBVIOUS
  <1>2. <<a, b>> \in Seq(S) /\ Len(<<a, b>>) = 2 /\ <<a, b>>[1] = a /\ <<a, b>>[2] = b
    OBVIOUS
  <1> DEFINE s == Append(<<a>>, b)
  <1>3. s \in Seq(S) /\ Len(s) = 2 /\ s[1] = a /\ s[2] = b
    BY <1>1, AppendProperties
  <1> HIDE DEF s
  <1>4. \A i \in 1..2 : s[i] = <<a, b>>[i]
    BY <1>2, <1>3
  <1> QED
    BY <1>2, <1>3, <1>4, SeqEqual DEF s

LEMMA OfferClean ==
  ASSUME TInv, Clean, NEW m \in Message, Offer(m)
  PROVE  Clean'
  <1> SUFFICES ASSUME Calm' PROVE Len(announcing') <= 1 /\ Paired(sealed \o Due)' /\ Turn' /\ Run(sealed, Underway, rx)'
    BY DEF Clean
  <1> DEFINE l == Length(Size[m])
             b == Body(m)
             n == Len(sealed)
             plan == sealed \o <<l, b>>
  <1>1. /\ UNCHANGED <<sealed, rx, pc, net_length, got, pipe, rest, faults, writing, reading>>
        /\ todo = <<>> /\ announcing = <<>> /\ ~mixed /\ announcing' = <<m>>
        /\ todo' = <<l>>
    <2>1. /\ UNCHANGED <<sealed, rx, pc, net_length, got, pipe, rest, faults, writing, reading>>
          /\ todo = <<>> /\ todo' = <<l>>
      BY DEF Offer, Idle, reader
    <2>2. announcing = <<>> /\ announcing' = Append(announcing, m) /\ ~mixed
      <3>1. mixed' = (mixed \/ announcing # <<>>) /\ announcing' = Append(announcing, m)
        BY DEF Offer
      <3>2. ~mixed'
        BY DEF Calm
      <3> QED
        BY ONLY <3>1, <3>2
    <2>3. Append(<<>>, m) = <<m>>
      OBVIOUS
    <2> QED
      BY ONLY <2>1, <2>2, <2>3
  <1>2. Paired(sealed \o Due) /\ Turn /\ Run(sealed, Underway, rx)
    BY <1>1 DEF Clean, Calm
  <1>3. sealed \in Seq(Chunk) /\ n \in Nat
    BY DEF TInv, Texts
  <1>4. sealed \o Due = sealed /\ Due' = <<l, b>> /\ Len(announcing') <= 1
    <2>1. Due = <<>>
      BY <1>1 DEF Due
    <2>2. sealed \o <<>> = sealed
      BY <1>3, ConcatEmptySeq
    <2>3. Head(<<m>>) = m /\ <<m>> # <<>> /\ Len(<<m>>) = 1 /\ Append(<<l>>, b) = <<l, b>>
      <3> HIDE DEF l, b
      <3>1. Head(<<m>>) = m /\ <<m>> # <<>>
        OBVIOUS
      <3>2. Len(<<m>>) = 1
        OBVIOUS
      <3>3. l \in Chunk /\ b \in Chunk
        BY DEF Chunk, l, b
      <3>4. Append(<<l>>, b) = <<l, b>>
        BY <3>3, Couple
      <3> QED
        BY <3>1, <3>2, <3>4
    <2>4. Due' = Append(<<l>>, b)
      BY <1>1, <2>3 DEF Due
    <2> QED
      BY <1>1, <2>1, <2>2, <2>3, <2>4
  <1>5. l \in Chunk /\ b \in Chunk /\ l.kind = "len" /\ b.kind = "body"
    BY DEF Chunk, Length, Body
  <1>6. <<l, b>> \in Seq(Chunk) /\ Len(<<l, b>>) = 2 /\ <<l, b>>[1] = l /\ <<l, b>>[2] = b
    BY <1>5
  <1> HIDE DEF l, b, n
  <1>7. plan \in Seq(Chunk) /\ Len(plan) = n + 2
        /\ \A i \in 1..(n + 2) : plan[i] = IF i <= n THEN sealed[i] ELSE <<l, b>>[i - n]
    BY <1>3, <1>6, ConcatProperties DEF n
  <1>8. plan[n + 1] = l /\ plan[n + 2] = b /\ \A i \in 1..n : plan[i] = sealed[i]
    BY <1>3, <1>6, <1>7
  <1> HIDE DEF plan
  <1>9. Paired(plan)
    <2>1. ASSUME NEW k \in 1..Len(plan), plan[k].kind = "len"
          PROVE  /\ k < Len(plan)
                 /\ \E x \in Message : plan[k] = Length(Size[x]) /\ plan[k + 1] = Body(x)
      <3>1. CASE k <= n
        <4>1. k \in 1..n /\ sealed[k].kind = "len"
          BY <1>3, <1>8, <2>1, <3>1
        <4>2. k < n /\ \E x \in Message : sealed[k] = Length(Size[x]) /\ sealed[k + 1] = Body(x)
          BY <1>2, <1>4, <4>1 DEF Paired, n
        <4>3. PICK x \in Message : sealed[k] = Length(Size[x]) /\ sealed[k + 1] = Body(x)
          BY <4>2
        <4>4. k + 1 \in 1..n /\ k < Len(plan)
          BY <1>3, <1>7, <4>1, <4>2
        <4>5. plan[k] = Length(Size[x]) /\ plan[k + 1] = Body(x)
          BY <1>8, <4>1, <4>3, <4>4
        <4> QED
          BY <4>4, <4>5
      <3>2. CASE k = n + 1
        BY <1>3, <1>7, <1>8, <3>2 DEF l, b
      <3>3. CASE k = n + 2
        BY <1>5, <1>8, <2>1, <3>3
      <3> QED
        BY <1>3, <1>7, <3>1, <3>2, <3>3
    <2>2. ASSUME NEW k \in 1..(Len(plan) - 1), plan[k].kind = "body"
          PROVE  plan[k + 1].kind = "len"
      <3>1. CASE k < n
        <4>1. k \in 1..(n - 1) /\ k + 1 \in 1..n /\ k \in 1..n
          BY <1>3, <3>1
        <4> QED
          BY <1>2, <1>4, <1>8, <2>2, <4>1 DEF Paired, n
      <3>2. CASE k = n
        BY <1>5, <1>8, <3>2
      <3>3. CASE k = n + 1
        BY <1>5, <1>8, <2>2, <3>3
      <3> QED
        BY <1>3, <1>7, <3>1, <3>2, <3>3
    <2>3. plan[1].kind = "len"
      <3>1. CASE n = 0
        BY <1>5, <1>8, <3>1
      <3>2. CASE n > 0
        BY <1>2, <1>3, <1>4, <1>8, <3>2 DEF Paired, n
      <3> QED
        BY <1>3, <3>1, <3>2
    <2> QED
      BY <2>1, <2>2, <2>3 DEF Paired
  <1>10. Paired(sealed \o Due)'
    <2>1. Paired(sealed' \o Due')
      BY <1>1, <1>4, <1>9 DEF plan
    <2> QED
      BY <2>1 DEF Paired
  <1>11. Turn' /\ Underway' = Underway
    BY <1>1, <1>2 DEF Turn, Underway
  <1>12. Run(sealed', Underway', rx')
    BY <1>1, <1>2, <1>11
  <1> QED
    BY <1>4, <1>10, <1>11, <1>12 DEF Run, After

\* The body was due already.
LEMMA FinishClean ==
  ASSUME TInv, Clean, NEW i \in 1..Len(announcing), Finish(i)
  PROVE  Clean'
  <1> SUFFICES ASSUME Calm' PROVE Len(announcing') <= 1 /\ Paired(sealed \o Due)' /\ Turn' /\ Run(sealed, Underway, rx)'
    BY DEF Clean
  <1>1. /\ UNCHANGED <<sealed, rx, pc, net_length, got, pipe, rest, mixed, faults, writing, reading>>
        /\ todo = <<>> /\ todo' = <<Body(announcing[i])>> /\ announcing' = RemoveAt(announcing, i)
    BY DEF Finish, Idle, reader
  <1>2. Len(announcing) <= 1 /\ Paired(sealed \o Due) /\ Turn /\ Run(sealed, Underway, rx)
    BY <1>1 DEF Clean, Calm
  <1>3. announcing \in Seq(Message) /\ Len(announcing) = 1 /\ i = 1 /\ announcing # <<>>
    <2>1. announcing \in Seq(Message)
      BY DEF TInv, Texts
    <2> DEFINE n == Len(announcing)
    <2>2. n \in Nat /\ i \in 1..n /\ n <= 1
      BY <1>2, <2>1
    <2> HIDE DEF n
    <2>3. n = 1 /\ i = 1
      BY <2>2
    <2>4. Len(<<>>) = 0
      OBVIOUS
    <2>5. announcing # <<>> /\ Len(announcing) = 1
      BY <2>3, <2>4 DEF n
    <2> QED
      BY ONLY <2>1, <2>3, <2>5
  <1>4. announcing' = <<>> /\ Len(<<>>) <= 1
    BY <1>1, <1>3, Undone
  <1>5. Due = <<Body(announcing[1])>> /\ Due' = <<Body(announcing[1])>>
    <2>1. Head(announcing) = announcing[1]
      BY <1>3
    <2> QED
      BY <1>1, <1>3, <1>4, <2>1 DEF Due
  <1>6. Paired(sealed' \o Due') /\ Underway' = Underway /\ Turn'
    BY <1>1, <1>2, <1>5 DEF Turn, Underway
  <1>7. Run(sealed', Underway', rx')
    BY <1>1, <1>2, <1>6
  <1> QED
    BY <1>4, <1>6, <1>7 DEF Paired, Run, After

LEMMA PushClean ==
  ASSUME TInv, Clean, Push
  PROVE  Clean'
  <1> SUFFICES ASSUME Calm' PROVE Len(announcing') <= 1 /\ Paired(sealed \o Due)' /\ Turn' /\ Run(sealed, Underway, rx)'
    BY DEF Clean
  <1> DEFINE p == Head(todo)
             c == Cipher(Len(sealed) + 1, p)
  <1>1. /\ sealed \in Seq(Chunk) /\ todo \in Seq(Chunk) /\ todo # <<>> /\ rx \in 0..Len(sealed)
        /\ announcing \in Seq(Message)
    BY DEF TInv, WInv, Types, Texts, Push
  <1>2. /\ sealed' = Append(sealed, p) /\ todo' = Tail(todo) /\ rest = <<>> /\ rest' = c
        /\ UNCHANGED <<rx, pc, net_length, got, pipe, announcing, mixed, faults, writing, reading>>
    BY DEF Push, reader
  <1>3. Len(announcing') <= 1 /\ Paired(sealed \o Due) /\ Turn /\ Run(sealed, Underway, rx)
    BY <1>2 DEF Clean, Calm
  <1>4. p \in Chunk /\ Tail(todo) \in Seq(Chunk) /\ todo = <<p>> \o Tail(todo)
        /\ <<p>> \in Seq(Chunk)
    BY <1>1, HeadTailProperties
  <1>5. c \in Seq(Byte)
    <2>1. p.size + ABytes \in Nat
      BY <1>4, ChunkFacts, Lengths
    <2> QED
      BY <1>1, <2>1, CipherBytes
  <1> HIDE DEF p, c
  <1>13. Due' \in Seq(Chunk) /\ Due = <<p>> \o Due'
    <2> DEFINE x == Body(Head(announcing))
    <2>1. CASE announcing = <<>>
      BY <1>2, <1>4, <2>1 DEF Due
    <2>2. CASE announcing # <<>>
      <3>1. Head(announcing) \in Message
        BY <1>1, <2>2, HeadTailProperties
      <3>2. x \in Chunk /\ <<x>> \in Seq(Chunk)
        BY <3>1 DEF Chunk
      <3>3. Due = Append(todo, x) /\ Due' = Append(Tail(todo), x)
        BY <1>2, <2>2 DEF Due
      <3> HIDE DEF x
      <3>4. Due = todo \o <<x>> /\ Due' = Tail(todo) \o <<x>> /\ Due' \in Seq(Chunk)
        BY <1>1, <1>4, <3>2, <3>3, AppendIsConcat, AppendProperties
      <3>5. (<<p>> \o Tail(todo)) \o <<x>> = <<p>> \o (Tail(todo) \o <<x>>)
        BY <1>4, <3>2, ConcatAssociative
      <3> QED
        BY <1>4, <3>4, <3>5
    <2> QED
      BY <2>1, <2>2
  <1>6. sealed' \o Due' = sealed \o Due
    <2>1. sealed' = sealed \o <<p>>
      BY <1>1, <1>2, <1>4, AppendIsConcat
    <2> DEFINE d == Due'
    <2>3. d \in Seq(Chunk)
      BY <1>13
    <2> HIDE DEF d
    <2>4. sealed \in Seq(Chunk) /\ <<p>> \in Seq(Chunk)
      BY <1>1, <1>4
    <2>2. (sealed \o <<p>>) \o d = sealed \o (<<p>> \o d)
      BY ONLY <2>3, <2>4, ConcatAssociative
    <2> QED
      BY <1>13, <2>1, <2>2 DEF d
  <1>7. Underway' = Underway \o c
    <2>1. got \in Seq(Byte) /\ pipe \in Seq(Byte)
      BY UnderwayFacts
    <2>2. pipe \o rest = pipe
      BY <1>2, <2>1, ConcatEmptySeq
    <2>3. (got \o pipe) \o c = got \o (pipe \o c)
      BY <1>5, <2>1, ConcatAssociative
    <2> QED
      BY <1>2, <2>2, <2>3 DEF Underway
  <1>8. Underway \in Seq(Byte) /\ Within(sealed, Underway)
    BY UnderwayFacts
  <1>9. Run(Append(sealed, p), Underway \o c, rx)
    BY <1>1, <1>3, <1>4, <1>8, RunAppend DEF c
  <1>10. Run(sealed, Underway, rx)'
    <2>1. Run(sealed', Underway', rx')
      BY <1>2, <1>7, <1>9
    <2> QED
      BY <2>1 DEF Run, After
  <1>11. Paired(sealed \o Due)'
    <2>1. Paired(sealed' \o Due')
      BY <1>3, <1>6
    <2> QED
      BY <2>1 DEF Paired
  <1>12. Turn'
    <2>1. rx # 0 => sealed'[rx] = sealed[rx]
      BY <1>1, <1>2, <1>4, AppendProperties
    <2> QED
      BY <1>1, <1>2, <1>3, <2>1 DEF Turn
  <1> QED
    BY <1>3, <1>10, <1>11, <1>12

LEMMA AnswerClean ==
  ASSUME TInv, Clean, Answer
  PROVE  Clean'
  <1> SUFFICES ASSUME Calm' PROVE Len(announcing') <= 1 /\ Paired(sealed \o Due)' /\ Turn' /\ Run(sealed, Underway, rx)'
    BY DEF Clean
  <1>1. /\ UNCHANGED <<writer, pipe, writing>>
        /\ faults' = faults \/ faults' = faults + 1
        /\ reading' = reading \/ ~reading'
    BY DEF Answer, GotLength, GotBody, GotNothing, ServerNoLength, ServerNoBody,
           ClientNoLength, ClientNoBuffer, ClientOverrun, ClientNoBody, Failed, Failing, Done
  <1>2. Calm /\ faults' = faults
    <2>3. UNCHANGED <<mixed, writing>>
      BY <1>1 DEF writer
    <2>1. faults \in Nat /\ (~reading => ~reading')
      BY Limits DEF TInv, Bounds, Answer, GotLength, GotBody, GotNothing, ServerNoLength,
         ServerNoBody, ClientNoLength, ClientNoBuffer, ClientOverrun, ClientNoBody, Done
    <2> QED
      BY <1>1, <2>1, <2>3 DEF Calm
  <1>3. ~Failed
    BY <1>2, CalmOpens DEF Failed, Failing, Calm
  <1>4. ~ClientNoBuffer /\ ~ClientOverrun
    BY <1>2 DEF ClientNoBuffer, ClientOverrun, Done, Calm, TInv, Bounds
  <1>5. ~GotNothing
    BY DEF Calm, GotNothing, Done
  <1>6. UNCHANGED <<sealed, todo, announcing, rest, pipe>>
    BY <1>1 DEF writer
  <1>7. CASE GotLength
    <2>1. /\ Len(announcing') <= 1 /\ Paired(sealed \o Due)' /\ Run(sealed, Underway, rx)'
          /\ sealed'[rx'] = sealed[rx + 1] /\ sealed[rx + 1].kind = "len"
          /\ Plain = sealed[rx + 1] /\ rx' > 0
      BY <1>2, <1>6, <1>7, CleanPulled DEF GotLength
    <2>2. pc' = "body" /\ net_length' = Plain.says
      BY <1>7 DEF GotLength, Done, Calm
    <2>3. Turn'
      BY <2>1, <2>2 DEF Turn
    <2> QED
      BY <2>1, <2>3
  <1>8. CASE GotBody
    <2>1. /\ Len(announcing') <= 1 /\ Paired(sealed \o Due)' /\ Run(sealed, Underway, rx)'
          /\ sealed'[rx'] = sealed[rx + 1] /\ sealed[rx + 1].kind = "body"
      BY <1>2, <1>6, <1>8, CleanPulled DEF GotBody
    <2>2. Turn'
      BY <1>8, <2>1 DEF Turn, GotBody
    <2> QED
      BY <2>1, <2>2
  <1> QED
    BY <1>3, <1>4, <1>5, <1>7, <1>8
       DEF Answer, ServerNoLength, ServerNoBody, ClientNoLength, ClientNoBody

\* The network and the end of the writer only ever end the calm.
LEMMA FaultClean ==
  ASSUME TInv, \/ PushNoMemory
               \/ \E k \in 0..Len(pipe) : WriterGone(k)
               \/ \E i \in 1..Len(pipe) : Tamper(i)
               \/ SendFails
  PROVE  Clean'
  <1>1. faults \in Nat
    BY Limits DEF TInv, Bounds
  <1>2. ~Calm'
    BY <1>1 DEF Calm, PushNoMemory, WriterGone, Tamper, SendFails
  <1> QED
    BY <1>2 DEF Clean

LEMMA StepClean ==
  ASSUME TInv, Clean, [Next]_vars
  PROVE  Clean'
  <1>1. CASE UNCHANGED vars
    <2>1. UNCHANGED <<sealed, todo, announcing, mixed, rx, pc, net_length, faults, writing, reading>>
      BY <1>1 DEF vars, writer, reader
    <2>2. Underway' = Underway
      BY <1>1 DEF vars, writer, reader, Underway
    <2> QED
      BY <2>1, <2>2, CleanMoved DEF Calm
  <1>2. CASE Next
    BY <1>2, OfferClean, FinishClean, PushClean, SendClean, RecvClean, AnswerClean, FaultClean
       DEF Next, Sending, Receiving
  <1> QED
    BY <1>1, <1>2

LEMMA InitClean == Init => Clean
  <1> SUFFICES ASSUME Init PROVE Clean
    OBVIOUS
  <1>1. /\ sealed = <<>> /\ todo = <<>> /\ got = <<>> /\ pipe = <<>> /\ rest = <<>>
        /\ announcing = <<>> /\ Due = <<>>
        /\ rx = 0 /\ pc = "len" /\ Len(<<>>) = 0 /\ <<>> \o <<>> = <<>>
    BY DEF Init, Due
  <1>2. Underway = <<>>
    BY <1>1 DEF Underway
  <1>3. Paired(sealed \o Due)
    BY <1>1 DEF Paired
  <1> QED
    BY <1>1, <1>2, <1>3 DEF Clean, Turn, Run

(* As long as nothing is tampered with or refused, both ends live and no   *)
(* two announcements overlap, the bytes that recv_raw has, that are on     *)
(* their way and that send_raw has still to send are exactly those of the  *)
(* chunks not yet pulled, one after the other, however send and recv cut   *)
(* them up.                                                                *)
THEOREM NothingLostCorrect == Spec => []NothingLost
  <1>1. Init => TInv /\ Clean
    BY InitTypes, InitClean
  <1>2. TInv /\ Clean /\ [Next]_vars => TInv' /\ Clean'
    BY TypeSteps, StepClean
  <1>3. TInv /\ Clean => NothingLost
    <2> SUFFICES ASSUME TInv, Clean, Calm PROVE
          IF rx = Len(sealed) THEN Underway = <<>>
          ELSE /\ Underway # <<>>
               /\ Underway[1] = FirstByte(rx + 1)
               /\ Underway[Len(Underway)] = LastByte(Len(sealed))
               /\ \A i \in 1..(Len(Underway) - 1) : Underway[i + 1] = NextByte(Underway[i])
      BY DEF NothingLost, Calm
    <2>1. Run(sealed, Underway, rx)
      BY DEF Clean
    <2> QED
      BY <2>1 DEF Run, At, After, FirstByte, LastByte, LastPos, NextByte
  <1> QED
    BY <1>1, <1>2, <1>3, PTL DEF Spec

=============================================================================
