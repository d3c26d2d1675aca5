----------------------------- MODULE TrustProofs -----------------------------
(***************************************************************************)
(* Proofs about trust on first use, for any number of clients, addresses,  *)
(* keys and crashes.                                                       *)
(***************************************************************************)
EXTENDS TrustProps, TLAPS, FiniteSetTheorems, WellFoundedInduction

-----------------------------------------------------------------------------
(***************************************************************************)
(* The first member of a name.  That there is a first one is the           *)
(* well-foundedness of < on the natural numbers.                           *)
(***************************************************************************)
Below == {p \in Nat \X Nat : p[1] < p[2]}

LEMMA BelowWellFounded == IsWellFoundedOn(Below, Nat)
  <1>1. IsWellFoundedOn(OpToRel(<, Nat), Nat)
    BY NatLessThanWellFounded
  <1>2. OpToRel(<, Nat) = Below
    BY DEF OpToRel, Below
  <1> QED
    BY <1>1, <1>2

LEMMA Least ==
  ASSUME NEW T \in SUBSET Nat, T # {}
  PROVE  \E x \in T : \A y \in T : ~(y < x)
  <1>1. \E x \in T : \A y \in T : <<y, x>> \notin Below
    BY BelowWellFounded, WFMin
  <1> QED
    BY <1>1 DEF Below

First(es, a, i) == i \in DOMAIN es /\ es[i].ip = a /\ \A j \in 1..(i - 1) : es[j].ip # a

LEMMA FirstExists ==
  ASSUME NEW es \in Seq(Pair), NEW a, NEW k \in DOMAIN es, es[k].ip = a
  PROVE  \E i \in DOMAIN es : First(es, a, i)
  <1> DEFINE T == {i \in DOMAIN es : es[i].ip = a}
  <1>1. DOMAIN es = 1..Len(es) /\ Len(es) \in Nat
    OBVIOUS
  <1>2. T \in SUBSET Nat /\ T # {}
    BY <1>1
  <1>3. PICK i \in T : \A j \in T : ~(j < i)
    BY <1>2, Least
  <1>4. \A j \in 1..(i - 1) : j \in DOMAIN es /\ j < i
    BY <1>1, <1>3
  <1>5. First(es, a, i)
    BY <1>3, <1>4 DEF First
  <1> QED
    BY <1>3, <1>5

LEMMA FirstUnique ==
  ASSUME NEW es \in Seq(Pair), NEW a, NEW i, NEW k, First(es, a, i), First(es, a, k)
  PROVE  i = k
  <1>1. i \in Nat /\ k \in Nat /\ i >= 1 /\ k >= 1
    BY DEF First
  <1> QED
    BY <1>1 DEF First

\* What cJSON_GetObjectItemCaseSensitive returns, if the name is there.
LEMMA LookupFirst ==
  ASSUME NEW es \in Seq(Pair), NEW a, NEW i, First(es, a, i)
  PROVE  Lookup(es, a) = es[i].key
  <1> DEFINE k == CHOOSE n \in DOMAIN es : es[n].ip = a /\ \A j \in 1..(n - 1) : es[j].ip # a
  <1>1. Lookup(es, a) = es[k].key
    BY DEF Lookup, First
  <1>2. First(es, a, k)
    BY DEF First
  <1>3. k = i
    BY <1>2, FirstUnique
  <1> QED
    BY <1>1, <1>3

LEMMA Element ==
  ASSUME NEW es \in Seq(Pair), NEW i \in DOMAIN es
  PROVE  es[i] \in Pair /\ es[i].ip \in Ip /\ es[i].key \in Key /\ es[i] = [ip |-> es[i].ip, key |-> es[i].key]
  <1>1. es[i] \in Pair
    OBVIOUS
  <1> QED
    BY <1>1 DEF Pair

LEMMA LookupCases ==
  ASSUME NEW es \in Seq(Pair), NEW a, None \notin Key
  PROVE  \/ Lookup(es, a) = None /\ \A i \in DOMAIN es : es[i].ip # a
         \/ /\ Lookup(es, a) # None
            /\ \E i \in DOMAIN es : First(es, a, i) /\ Lookup(es, a) = es[i].key
  <1>1. CASE \A i \in DOMAIN es : es[i].ip # a
    BY <1>1 DEF Lookup
  <1>2. CASE \E i \in DOMAIN es : es[i].ip = a
    <2>1. PICK i \in DOMAIN es : First(es, a, i)
      BY <1>2, FirstExists
    <2>2. Lookup(es, a) = es[i].key /\ es[i].key \in Key
      BY <2>1, LookupFirst, Element
    <2> QED
      BY <2>1, <2>2
  <1> QED
    BY <1>1, <1>2

\* A member that is added behind the others hides none of them.
LEMMA LookupAdded ==
  ASSUME NEW es \in Seq(Pair), NEW pair \in Pair, NEW a, None \notin Key
  PROVE  /\ Lookup(es, a) # None => Lookup(Added(es, pair), a) = Lookup(es, a)
         /\ Lookup(es, a) = None /\ a = pair.ip => Lookup(Added(es, pair), a) = pair.key
  <1> DEFINE fs == Append(es, pair)
  <1>1. /\ fs \in Seq(Pair) /\ Len(es) \in Nat /\ DOMAIN es = 1..Len(es)
        /\ DOMAIN fs = 1..(Len(es) + 1) /\ fs[Len(es) + 1] = pair
        /\ \A i \in DOMAIN es : i \in DOMAIN fs /\ fs[i] = es[i]
    OBVIOUS
  <1> HIDE DEF fs
  <1>2. ASSUME Lookup(es, a) # None PROVE Lookup(fs, a) = Lookup(es, a)
    <2>1. PICK i \in DOMAIN es : First(es, a, i) /\ Lookup(es, a) = es[i].key
      BY <1>2, LookupCases
    <2>2. \A j \in 1..(i - 1) : j \in DOMAIN es
      BY <1>1, <2>1
    <2>3. First(fs, a, i)
      BY <1>1, <2>1, <2>2 DEF First
    <2> QED
      BY <1>1, <2>1, <2>3, LookupFirst
  <1>3. ASSUME Lookup(es, a) = None, a = pair.ip PROVE Lookup(fs, a) = pair.key
    <2>1. \A i \in DOMAIN es : es[i].ip # a
      BY <1>3, LookupCases
    <2>2. First(fs, a, Len(es) + 1)
      BY <1>1, <1>3, <2>1 DEF First
    <2> QED
      BY <1>1, <2>2, LookupFirst
  <1> QED
    BY <1>2, <1>3 DEF Added, fs

-----------------------------------------------------------------------------
(* The inductive invariant.                                                *)

Own(c) == [ip |-> ip[c], key |-> server_pk[c]]

Past == {"open", "create", "braces", "read", "truncate", "write", "send", "in"}

Trusted(es) == \A i \in DOMAIN es : es[i] \in confirmed

\* The pairs in the file, and those on their way into it, have been confirmed.
Confirmed ==
  /\ Trusted(known.entries)
  /\ \A c \in Client : Trusted(json[c])
  /\ \A c \in Client : pc[c] \in Past => Own(c) \in confirmed

\* Until something ends in the middle of it, the server makes one key.
OneKey ==
  /\ server_key # "absent" \/ keeping => made >= 1
  /\ crashes = 0 =>
       /\ server_key = "absent" => presented = {} /\ ~keeping
       /\ server_key = "empty" => presented = {} /\ keeping
       /\ server_key = "whole" => presented \subseteq {made} /\ ~keeping

NoText == known.is # "text" => known.entries = <<>>

LEMMA Assumed ==
  /\ Home \in Ip /\ None \notin Key
  /\ MaxKeys \in Nat /\ MaxConnects \in Nat /\ MaxCrashes \in Nat
  BY TrustAssumption

TInv == TypeOK /\ OneKey /\ NoText /\ Confirmed

LEMMA TInvInit == Init => TInv
  <1> SUFFICES ASSUME Init PROVE TInv
    OBVIOUS
  <1>1. TypeOK
    <2>1. known \in [is : {"absent", "torn", "text"}, entries : Seq(Pair)]
      BY DEF Init, Absent
    <2>2. server_pk \in [Client -> Key]
      BY DEF Init, Key
    <2>3. json \in [Client -> Seq(Pair)]
      <3>1. <<>> \in Seq(Pair)
        OBVIOUS
      <3> QED
        BY <3>1 DEF Init
    <2>4. made \in 0..MaxKeys /\ connects \in 0..MaxConnects /\ crashes \in 0..MaxCrashes
      BY Assumed DEF Init
    <2>5. pc \in [Client -> Label] /\ ip \in [Client -> Ip]
      BY Assumed DEF Init, Label
    <2> QED
      BY <2>1, <2>2, <2>3, <2>4, <2>5 DEF Init, TypeOK
  <1>2. OneKey /\ NoText
    BY DEF Init, OneKey, NoText, Absent
  <1>3. Confirmed
    BY DEF Init, Confirmed, Trusted, Absent, Past
  <1> QED
    BY <1>1, <1>2, <1>3 DEF TInv

LEMMA GotoType ==
  ASSUME TypeOK, NEW c \in Client, NEW l \in Label, Goto(c, l)
  PROVE  pc' \in [Client -> Label] /\ pc'[c] = l /\ \A d \in Client : d # c => pc'[d] = pc[d]
  BY DEF Goto, TypeOK

LEMMA OwnPair ==
  ASSUME TypeOK, NEW c \in Client
  PROVE  Own(c) \in Pair
  BY DEF TypeOK, Own, Pair

LEMMA ServerInv ==
  ASSUME TInv, ServerStep
  PROVE  TInv'
  <1> USE DEF TInv, store, client, bounds
  <1>1. TypeOK'
    <2>1. made' \in 0..MaxKeys /\ crashes' \in 0..MaxCrashes
      BY Assumed DEF ServerStep, MakeKey, KeepKey, ServerCrash, TypeOK
    <2>2. UNCHANGED <<known, pinned, pc, ip, server_pk, json, confirmed, presented, connects, overlapped>>
      BY DEF ServerStep, MakeKey, KeepKey, ServerCrash
    <2>3. server_key' \in {"absent", "empty", "whole"} /\ keeping' \in BOOLEAN
      BY DEF ServerStep, MakeKey, KeepKey, ServerCrash, TypeOK
    <2> QED
      BY <2>1, <2>2, <2>3 DEF TypeOK
  <1>2. OneKey'
    <2>0. made \in Nat /\ crashes \in Nat
      BY Assumed DEF TypeOK
    <2>1. CASE MakeKey
      BY <2>0, <2>1 DEF MakeKey, OneKey, NoKeyFile
    <2>2. CASE KeepKey
      <3>1. crashes = 0 => presented = {}
        BY <2>2 DEF KeepKey, OneKey, TypeOK
      <3>2. made >= 1
        BY <2>2, <2>0 DEF KeepKey, OneKey, TypeOK
      <3> QED
        BY <2>2, <3>1, <3>2 DEF KeepKey, OneKey
    <2>3. CASE ServerCrash
      BY <2>0, <2>3 DEF ServerCrash, OneKey
    <2> QED
      BY <2>1, <2>2, <2>3 DEF ServerStep
  <1>3. NoText' /\ Confirmed'
    BY DEF ServerStep, MakeKey, KeepKey, ServerCrash, NoText, Confirmed, Trusted, Own
  <1> QED
    BY <1>1, <1>2, <1>3

\* A client is shown a key.
LEMMA ShownInv ==
  ASSUME TInv, NEW c \in Client, NEW a \in Ip, NEW k \in Key, Shown(c, k),
         ip' = [ip EXCEPT ![c] = a],
         presented' \subseteq Key,
         presented' = presented
           \/ (presented' = presented \cup {k} /\ server_key # "absent" /\ ~keeping
                 /\ (server_key = "whole" => k = made))
  PROVE  TInv'
  <1> USE DEF TInv, store
  <1>1. "check" \in Label
    BY DEF Label
  <1>2. pc' \in [Client -> Label] /\ pc'[c] = "check" /\ \A d \in Client : d # c => pc'[d] = pc[d]
    BY <1>1, GotoType DEF Shown
  <1>3. TypeOK'
    <2>1. connects' \in 0..MaxConnects
      BY Assumed DEF Shown, TypeOK
    <2>2. ip' \in [Client -> Ip] /\ server_pk' \in [Client -> Key]
      BY DEF Shown, TypeOK
    <2>3. UNCHANGED <<known, pinned, json, confirmed, server_key, made, keeping, crashes, overlapped>>
      BY DEF Shown
    <2> QED
      BY <1>2, <2>1, <2>2, <2>3 DEF TypeOK
  <1>4. OneKey'
    BY DEF Shown, TypeOK, OneKey
  <1>5. NoText'
    BY DEF Shown, NoText
  <1>6. Confirmed'
    <2>1. \A d \in Client : d # c => Own(d)' = Own(d)
      BY DEF Shown, TypeOK, Own
    <2> QED
      BY <1>2, <2>1 DEF Shown, Confirmed, Trusted, Past
  <1> QED
    BY <1>3, <1>4, <1>5, <1>6

\* A client moves on without touching a file, an address or a key.
LEMMA MoveInv ==
  ASSUME TInv, NEW c \in Client, NEW l \in Label, Goto(c, l),
         UNCHANGED <<store, ip, server_pk, server, connects>>,
         UNCHANGED json \/ json' = [json EXCEPT ![c] = known.entries] \/ json' = [json EXCEPT ![c] = <<>>],
         overlapped' \in BOOLEAN, crashes' \in 0..MaxCrashes, crashes' # 0 \/ crashes' = crashes,
         confirmed' = confirmed \/ confirmed' = confirmed \cup {Own(c)},
         l \in Past => pc[c] \in Past \/ Own(c) \in confirmed'
  PROVE  TInv'
  <1> USE DEF TInv, store, server
  <1>1. pc' \in [Client -> Label] /\ pc'[c] = l /\ \A d \in Client : d # c => pc'[d] = pc[d]
    BY GotoType
  <1>2. json' \in [Client -> Seq(Pair)]
    <2>1. known.entries \in Seq(Pair) /\ <<>> \in Seq(Pair)
      BY DEF TypeOK
    <2> QED
      BY <2>1 DEF TypeOK
  <1>3. confirmed' \subseteq Pair
    BY OwnPair DEF TypeOK
  <1>4. TypeOK'
    BY <1>1, <1>2, <1>3 DEF TypeOK
  <1>5. OneKey' /\ NoText'
    BY DEF OneKey, NoText
  <1>6. Confirmed'
    <2>1. \A d \in Client : Own(d)' = Own(d)
      BY DEF Own
    <2>2. \A d \in Client : json'[d] = json[d] \/ json'[d] = known.entries \/ json'[d] = <<>>
      BY DEF TypeOK
    <2>3. confirmed \subseteq confirmed'
      OBVIOUS
    <2>4. \A d \in Client : pc'[d] \in Past => pc[d] \in Past \/ Own(d) \in confirmed'
      BY <1>1
    <2>5. Trusted(known.entries)' /\ \A d \in Client : Trusted(json[d])'
      BY <2>2, <2>3 DEF Confirmed, Trusted
    <2> QED
      BY <2>1, <2>3, <2>4, <2>5 DEF Confirmed
  <1> QED
    BY <1>4, <1>5, <1>6

\* A client writes known_servers.json.
LEMMA FileInv ==
  ASSUME TInv, NEW c \in Client, NEW l \in Label, Goto(c, l), pc[c] \in Past,
         UNCHANGED <<ip, server_pk, confirmed, server, bounds, overlapped>>,
         UNCHANGED json \/ json' = [json EXCEPT ![c] = <<>>],
         pinned' = pinned \/ pinned' = pinned \cup {Own(c)},
         known' \in {Torn, Text(<<>>), Text(Added(json[c], Own(c)))}
  PROVE  TInv'
  <1> USE DEF TInv, server, bounds
  <1>1. pc' \in [Client -> Label] /\ pc'[c] = l /\ \A d \in Client : d # c => pc'[d] = pc[d]
    BY GotoType
  <1>2. json' \in [Client -> Seq(Pair)]
    <2>1. <<>> \in Seq(Pair)
      OBVIOUS
    <2> QED
      BY <2>1 DEF TypeOK
  <1>3. pinned' \subseteq Pair
    BY OwnPair DEF TypeOK
  <1>4. json[c] \in Seq(Pair) /\ Own(c) \in Pair
    BY OwnPair DEF TypeOK
  <1>5. known' \in [is : {"absent", "torn", "text"}, entries : Seq(Pair)]
    <2>1. Added(json[c], Own(c)) \in Seq(Pair)
      BY <1>4 DEF Added
    <2>2. <<>> \in Seq(Pair)
      OBVIOUS
    <2>3. \A es \in Seq(Pair) :
            Text(es) \in [is : {"absent", "torn", "text"}, entries : Seq(Pair)]
      BY DEF Text
    <2>4. Torn \in [is : {"absent", "torn", "text"}, entries : Seq(Pair)]
      BY <2>2 DEF Torn
    <2> QED
      BY <2>1, <2>2, <2>3, <2>4
  <1>6. TypeOK'
    BY <1>1, <1>2, <1>3, <1>5 DEF TypeOK
  <1>7. OneKey' /\ NoText'
    BY DEF OneKey, NoText, Torn, Text
  <1>8. Confirmed'
    <2>1. \A d \in Client : Own(d)' = Own(d)
      BY DEF Own
    <2>2. \A d \in Client : json'[d] = json[d] \/ json'[d] = <<>>
      BY DEF TypeOK
    <2>3. Trusted(Added(json[c], Own(c)))
      BY <1>4 DEF Confirmed, Trusted, Added
    <2>4. Trusted(known.entries)'
      BY <2>3 DEF Trusted, Torn, Text
    <2>5. \A d \in Client : Trusted(json[d])'
      BY <2>2 DEF Confirmed, Trusted
    <2>6. \A d \in Client : pc'[d] \in Past => pc[d] \in Past
      BY <1>1
    <2> QED
      BY <2>1, <2>4, <2>5, <2>6 DEF Confirmed
  <1> QED
    BY <1>6, <1>7, <1>8

\* A key that is taken for the stored one is the one stored for that address.
LEMMA VerdictStored ==
  ASSUME TInv, NEW a, NEW k \in Key, Verdict(a, k) \notin {1, 2}
  PROVE  [ip |-> a, key |-> k] \in confirmed
  <1>1. known.entries \in Seq(Pair)
    BY DEF TInv, TypeOK
  <1>2. Lookup(known.entries, a) # None /\ Lookup(known.entries, a) = k
    BY DEF Verdict
  <1>3. PICK i \in DOMAIN known.entries :
          First(known.entries, a, i) /\ k = known.entries[i].key
    BY <1>1, <1>2, LookupCases, Assumed
  <1>4. known.entries[i] = [ip |-> a, key |-> k]
    BY <1>1, <1>3, Element DEF First
  <1> QED
    BY <1>4 DEF TInv, Confirmed, Trusted

LEMMA ClientInv ==
  ASSUME TInv, NEW c \in Client, ClientStep(c)
  PROVE  TInv'
  <1> USE DEF TInv, store, client, server, bounds
  <1>1. \A l \in {"menu", "check", "ask"} \cup Past : l \in Label
    BY DEF Past, Label
  <1>2. CASE ConnectHome(c)
    <2>1. PICK k \in OwnKeys : Shown(c, k) /\ presented' = presented \cup {k}
      BY <1>2 DEF ConnectHome
    <2>2. server_key # "absent" /\ ~keeping
      BY <1>2 DEF ConnectHome
    <2>3. k \in Key /\ (server_key = "whole" => k = made)
      <3>1. CASE server_key = "whole"
        BY <2>1, <2>2, <3>1, Assumed DEF OwnKeys, Key, TypeOK, OneKey
      <3>2. CASE server_key # "whole"
        BY <2>1, <3>2 DEF OwnKeys, Key
      <3> QED
        BY <3>1, <3>2
    <2>4. ip' = [ip EXCEPT ![c] = Home] /\ Home \in Ip
      BY <1>2, Assumed DEF ConnectHome
    <2>5. presented' \subseteq Key
      BY <2>1, <2>3 DEF TypeOK
    <2> QED
      BY <2>1, <2>2, <2>3, <2>4, <2>5, ShownInv
  <1>3. ASSUME NEW a \in Ip, ConnectElsewhere(c, a) PROVE TInv'
    <2>1. PICK k \in Junk \cup {Forged} : Shown(c, k)
      BY <1>3 DEF ConnectElsewhere
    <2>2. k \in Key /\ presented' = presented /\ presented' \subseteq Key
      BY <1>3, <2>1 DEF Key, ConnectElsewhere, TypeOK
    <2>3. ip' = [ip EXCEPT ![c] = a]
      BY <1>3 DEF ConnectElsewhere
    <2> QED
      BY <2>1, <2>2, <2>3, ShownInv
  <1>4. CASE Check(c)
    <2>1. overlapped' \in BOOLEAN
      BY <1>4 DEF Check, TypeOK
    <2>2. crashes' \in 0..MaxCrashes /\ crashes' = crashes
      BY <1>4 DEF Check, TypeOK
    <2>3. server_pk[c] \in Key
      BY DEF TypeOK
    <2>4. CASE Verdict(ip[c], server_pk[c]) = 1 \/ Verdict(ip[c], server_pk[c]) = 2
      <3>1. PICK l \in {"menu", "ask"} : Goto(c, l)
        BY <1>4, <2>4 DEF Check
      <3> QED
        BY <1>1, <1>4, <2>1, <2>2, <3>1, MoveInv DEF Check, Past
    <2>5. CASE Verdict(ip[c], server_pk[c]) \notin {1, 2}
      <3>1. Goto(c, "send")
        BY <1>4, <2>5 DEF Check
      <3>2. Own(c) \in confirmed
        BY <2>3, <2>5, VerdictStored DEF Own
      <3>3. "send" \in Label
        BY DEF Label
      <3> QED
        BY <1>4, <2>1, <2>2, <3>1, <3>2, <3>3, MoveInv DEF Check
    <2> QED
      BY <2>4, <2>5
  <1>5. CASE Confirm(c)
    <2>1. confirmed' = confirmed \cup {Own(c)}
      BY <1>5 DEF Confirm, Own
    <2>2. overlapped' \in BOOLEAN /\ crashes' \in 0..MaxCrashes /\ "open" \in Label
      BY <1>5 DEF Confirm, TypeOK, Label
    <2> QED
      BY <1>5, <2>1, <2>2, MoveInv DEF Confirm
  <1>6. CASE Cancel(c) \/ Leave(c) \/ Open(c) \/ Keyed(c)
    <2>1. overlapped' \in BOOLEAN /\ crashes' \in 0..MaxCrashes
      BY <1>6 DEF Cancel, Leave, Open, Keyed, TypeOK
    <2>2. PICK l \in {"menu", "create", "read", "in"} :
            Goto(c, l) /\ (l \in Past => pc[c] \in Past)
      BY <1>6 DEF Cancel, Leave, Open, Keyed, Past
    <2>3. l \in Label
      BY <1>1 DEF Past
    <2> QED
      BY <1>6, <2>1, <2>2, <2>3, MoveInv DEF Cancel, Leave, Open, Keyed
  <1>7. CASE Read(c)
    <2>1. overlapped' \in BOOLEAN /\ crashes' \in 0..MaxCrashes /\ pc[c] \in Past
      BY <1>7 DEF Read, TypeOK, Past
    <2>2. PICK l \in {"truncate", "send"} : Goto(c, l)
      BY <1>7 DEF Read
    <2>3. l \in Label
      BY <1>1 DEF Past
    <2> QED
      BY <1>7, <2>1, <2>2, <2>3, MoveInv DEF Read
  <1>8. CASE Crash(c)
    <2>1. overlapped' \in BOOLEAN /\ crashes' \in 0..MaxCrashes /\ crashes' # 0
      BY <1>8, Assumed DEF Crash, TypeOK
    <2>2. "menu" \in Label /\ "menu" \notin Past
      BY DEF Label, Past
    <2> QED
      BY <1>8, <2>1, <2>2, MoveInv DEF Crash
  <1>9. CASE Create(c) \/ Truncate(c)
    <2>1. PICK l \in {"braces", "write"} : Goto(c, l)
      BY <1>9 DEF Create, Truncate
    <2>2. l \in Label /\ pc[c] \in Past
      BY <1>1, <1>9 DEF Past, Create, Truncate
    <2> QED
      BY <1>9, <2>1, <2>2, FileInv DEF Create, Truncate
  <1>10. CASE Braces(c)
    <2>1. "read" \in Label /\ pc[c] \in Past
      BY <1>1, <1>10 DEF Past, Braces
    <2> QED
      BY <1>10, <2>1, FileInv DEF Braces
  <1>11. CASE Write(c)
    <2>1. "send" \in Label /\ pc[c] \in Past
      BY <1>1, <1>11 DEF Past, Write
    <2>2. known' = Text(Added(json[c], Own(c))) /\ pinned' = pinned \cup {Own(c)}
      BY <1>11 DEF Write, Own
    <2> QED
      BY <1>11, <2>1, <2>2, FileInv DEF Write
  <1> QED
    BY <1>2, <1>3, <1>4, <1>5, <1>6, <1>7, <1>8, <1>9, <1>10, <1>11 DEF ClientStep

LEMMA TInvariance == Spec => []TInv
  <1>1. TInv /\ [Next]_vars => TInv'
    <2> SUFFICES ASSUME TInv, [Next]_vars PROVE TInv'
      OBVIOUS
    <2>1. CASE UNCHANGED vars
      BY <2>1
      DEF vars, store, client, server, bounds, TInv, TypeOK, OneKey, NoText, Confirmed, Trusted, Own
    <2>2. CASE Next
      BY <2>2, ServerInv, ClientInv DEF Next
    <2> QED
      BY <2>1, <2>2
  <1> QED
    BY <1>1, TInvInit, PTL DEF Spec

-----------------------------------------------------------------------------
(* However many clients share known_servers.json, whatever is lost or torn *)
(* and whatever the network shows, nobody goes on under a key that no user *)
(* has confirmed for that address.                                         *)
THEOREM OnlyConfirmedCorrect == Spec => []OnlyConfirmed
  <1>1. TInv => OnlyConfirmed
    BY DEF TInv, Confirmed, Past, Own, OnlyConfirmed
  <1> QED
    BY <1>1, TInvariance, PTL

(* handshake_server shows one key for good, unless a process ended in the  *)
(* middle of something.                                                    *)
THEOREM OneIdentityCorrect == Spec => []OneIdentity
  <1>1. TInv => OneIdentity
    <2> SUFFICES ASSUME TInv, crashes = 0 PROVE Cardinality(presented) <= 1
      BY DEF OneIdentity
    <2>1. presented \in SUBSET {made}
      BY DEF TInv, TypeOK, OneKey
    <2>2. IsFiniteSet({made}) /\ Cardinality({made}) = 1
      BY FS_Singleton
    <2>3. Cardinality(presented) <= Cardinality({made})
      BY <2>1, <2>2, FS_Subset
    <2> QED
      BY <2>2, <2>3
  <1> QED
    BY <1>1, TInvariance, PTL

(* A known_servers.json or a server.key that a crash has left truncated is *)
(* never written again by any client or by the server.                     *)
THEOREM TornStaysCorrect == Spec => TornStays
  <1>1. TInv /\ [Next]_vars => [(Ruined => Ruined') /\ (RuinedKey => RuinedKey')]_vars
    <2> SUFFICES ASSUME TInv, Next
                 PROVE  (Ruined => Ruined') /\ (RuinedKey => RuinedKey')
      OBVIOUS
    <2>1. ASSUME RuinedKey PROVE RuinedKey'
      <3>1. CASE ServerStep
        BY <2>1, <3>1 DEF RuinedKey, ServerStep, MakeKey, NoKeyFile, KeepKey, ServerCrash
      <3>2. ASSUME NEW c \in Client, ClientStep(c) PROVE UNCHANGED <<server_key, keeping>>
        BY <3>2
        DEF ClientStep, ConnectHome, ConnectElsewhere, Shown, Check, Confirm, Cancel, Open,
            Create, Braces, Read, Truncate, Write, Keyed, Leave, Crash, server
      <3> QED
        BY <2>1, <3>1, <3>2 DEF RuinedKey, Next
    <2>2. ASSUME Ruined PROVE Ruined'
      <3>1. known.is = "torn" /\ \A c \in Client : pc[c] \notin {"create", "braces", "truncate", "write"}
        BY <2>2 DEF Ruined, Writing, Torn
      <3>2. CASE ServerStep
        BY <2>2, <3>2 DEF ServerStep, MakeKey, KeepKey, ServerCrash, store, client, Ruined, Writing
      <3>3. ASSUME NEW c \in Client, ClientStep(c) PROVE Ruined'
        <4>1. known' = known
          BY <3>1, <3>3
          DEF ClientStep, ConnectHome, ConnectElsewhere, Shown, Check, Confirm, Cancel, Open,
              Create, Braces, Read, Truncate, Write, Keyed, Leave, Crash, store
        <4>2. PICK l \in {"menu", "check", "ask", "open", "read", "send", "in"} : Goto(c, l)
          BY <3>1, <3>3
          DEF ClientStep, ConnectHome, ConnectElsewhere, Shown, Check, Confirm, Cancel, Open,
              Create, Braces, Read, Readable, Truncate, Write, Keyed, Leave, Crash
        <4>3. \A d \in Client : pc'[d] = pc[d] \/ pc'[d] = l
          BY <4>2 DEF Goto, TInv, TypeOK
        <4> QED
          BY <2>2, <3>1, <4>1, <4>3 DEF Ruined, Writing
      <3> QED
        BY <3>2, <3>3 DEF Next
    <2> QED
      BY <2>1, <2>2
  <1> QED
    BY <1>1, TInvariance, PTL DEF Spec, TornStays
-----------------------------------------------------------------------------
(***************************************************************************)
(* Clients that take turns.  Between the verdict and the end of            *)
(* mark_server_safe a client is alone with the file, so what it found      *)
(* missing is still missing when it adds it.                               *)
(***************************************************************************)
Busy(c) == pc[c] \notin {"menu", "check", "send", "in"}

\* The members the file has, or will have when c has written it back.
Members(c) == IF pc[c] \in {"truncate", "write"} THEN json[c] ELSE known.entries

Kept(es) == \A pair \in pinned : Lookup(es, pair.ip) = pair.key

InTurn ==
  ~overlapped /\ crashes = 0 =>
    /\ \A c, d \in Client : Busy(c) /\ Busy(d) => c = d
    /\ \A c \in Client : Busy(c) => Lookup(Members(c), ip[c]) = None /\ Kept(Members(c))
    /\ \A c \in Client : pc[c] \in {"create", "braces"} => known.entries = <<>>
    /\ Writing = {} => Kept(known.entries)

\* The steps of others than a client that is busy with the file.
LEMMA TurnOthers ==
  ASSUME TInv, InTurn, UNCHANGED <<store, json, overlapped>>, crashes' = crashes \/ crashes' # 0,
         NEW c, c \notin Client \/ ~Busy(c),
         \A d \in Client : d # c => pc'[d] = pc[d] /\ ip'[d] = ip[d],
         c \in Client => ~Busy(c)'
  PROVE  InTurn'
  <1> SUFFICES ASSUME ~overlapped, crashes = 0 PROVE InTurn'
    BY DEF InTurn
  <1>1. \A d \in Client : Busy(d)' => Busy(d) /\ d # c /\ Members(d)' = Members(d)
    BY DEF Busy, Members, store
  <1>2. Writing' = Writing
    BY DEF Writing, Busy
  <1>3. \A es : Kept(es)' <=> Kept(es)
    BY DEF Kept, store
  <1>4. \A d \in Client : pc'[d] \in {"create", "braces"} => pc[d] \in {"create", "braces"}
    BY DEF Busy
  <1>5. known' = known
    BY DEF store
  <1> QED
    BY <1>1, <1>2, <1>3, <1>4, <1>5 DEF InTurn

\* The steps of a client on its own between the verdict and its return.
LEMMA TurnBusy ==
  ASSUME TInv, InTurn, NEW c \in Client, NEW l \in Label, Goto(c, l), Busy(c),
         UNCHANGED <<ip, overlapped, crashes>>,
         ~overlapped /\ crashes = 0 =>
           /\ Busy(c)' => Lookup(Members(c), ip[c])' = None /\ Kept(Members(c))'
           /\ l \in {"create", "braces"} => known'.entries = <<>>
           /\ l \notin {"create", "braces", "truncate", "write"} => Kept(known.entries)'
  PROVE  InTurn'
  <1> SUFFICES ASSUME ~overlapped, crashes = 0 PROVE InTurn'
    BY DEF InTurn
  <1>1. pc'[c] = l /\ \A d \in Client : d # c => pc'[d] = pc[d]
    BY GotoType DEF TInv
  <1>2. \A d \in Client : Busy(d)' => d = c
    BY <1>1 DEF InTurn, Busy
  <1>3. \A d \in Client : pc'[d] \in {"create", "braces"} => d = c
    BY <1>2 DEF Busy
  <1>4. Writing' = {} => l \notin {"create", "braces", "truncate", "write"}
    BY <1>1 DEF Writing
  <1> QED
    BY <1>1, <1>2, <1>3, <1>4 DEF InTurn

LEMMA TurnStep ==
  ASSUME TInv, InTurn, NEW c \in Client, ClientStep(c)
  PROVE  InTurn'
  <1> USE DEF TInv
  <1>1. \A l \in {"menu", "check", "ask", "open", "create", "braces", "read", "truncate", "write",
                   "send", "in"} : l \in Label
    BY DEF Label
  <1>2. ASSUME NEW l \in Label, Goto(c, l)
        PROVE  pc'[c] = l /\ \A d \in Client : d # c => pc'[d] = pc[d]
    BY <1>2, GotoType
  <1>3. ASSUME NEW k, NEW a, Shown(c, k), ip' = [ip EXCEPT ![c] = a] PROVE InTurn'
    <2>1. pc'[c] = "check" /\ \A d \in Client : d # c => pc'[d] = pc[d]
      BY <1>1, <1>2, <1>3 DEF Shown
    <2>2. ~Busy(c) /\ ~Busy(c)'
      BY <1>3, <2>1 DEF Shown, Busy
    <2>3. \A d \in Client : d # c => ip'[d] = ip[d]
      BY <1>3 DEF TypeOK
    <2> QED
      BY <1>3, <2>1, <2>2, <2>3, TurnOthers DEF Shown, store
  <1>4. CASE Check(c)
    <2> SUFFICES ASSUME ~overlapped', crashes' = 0 PROVE InTurn'
      BY DEF InTurn
    <2>1. ~overlapped /\ crashes = 0 /\ \A d \in Client : ~Busy(d)
      BY <1>4 DEF Check, Busy, bounds, TypeOK
    <2>2. Writing = {}
      BY <2>1 DEF Writing, Busy
    <2>3. UNCHANGED <<known, pinned, json, ip>>
      BY <1>4 DEF Check, store
    <2>4. PICK l \in {"menu", "ask", "send"} :
            Goto(c, l) /\ (l = "ask" => Verdict(ip[c], server_pk[c]) = 2)
      BY <1>4 DEF Check
    <2>5. pc'[c] = l /\ \A d \in Client : d # c => pc'[d] = pc[d]
      BY <1>1, <1>2, <2>4
    <2>6. \A d \in Client : Busy(d)' => d = c /\ l = "ask"
      BY <2>1, <2>4, <2>5 DEF Busy
    <2>7. Kept(known.entries)'
      BY <2>1, <2>2, <2>3 DEF InTurn, Kept
    <2>8. l = "ask" => Lookup(known.entries, ip[c]) = None
      <3>1. ASSUME known.is = "absent" PROVE Lookup(known.entries, ip[c]) = None
        BY <3>1 DEF NoText, Lookup
      <3> QED
        BY <2>4, <3>1 DEF Verdict
    <2>9. Members(c)' = known.entries
      BY <2>3, <2>4, <2>5 DEF Members
    <2>10. \A d \in Client : pc'[d] \notin {"create", "braces"}
      BY <2>4, <2>5, <2>6 DEF Busy
    <2> QED
      BY <2>3, <2>6, <2>7, <2>8, <2>9, <2>10 DEF InTurn
  <1>5. CASE Confirm(c) \/ Cancel(c) \/ Open(c)
    <2>1. PICK l \in {"menu", "open", "create", "read"} :
            Goto(c, l) /\ (l = "create" => known.is = "absent")
      BY <1>5 DEF Confirm, Cancel, Open
    <2>2. pc'[c] = l
      BY <1>1, <1>2, <2>1
    <2>3. pc[c] \in {"ask", "open"} /\ UNCHANGED <<known, pinned, json, ip, overlapped, crashes>>
      BY <1>5 DEF Confirm, Cancel, Open, store, bounds
    <2>4. Members(c) = known.entries /\ Members(c)' = known.entries
      BY <2>1, <2>2, <2>3 DEF Members
    <2>5. Busy(c) /\ l \in Label
      BY <1>1, <2>3 DEF Busy
    <2>6. l = "create" => known.entries = <<>>
      BY <2>1 DEF NoText
    <2>7. Kept(known.entries)' <=> Kept(known.entries)
      BY <2>3 DEF Kept
    <2> QED
      BY <2>1, <2>3, <2>4, <2>5, <2>6, <2>7, TurnBusy DEF InTurn
  <1>6. CASE Create(c) \/ Braces(c)
    <2>1. PICK l \in {"braces", "read"} : Goto(c, l)
      BY <1>6 DEF Create, Braces
    <2>2. pc'[c] = l
      BY <1>1, <1>2, <2>1
    <2>3. pc[c] \in {"create", "braces"} /\ UNCHANGED <<pinned, json, ip, overlapped, crashes>>
      BY <1>6 DEF Create, Braces, bounds
    <2>4. known'.entries = <<>>
      BY <1>6 DEF Create, Braces, Torn, Text
    <2>5. Members(c) = known.entries /\ Members(c)' = <<>>
      BY <2>1, <2>2, <2>3, <2>4 DEF Members
    <2>6. Busy(c) /\ l \in Label
      BY <1>1, <2>3 DEF Busy
    <2>7. Kept(<<>>)' <=> Kept(<<>>)
      BY <2>3 DEF Kept
    <2> QED
      BY <2>1, <2>3, <2>4, <2>5, <2>6, <2>7, TurnBusy DEF InTurn
  <1>7. CASE Read(c)
    <2>1. pc[c] = "read" /\ UNCHANGED <<known, pinned, ip, overlapped, crashes>> /\ Busy(c)
      BY <1>7 DEF Read, Busy, store, bounds
    <2>2. Members(c) = known.entries /\ (Kept(known.entries)' <=> Kept(known.entries))
      BY <2>1 DEF Members, Kept
    <2>3. CASE Readable /\ json' = [json EXCEPT ![c] = known.entries] /\ Goto(c, "truncate")
      <3>1. pc'[c] = "truncate" /\ json'[c] = known.entries
        BY <1>1, <1>2, <2>3 DEF TypeOK
      <3>2. Members(c)' = known.entries
        BY <3>1 DEF Members
      <3> QED
        BY <1>1, <2>1, <2>2, <2>3, <3>2, TurnBusy DEF InTurn
    <2>4. CASE Goto(c, "send") /\ UNCHANGED json
      <3>1. ~Busy(c)'
        BY <1>1, <1>2, <2>4 DEF Busy
      <3> QED
        BY <1>1, <2>1, <2>2, <2>4, <3>1, TurnBusy DEF InTurn
    <2> QED
      BY <1>7, <2>3, <2>4 DEF Read
  <1>8. CASE Truncate(c)
    <2>1. pc[c] = "truncate" /\ UNCHANGED <<pinned, json, ip, overlapped, crashes>> /\ Busy(c)
      BY <1>8 DEF Truncate, Busy, bounds
    <2>2. pc'[c] = "write" /\ Goto(c, "write")
      BY <1>1, <1>2, <1>8 DEF Truncate
    <2>3. Members(c) = json[c] /\ Members(c)' = json[c]
      BY <2>1, <2>2 DEF Members
    <2>4. Kept(json[c])' <=> Kept(json[c])
      BY <2>1 DEF Kept
    <2> QED
      BY <1>1, <2>1, <2>2, <2>3, <2>4, TurnBusy DEF InTurn
  <1>9. CASE Write(c)
    <2>1. pc[c] = "write" /\ UNCHANGED <<ip, overlapped, crashes>> /\ Busy(c) /\ Goto(c, "send")
      BY <1>9 DEF Write, Busy, bounds
    <2>2. known'.entries = Added(json[c], Own(c)) /\ pinned' = pinned \cup {Own(c)}
      BY <1>9 DEF Write, Own, Text
    <2>3. ~Busy(c)'
      BY <1>1, <1>2, <2>1 DEF Busy
    <2>4. Members(c) = json[c]
      BY <2>1 DEF Members
    <2>5. ASSUME ~overlapped, crashes = 0 PROVE Kept(known.entries)'
      <3>1. Lookup(json[c], ip[c]) = None /\ Kept(json[c])
        BY <2>1, <2>4, <2>5 DEF InTurn
      <3>2. json[c] \in Seq(Pair) /\ Own(c) \in Pair
        BY OwnPair DEF TypeOK
      <3>3. Own(c).ip = ip[c]
        BY DEF Own
      <3>4. \A pair \in pinned : pair.key # None
        BY Assumed DEF TypeOK, Pair
      <3>5. ASSUME NEW pair \in pinned PROVE Lookup(Added(json[c], Own(c)), pair.ip) = pair.key
        <4>1. Lookup(json[c], pair.ip) = pair.key
          BY <3>1 DEF Kept
        <4> QED
          BY <3>2, <3>4, <4>1, LookupAdded, Assumed
      <3>6. Lookup(Added(json[c], Own(c)), ip[c]) = Own(c).key
        BY <3>1, <3>2, <3>3, LookupAdded, Assumed
      <3> QED
        BY <2>2, <3>3, <3>5, <3>6 DEF Kept
    <2> QED
      BY <1>1, <2>1, <2>3, <2>5, TurnBusy
  <1>10. CASE Keyed(c) \/ Leave(c)
    <2>1. PICK l \in {"menu", "in"} : Goto(c, l)
      BY <1>10 DEF Keyed, Leave
    <2>2. pc'[c] = l /\ \A d \in Client : d # c => pc'[d] = pc[d]
      BY <1>1, <1>2, <2>1
    <2>3. ~Busy(c) /\ ~Busy(c)'
      BY <1>10, <2>2 DEF Keyed, Leave, Busy
    <2> QED
      BY <1>10, <2>2, <2>3, TurnOthers DEF Keyed, Leave, store, bounds
  <1>11. CASE Crash(c)
    <2>1. crashes' # 0
      BY <1>11, Assumed DEF Crash, TypeOK
    <2> QED
      BY <2>1 DEF InTurn
  <1> QED
    BY <1>3, <1>4, <1>5, <1>6, <1>7, <1>8, <1>9, <1>10, <1>11
    DEF ClientStep, ConnectHome, ConnectElsewhere

(* While clients take turns at known_servers.json and none ends in the     *)
(* middle, a key that was stored for an address is the one that            *)
(* is_server_impostor compares ever after, however many are added.         *)
THEOREM KeptInTurnCorrect == Spec => []KeptInTurn
  <1>1. Init => InTurn
    <2> SUFFICES ASSUME Init PROVE InTurn
      OBVIOUS
    <2>1. \A c \in Client : pc[c] = "menu"
      BY DEF Init
    <2>2. Kept(known.entries)
      BY DEF Init, Kept
    <2> QED
      BY <2>1, <2>2 DEF InTurn, Busy
  <1>2. TInv /\ InTurn /\ [Next]_vars => InTurn'
    <2> SUFFICES ASSUME TInv, InTurn, [Next]_vars PROVE InTurn'
      OBVIOUS
    <2>1. CASE UNCHANGED vars
      BY <2>1
      DEF vars, store, client, bounds, InTurn, Busy, Members, Kept, Writing
    <2>2. CASE ServerStep
      <3>1. crashes' = crashes \/ crashes' # 0
        BY <2>2, Assumed DEF ServerStep, MakeKey, KeepKey, ServerCrash, bounds, TInv, TypeOK
      <3>2. UNCHANGED <<store, client, overlapped>>
        BY <2>2 DEF ServerStep, MakeKey, KeepKey, ServerCrash
      <3>3. PICK c : c \notin Client
        BY NoSetContainsEverything
      <3> QED
        BY <3>1, <3>2, <3>3, TurnOthers DEF client
    <2>3. CASE \E c \in Client : ClientStep(c)
      BY <2>3, TurnStep
    <2> QED
      BY <2>1, <2>2, <2>3 DEF Next
  <1>3. InTurn => KeptInTurn
    BY DEF InTurn, KeptInTurn, Kept
  <1> QED
    BY <1>1, <1>2, <1>3, TInvInit, TInvariance, PTL DEF Spec
=============================================================================
