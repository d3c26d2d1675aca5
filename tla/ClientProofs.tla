---------------------------- MODULE ClientProofs ----------------------------
(***************************************************************************)
(* Proofs about the client process, for any versions, any number of runs,  *)
(* of texts received and of lines typed.                                   *)
(***************************************************************************)
EXTENDS ChatClient, TLAPS, FiniteSetTheorems, SequenceTheorems

-----------------------------------------------------------------------------
(***************************************************************************)
(* The start: what has been downloaded and what is still to come make up   *)
(* the published version, and Same has been asked of all of it.            *)
(***************************************************************************)
Fetched ==
  /\ data \in Seq(STRING) /\ left \in Seq(STRING)
  /\ Len(data) < BufSize
  /\ mpc = "off" => data = <<>>
  /\ mpc = "download" => data \o left = remote

Judged ==
  /\ mpc = "warn" /\ needs_update = 0 => Same(remote)
  /\ mpc \in {"choice", "dial"} /\ ~acknowledged => Same(remote)

VInv == Fetched /\ Judged

LEMMA Buffer == BufSize \in Nat /\ BufSize > 0 /\ Remotes \subseteq Seq(STRING)
  BY StartupAssumption

Associative(s, t, u) == (s \o t) \o u = s \o (t \o u)

LEMMA Joined ==
  ASSUME NEW s \in Seq(STRING), NEW t \in Seq(STRING), NEW u \in Seq(STRING)
  PROVE  Associative(s, t, u)
  BY ConcatAssociative DEF Associative

\* All that is known of the version is dropped, when there is no menu.
LEMMA ForgetsVersion ==
  ASSUME StartupForgets, mpc' \notin {"download", "warn", "choice", "dial"}
  PROVE  VInv'
  <1>1. Len(<<>>) = 0 /\ <<>> \in Seq(STRING)
    OBVIOUS
  <1>2. Fetched'
    BY <1>1, Buffer DEF StartupForgets, Fetched
  <1> QED
    BY <1>2 DEF VInv, Judged

LEMMA KeepsVersion ==
  ASSUME VInv, UNCHANGED startup,
         mpc' = mpc \/ mpc' \notin {"off", "download", "warn", "choice", "dial"}
  PROVE  VInv'
  BY DEF VInv, Fetched, Judged, startup, Same

LEMMA PieceVersion ==
  ASSUME VInv, NEW n \in 1..Len(left), Piece(n)
  PROVE  VInv'
  <1>1. /\ mpc = "download" /\ data \in Seq(STRING) /\ left \in Seq(STRING)
        /\ Len(data) < BufSize /\ data \o left = remote
    BY DEF VInv, Fetched, Piece
  <1> DEFINE a == SubSeq(left, 1, n)
             b == SubSeq(left, n + 1, Len(left))
  <1>2. CASE Fits(n) /\ data' = data \o a /\ left' = b /\ UNCHANGED <<mpc, needs_update>>
    <2>1. a \in Seq(STRING) /\ b \in Seq(STRING) /\ Len(a) = n /\ a \o b = left
      <3>1. \A i \in 1..Len(left) : left[i] \in STRING
        BY <1>1
      <3>2. a \in Seq(STRING) /\ Len(a) = n
        BY <1>1, <3>1, SubSeqProperties
      <3>3. b \in Seq(STRING)
        BY <1>1, <3>1, SubSeqProperties
      <3>4. a \o b = SubSeq(left, 1, Len(left))
        BY <1>1, ConcatAdjacentSubSeq
      <3>5. SubSeq(left, 1, Len(left)) = left
        BY <1>1, SubSeqFull
      <3> QED
        BY <3>2, <3>3, <3>4, <3>5
    <2> HIDE DEF a, b
    <2>2. data' \in Seq(STRING) /\ Len(data') = Len(data) + n
      BY <1>1, <1>2, <2>1, ConcatProperties
    <2>3. Len(data') < BufSize
      BY <1>2, <2>2 DEF Fits
    <2>4. data' \o left' = remote
      <3>1. data \in Seq(STRING) /\ a \in Seq(STRING) /\ b \in Seq(STRING)
        BY <1>1, <2>1
      <3>2. Associative(data, a, b)
        BY <3>1, Joined
      <3> QED
        BY <1>1, <1>2, <2>1, <3>2 DEF Associative
    <2>5. UNCHANGED remote
      BY DEF Piece
    <2>6. Fetched'
      BY <1>1, <1>2, <2>1, <2>2, <2>3, <2>4, <2>5 DEF Fetched
    <2>7. Judged'
      BY <1>1, <1>2 DEF Judged
    <2> QED
      BY <2>6, <2>7 DEF VInv
  <1>3. CASE needs_update' = 2 /\ mpc' = "warn" /\ UNCHANGED <<data, left>>
    BY <1>1, <1>3 DEF VInv, Fetched, Judged
  <1> QED
    BY <1>2, <1>3 DEF Piece

LEMMA CompareVersion ==
  ASSUME VInv, Compare
  PROVE  VInv'
  <1>1. data \in Seq(STRING) /\ left = <<>> /\ data \o left = remote /\ mpc' = "warn"
        /\ UNCHANGED <<data, left, remote>>
        /\ needs_update' = IF Same(data) THEN 0 ELSE 1
    BY DEF VInv, Fetched, Compare
  <1>2. data = remote
    BY <1>1, ConcatEmptySeq
  <1>3. needs_update' = 0 => Same(remote)
    BY <1>1, <1>2
  <1>4. Same(remote)' <=> Same(remote)
    BY <1>1 DEF Same
  <1> QED
    BY <1>1, <1>3, <1>4 DEF VInv, Fetched, Judged

LEMMA StartupVersion ==
  ASSUME VInv, StartupStep
  PROVE  VInv'
  <1>1. CASE Start
    <2>1. data = <<>> /\ data' = <<>> /\ remote' \in Seq(STRING) /\ left' = remote' /\ mpc' = "download"
      BY <1>1, Buffer DEF VInv, Fetched, Start
    <2>2. data' \o left' = remote'
      BY <2>1, ConcatEmptySeq
    <2>3. Len(<<>>) = 0 /\ <<>> \in Seq(STRING)
      OBVIOUS
    <2> QED
      BY <2>1, <2>2, <2>3, Buffer DEF VInv, Fetched, Judged
  <1>2. CASE \E n \in 1..Len(left) : Piece(n)
    BY <1>2, PieceVersion
  <1>3. CASE NoVersion
    BY <1>3 DEF NoVersion, VInv, Fetched, Judged
  <1>4. CASE Compare
    BY <1>4, CompareVersion
  <1>5. CASE Acknowledge
    BY <1>5 DEF Acknowledge, VInv, Fetched, Judged
  <1>6. CASE UpToDate
    BY <1>6 DEF UpToDate, VInv, Fetched, Judged, Same
  <1>7. CASE NotAClient
    BY <1>7, ForgetsVersion DEF NotAClient
  <1>8. CASE ChooseClient
    BY <1>8 DEF ChooseClient, startup, VInv, Fetched, Judged, Same
  <1> QED
    BY <1>1, <1>2, <1>3, <1>4, <1>5, <1>6, <1>7, <1>8 DEF StartupStep

LEMMA StepVersion ==
  ASSUME VInv, [CNext]_cvars
  PROVE  VInv'
  <1>1. CASE StartupStep
    BY <1>1, StartupVersion
  <1>2. CASE Connected
    BY <1>2, ForgetsVersion DEF Connected
  <1>3. CASE Exit
    BY <1>3, ForgetsVersion DEF Exit, Ends
  <1>4. CASE LeaveChat
    BY <1>4, ForgetsVersion DEF LeaveChat, Exit, Ends
  <1>5. CASE \/ InitNcurses \/ ReplayLine \/ ReplayEnd
             \/ (\E kind \in Kinds : Receive(kind)) \/ Show \/ Log
    BY <1>5, KeepsVersion DEF InitNcurses, ReplayLine, ReplayEnd, Receive, Show, Log
  <1>6. CASE \/ (\E line \in Lines : ReadLine(line)) \/ ReadGhost
             \/ Nothing \/ ChangeUsername \/ Say
    BY <1>6, KeepsVersion DEF ReadLine, ReadGhost, Nothing, ChangeUsername, Say
  <1>7. CASE UNCHANGED cvars
    BY <1>7, KeepsVersion DEF cvars
  <1> QED
    BY <1>1, <1>2, <1>3, <1>4, <1>5, <1>6, <1>7 DEF CNext, MainStep, ChatStep

LEMMA InitVersion == CInit => VInv
  <1>1. Len(<<>>) = 0 /\ <<>> \in Seq(STRING)
    OBVIOUS
  <1> QED
    BY <1>1, Buffer DEF CInit, StartupInit, VInv, Fetched, Judged

(* In whatever pieces curl hands over the published version, and however   *)
(* long it is, nobody reaches the menu or dials a server with a version    *)
(* that differs from it, or could not be compared, without having pressed  *)
(* ENTER.                                                                  *)
THEOREM VersionAcknowledgedCorrect == CSpec => []VersionAcknowledged
  <1>1. VInv => VersionAcknowledged
    BY DEF VInv, Judged, VersionAcknowledged, Same
  <1> QED
    BY <1>1, InitVersion, StepVersion, PTL DEF CSpec

-----------------------------------------------------------------------------
(***************************************************************************)
(* The log and the screen: the texts of the log have been received one     *)
(* after the other and, as far as they are short chats, shown; the screen  *)
(* follows them.                                                           *)
(***************************************************************************)
Kind == {"chat", "long", "other", "noise"}
Text == [id : Nat, kind : Kind]
Frag == [id : Nat, kind : Kind, whole : BOOLEAN, begins : BOOLEAN]

Disk == log \in Seq(Frag) /\ ended \in BOOLEAN

Hand ==
  /\ received \in Nat /\ cur \in Text /\ next \in Nat /\ file \in BOOLEAN
  /\ mpc \in {"show", "log"} => cur.id = received /\ received > 0

\* The texts of the log are in the order in which they were received.
Filed ==
  /\ \A i, j \in 1..Len(log) : i < j => log[i].id < log[j].id
  /\ \A i \in 1..Len(log) : log[i].id <= received
  /\ mpc \in {"show", "log"} => \A i \in 1..Len(log) : log[i].id < received

\* What is on the screen comes before what is still to be replayed or shown.
Drawn ==
  /\ screen \in Seq(Nat)
  /\ \A i, j \in 1..Len(screen) : i < j => screen[i] < screen[j]
  /\ \A i \in 1..Len(screen) : screen[i] <= received
  /\ mpc = "show" => \A i \in 1..Len(screen) : screen[i] < received
  /\ mpc = "replay" =>
       \A i \in 1..Len(screen), j \in 1..Len(log) : j > next => screen[i] < log[j].id
  /\ mpc \notin {"replay", "recv", "show", "log"} => screen = <<>>

DInv == Disk /\ Hand /\ Filed /\ Drawn

\* What the log may replay has been shown by a run that had its log open.
Seen ==
  /\ \A i \in 1..Len(log) : log[i].kind = "chat" => log[i].id \in shown
  /\ mpc = "log" /\ file /\ cur.kind = "chat" => cur.id \in shown
  /\ mpc = "replay" => \A i \in 1..Len(screen) : screen[i] \in shown

LEMMA KindFacts == Kinds \subseteq Kind
  BY ClientAssumption DEF Kind

LEMMA ParsedFacts ==
  ASSUME NEW text \in Frag
  PROVE  /\ text.id \in Nat
         /\ Parsed(text).kind \in {"chat", "long"} => Parsed(text) = text /\ text.kind = "chat"
  <1>1. text.id \in Nat
    BY DEF Frag
  <1>2. CASE Parsed(text) = NoText
    BY <1>1, <1>2 DEF NoText
  <1>3. CASE Parsed(text) # NoText
    BY <1>1, <1>3 DEF Parsed
  <1> QED
    BY <1>2, <1>3

\* A text goes to the end of the log.
Behind(f, whole, end) ==
  /\ f.id = cur.id /\ f.kind = cur.kind /\ f.whole = whole /\ (ended => f.begins)
  /\ Disk' /\ ended' = end
  /\ Len(log') = Len(log) + 1 /\ log'[Len(log) + 1] = f
  /\ \A i \in 1..Len(log) : log'[i] = log[i]

LEMMA WrittenFacts ==
  ASSUME Disk, cur \in Text, NEW whole \in BOOLEAN, NEW end \in BOOLEAN, Written(whole, end)
  PROVE  \E f \in Frag : Behind(f, whole, end)
  <1>1. PICK begins \in IF ended THEN {TRUE} ELSE BOOLEAN :
          log' = Append(log, [id |-> cur.id, kind |-> cur.kind, whole |-> whole, begins |-> begins])
    BY DEF Written
  <1> DEFINE f == [id |-> cur.id, kind |-> cur.kind, whole |-> whole, begins |-> begins]
  <1>2. f \in Frag /\ f.id = cur.id /\ f.kind = cur.kind /\ f.whole = whole /\ (ended => f.begins)
    <2>1. begins \in BOOLEAN /\ (ended => begins)
      BY <1>1
    <2> QED
      BY <2>1 DEF Frag, Text
  <1>3. log' = Append(log, f)
    BY <1>1
  <1> HIDE DEF f
  <1>4. log \in Seq(Frag)
    BY DEF Disk
  <1>5. /\ log' \in Seq(Frag) /\ Len(log') = Len(log) + 1 /\ log'[Len(log) + 1] = f
        /\ \A i \in 1..Len(log) : log'[i] = log[i]
    BY <1>2, <1>3, <1>4, AppendProperties
  <1>6. ended' = end
    BY DEF Written
  <1>7. Disk'
    BY <1>5, <1>6 DEF Disk
  <1> QED
    BY <1>2, <1>5, <1>6, <1>7 DEF Behind

\* The text in hand, the last received, is written behind all others.
LEMMA WrittenFiled ==
  ASSUME DInv, mpc = "log", NEW whole \in BOOLEAN, NEW end \in BOOLEAN,
         Written(whole, end), received' = received, mpc' \notin {"show", "log"}
  PROVE  Disk' /\ Filed'
  <1>1. /\ Disk /\ cur.id = received /\ received \in Nat /\ cur \in Text
        /\ \A i \in 1..Len(log) : log[i].id < received
        /\ \A i, j \in 1..Len(log) : i < j => log[i].id < log[j].id
    BY DEF DInv, Hand, Filed
  <1>2. PICK f \in Frag : Behind(f, whole, end)
    BY <1>1, WrittenFacts
  <1>3. /\ Disk' /\ f.id = received /\ Len(log') = Len(log) + 1 /\ log'[Len(log) + 1] = f
        /\ \A i \in 1..Len(log) : log'[i] = log[i]
    BY <1>1, <1>2 DEF Behind
  <1>4. Len(log) \in Nat
    BY <1>1 DEF Disk
  <1>5. \A i \in 1..Len(log') : i \in 1..Len(log) \/ i = Len(log) + 1
    BY <1>3, <1>4
  <1>6. \A i, j \in 1..Len(log') : i < j => log'[i].id < log'[j].id
    <2> SUFFICES ASSUME NEW i \in 1..Len(log'), NEW j \in 1..Len(log'), i < j
                 PROVE  log'[i].id < log'[j].id
      OBVIOUS
    <2>1. i \in 1..Len(log)
      BY <1>3, <1>4
    <2>2. CASE j \in 1..Len(log)
      BY <1>1, <1>3, <2>1, <2>2
    <2>3. CASE j = Len(log) + 1
      BY <1>1, <1>3, <2>1, <2>3
    <2> QED
      BY <1>5, <2>2, <2>3
  <1>7. \A i \in 1..Len(log') : log'[i].id <= received
    <2> SUFFICES ASSUME NEW i \in 1..Len(log') PROVE log'[i].id <= received
      OBVIOUS
    <2>1. CASE i \in 1..Len(log)
      <3>1. log[i] \in Frag
        BY <1>1, <2>1 DEF Disk
      <3>2. log[i].id \in Nat
        BY <3>1, ParsedFacts
      <3> QED
        BY <1>1, <1>3, <2>1, <3>2
    <2>2. CASE i = Len(log) + 1
      BY <1>1, <1>3, <2>2
    <2> QED
      BY <1>5, <2>1, <2>2
  <1> QED
    BY <1>3, <1>6, <1>7 DEF Filed

LEMMA DisplayFacts ==
  ASSUME screen \in Seq(Nat), \A i, j \in 1..Len(screen) : i < j => screen[i] < screen[j],
         NEW text, Display(text),
         text.kind \in {"chat", "long"} =>
           text.id \in Nat /\ \A i \in 1..Len(screen) : screen[i] < text.id
  PROVE  /\ screen' \in Seq(Nat)
         /\ \A i, j \in 1..Len(screen') : i < j => screen'[i] < screen'[j]
         /\ \A i \in 1..Len(screen') :
              \/ i \in 1..Len(screen) /\ screen'[i] = screen[i]
              \/ text.kind \in {"chat", "long"} /\ screen'[i] = text.id
  <1>1. CASE text.kind \in {"chat", "long"}
    <2> DEFINE x == text.id
               n == Len(screen)
    <2>1. screen' = Append(screen, x) /\ x \in Nat /\ n \in Nat
          /\ \A i \in 1..n : screen[i] < x
      BY <1>1 DEF Display
    <2>2. /\ screen' \in Seq(Nat) /\ Len(screen') = n + 1 /\ screen'[n + 1] = x
          /\ \A i \in 1..n : screen'[i] = screen[i]
      BY <2>1, AppendProperties
    <2> HIDE DEF x
    <2>3. ASSUME NEW i \in 1..Len(screen'), NEW j \in 1..Len(screen'), i < j
          PROVE  screen'[i] < screen'[j]
      <3>1. i \in 1..n
        BY <2>1, <2>2, <2>3
      <3>2. CASE j \in 1..n
        BY <2>2, <2>3, <3>1, <3>2
      <3>3. CASE j = n + 1
        BY <2>1, <2>2, <3>1, <3>3
      <3> QED
        BY <2>1, <2>2, <3>2, <3>3
    <2>4. ASSUME NEW i \in 1..Len(screen')
          PROVE  (i \in 1..n /\ screen'[i] = screen[i]) \/ screen'[i] = x
      <3>1. i \in 1..n \/ i = n + 1
        BY <2>1, <2>2
      <3> QED
        BY <2>2, <3>1
    <2> QED
      BY <1>1, <2>2, <2>3, <2>4 DEF x
  <1>2. CASE text.kind \notin {"chat", "long"}
    BY <1>2 DEF Display
  <1> QED
    BY <1>1, <1>2

\* The steps before and after a chat, and those of the chat thread.
LEMMA DrawnKept ==
  ASSUME DInv, UNCHANGED <<disk, next, cur, received, screen>>, file' \in BOOLEAN,
         \/ mpc' = mpc
         \/ mpc \notin {"replay", "recv", "show", "log"} /\ mpc' \notin {"recv", "show", "log"}
         \/ mpc = "replay" /\ mpc' = "recv"
  PROVE  DInv'
  <1>1. UNCHANGED <<log, ended>>
    BY DEF disk
  <1>2. Disk' /\ Hand' /\ Filed'
    BY <1>1 DEF DInv, Disk, Hand, Filed
  <1>3. Drawn'
    <2>1. CASE mpc' = mpc
      BY <1>1, <2>1 DEF DInv, Drawn
    <2>2. CASE mpc \notin {"replay", "recv", "show", "log"} /\ mpc' \notin {"recv", "show", "log"}
      <3>1. screen' = <<>> /\ Len(<<>>) = 0
        BY <2>2 DEF DInv, Drawn
      <3> QED
        BY <2>2, <3>1 DEF Drawn
    <2>3. CASE mpc = "replay" /\ mpc' = "recv"
      BY <2>3 DEF DInv, Drawn
    <2> QED
      BY <2>1, <2>2, <2>3
  <1> QED
    BY <1>2, <1>3 DEF DInv

LEMMA ReplayDrawn ==
  ASSUME DInv, ReplayLine
  PROVE  DInv'
  <1> DEFINE k == next + 1
             text == Parsed(log[k])
  <1>1. /\ mpc = "replay" /\ next < Len(log) /\ Display(text) /\ next' = next + 1
        /\ UNCHANGED <<mpc, log, ended, file, cur, received>>
    BY DEF ReplayLine, Replayed, disk
  <1>2. Disk /\ Hand /\ Filed /\ Drawn /\ Len(log) \in Nat
    BY DEF DInv, Disk
  <1>3. k \in 1..Len(log) /\ k = next + 1 /\ k \in Nat /\ next \in Nat
    BY <1>1, <1>2 DEF Hand
  <1>4. log[k] \in Frag
    BY <1>2, <1>3 DEF Disk
  <1>5. /\ log[k].id \in Nat
        /\ text.kind \in {"chat", "long"} => text.id = log[k].id
    BY <1>4, ParsedFacts
  <1> HIDE DEF k, text
  <1>6. \A i \in 1..Len(screen) : screen[i] < log[k].id
    <2>1. \A i \in 1..Len(screen), j \in 1..Len(log) : j > next => screen[i] < log[j].id
      BY <1>1, <1>2 DEF Drawn
    <2>2. k > next
      BY <1>3
    <2> QED
      BY <1>3, <2>1, <2>2
  <1>7. /\ screen' \in Seq(Nat)
        /\ \A i, j \in 1..Len(screen') : i < j => screen'[i] < screen'[j]
        /\ \A i \in 1..Len(screen') :
              \/ i \in 1..Len(screen) /\ screen'[i] = screen[i]
              \/ text.kind \in {"chat", "long"} /\ screen'[i] = text.id
    BY <1>1, <1>2, <1>5, <1>6, DisplayFacts DEF Drawn
  <1>8. \A i \in 1..Len(screen') : screen'[i] <= received
    BY <1>2, <1>3, <1>5, <1>7 DEF Drawn, Filed
  <1>9. ASSUME NEW i \in 1..Len(screen'), NEW j \in 1..Len(log), j > next'
        PROVE  screen'[i] < log[j].id
    <2>1. j > k /\ j > next
      BY <1>1, <1>2, <1>3, <1>9
    <2>2. CASE i \in 1..Len(screen) /\ screen'[i] = screen[i]
      BY <1>1, <1>2, <2>1, <2>2 DEF Drawn
    <2>3. CASE text.kind \in {"chat", "long"} /\ screen'[i] = text.id
      BY <1>2, <1>3, <1>5, <2>1, <2>3 DEF Filed
    <2> QED
      BY <1>7, <2>2, <2>3
  <1>10. Drawn'
    BY <1>1, <1>7, <1>8, <1>9 DEF Drawn
  <1>11. Disk' /\ Hand' /\ Filed'
    BY <1>1, <1>2, <1>3 DEF Disk, Hand, Filed
  <1> QED
    BY <1>10, <1>11 DEF DInv

LEMMA ReceiveDrawn ==
  ASSUME DInv, NEW kind \in Kinds, Receive(kind)
  PROVE  DInv'
  <1>1. /\ mpc = "recv" /\ mpc' \in {"recv", "show"} /\ received' = received + 1
        /\ cur' = [id |-> received + 1, kind |-> kind]
        /\ UNCHANGED <<log, ended, file, next, screen>>
    BY DEF Receive, disk
  <1>2. Disk /\ Hand /\ Filed /\ Drawn /\ received \in Nat
    BY DEF DInv, Hand
  <1>3. Hand'
    BY <1>1, <1>2, KindFacts DEF Hand, Text
  <1>4. \A i \in 1..Len(log) : log[i].id \in Nat
    BY <1>2, ParsedFacts DEF Disk
  <1>5. Filed'
    <2>1. \A i \in 1..Len(log) : log[i].id < received + 1 /\ log[i].id <= received + 1
      BY <1>2, <1>4 DEF Filed
    <2> QED
      BY <1>1, <1>2, <2>1 DEF Filed
  <1>6. \A i \in 1..Len(screen) : screen[i] \in Nat
    BY <1>2 DEF Drawn
  <1>7. Drawn'
    <2>1. \A i \in 1..Len(screen) : screen[i] < received + 1 /\ screen[i] <= received + 1
      BY <1>2, <1>6 DEF Drawn
    <2> QED
      BY <1>1, <1>2, <2>1 DEF Drawn
  <1>8. Disk'
    BY <1>1, <1>2 DEF Disk
  <1> QED
    BY <1>3, <1>5, <1>7, <1>8 DEF DInv

LEMMA ShowDrawn ==
  ASSUME DInv, Show
  PROVE  DInv'
  <1>1. /\ mpc = "show" /\ mpc' = "log" /\ Display(cur)
        /\ UNCHANGED <<log, ended, file, next, cur, received>>
    BY DEF Show, disk
  <1>2. Disk /\ Hand /\ Filed /\ Drawn /\ cur.id = received /\ received \in Nat
    BY <1>1 DEF DInv, Hand
  <1>3. /\ screen' \in Seq(Nat)
        /\ \A i, j \in 1..Len(screen') : i < j => screen'[i] < screen'[j]
        /\ \A i \in 1..Len(screen') :
              \/ i \in 1..Len(screen) /\ screen'[i] = screen[i]
              \/ cur.kind \in {"chat", "long"} /\ screen'[i] = cur.id
    BY <1>1, <1>2, DisplayFacts DEF Drawn
  <1>4. ASSUME NEW i \in 1..Len(screen') PROVE screen'[i] <= received
    <2>1. CASE i \in 1..Len(screen) /\ screen'[i] = screen[i]
      BY <1>2, <2>1 DEF Drawn
    <2>2. CASE screen'[i] = cur.id
      BY <1>2, <2>2
    <2> QED
      BY <1>3, <2>1, <2>2
  <1>5. Drawn'
    BY <1>1, <1>3, <1>4 DEF Drawn
  <1>6. Disk' /\ Hand' /\ Filed'
    BY <1>1, <1>2 DEF Disk, Hand, Filed
  <1> QED
    BY <1>5, <1>6 DEF DInv

LEMMA LogDrawn ==
  ASSUME DInv, Log
  PROVE  DInv'
  <1>1. /\ mpc = "log" /\ mpc' = "recv" /\ UNCHANGED <<file, next, cur, received, screen>>
        /\ IF file THEN Written(TRUE, TRUE) ELSE UNCHANGED <<log, ended>>
    BY DEF Log, EndOfLine, disk, main
  <1>2. Disk' /\ Filed'
    <2>1. CASE file
      BY <1>1, <2>1, WrittenFiled
    <2>2. CASE ~file
      BY <1>1, <2>2 DEF DInv, Disk, Filed
    <2> QED
      BY <2>1, <2>2
  <1>3. Hand' /\ Drawn'
    BY <1>1 DEF DInv, Hand, Drawn
  <1> QED
    BY <1>2, <1>3 DEF DInv

LEMMA ExitDrawn ==
  ASSUME DInv, Exit
  PROVE  DInv'
  <1>1. mpc' = "off" /\ file' = FALSE /\ next' = 0 /\ cur' = NoText /\ screen' = <<>>
        /\ received' = received
    BY DEF Exit, Ends
  <1>2. Disk' /\ Filed'
    <2>1. CASE UNCHANGED disk
      BY <1>1, <2>1 DEF DInv, Disk, Filed, disk
    <2>2. CASE mpc = "log" /\ \E whole \in BOOLEAN : Written(whole, FALSE)
      BY <1>1, <2>2, WrittenFiled
    <2> QED
      BY <2>1, <2>2 DEF Exit, disk
  <1>3. Len(<<>>) = 0 /\ <<>> \in Seq(Nat)
    OBVIOUS
  <1>4. Hand'
    <2>1. NoText \in Text /\ received \in Nat
      BY DEF NoText, Text, Kind, DInv, Hand
    <2> QED
      BY <1>1, <2>1 DEF Hand
  <1>5. Drawn'
    BY <1>1, <1>3 DEF Drawn
  <1> QED
    BY <1>2, <1>4, <1>5 DEF DInv

LEMMA StepDrawn ==
  ASSUME DInv, [CNext]_cvars
  PROVE  DInv'
  <1>1. CASE StartupStep /\ UNCHANGED <<disk, main, interrupted, chat>>
    <2>1. /\ mpc \in {"off", "download", "warn", "choice"}
          /\ mpc' \in {"off", "download", "warn", "choice", "dial"}
      BY <1>1 DEF StartupStep, Start, Piece, NoVersion, Compare, Acknowledge, UpToDate,
         NotAClient, ChooseClient
    <2>2. UNCHANGED <<disk, next, cur, received, screen>> /\ file' \in BOOLEAN
      BY <1>1 DEF main, DInv, Hand
    <2> QED
      BY <2>1, <2>2, DrawnKept
  <1>2. CASE Connected \/ InitNcurses \/ ReplayEnd
    <2>1. UNCHANGED <<disk, next, cur, received, screen>> /\ file' \in BOOLEAN
      BY <1>2 DEF Connected, InitNcurses, ReplayEnd, main, DInv, Hand
    <2> QED
      BY <1>2, <2>1, DrawnKept DEF Connected, InitNcurses, ReplayEnd
  <1>3. CASE ReplayLine
    BY <1>3, ReplayDrawn
  <1>4. CASE \E kind \in Kinds : Receive(kind)
    BY <1>4, ReceiveDrawn
  <1>5. CASE Show
    BY <1>5, ShowDrawn
  <1>6. CASE Log
    BY <1>6, LogDrawn
  <1>7. CASE Exit \/ LeaveChat
    BY <1>7, ExitDrawn DEF LeaveChat
  <1>8. CASE \/ (\E line \in Lines : ReadLine(line)) \/ ReadGhost
             \/ Nothing \/ ChangeUsername \/ Say
    <2>1. UNCHANGED <<disk, main, mpc>>
      BY <1>8 DEF ReadLine, ReadGhost, Nothing, ChangeUsername, Say
    <2>2. UNCHANGED <<next, cur, received, screen>> /\ file' \in BOOLEAN
      BY <2>1 DEF main, DInv, Hand
    <2> QED
      BY <2>1, <2>2, DrawnKept
  <1>9. CASE UNCHANGED cvars
    <2>1. UNCHANGED <<disk, next, cur, received, screen, mpc>> /\ file' \in BOOLEAN
      BY <1>9 DEF cvars, main, DInv, Hand
    <2> QED
      BY <2>1, DrawnKept
  <1> QED
    BY <1>1, <1>2, <1>3, <1>4, <1>5, <1>6, <1>7, <1>8, <1>9 DEF CNext, MainStep, ChatStep

LEMMA InitDrawn == CInit => DInv
  <1> SUFFICES ASSUME CInit PROVE DInv
    OBVIOUS
  <1>1. Len(<<>>) = 0 /\ <<>> \in Seq(Nat) /\ <<>> \in Seq(Frag)
    OBVIOUS
  <1>2. Disk /\ Filed /\ Drawn
    BY <1>1 DEF CInit, StartupInit, Disk, Filed, Drawn
  <1>3. Hand
    BY DEF CInit, StartupInit, Hand, NoText, Text, Kind
  <1> QED
    BY <1>2, <1>3 DEF DInv

\* The steps that neither write to the log nor draw.
LEMMA SeenKept ==
  ASSUME Seen, UNCHANGED <<disk, cur, screen, shown>>,
         \/ mpc' = mpc /\ file' = file
         \/ mpc' \notin {"replay", "log"}
  PROVE  Seen'
  <1>1. UNCHANGED <<log, cur, screen, shown>>
    BY DEF disk
  <1> QED
    BY <1>1 DEF Seen

LEMMA ReplaySeen ==
  ASSUME DInv, Seen, ReplayLine
  PROVE  Seen'
  <1> DEFINE k == next + 1
             text == Parsed(log[k])
  <1>1. /\ mpc = "replay" /\ next < Len(log) /\ Display(text)
        /\ UNCHANGED <<mpc, log, shown>>
    BY DEF ReplayLine, Replayed, disk
  <1>2. k \in 1..Len(log) /\ log[k] \in Frag
    BY <1>1 DEF DInv, Hand, Disk
  <1>3. text.kind \in {"chat", "long"} => text.id \in shown
    <2> HIDE DEF k
    <2>1. text.kind \in {"chat", "long"} => text = log[k] /\ log[k].kind = "chat"
      BY <1>2, ParsedFacts
    <2> QED
      BY <1>2, <2>1 DEF Seen
  <1> HIDE DEF text
  <1>4. \A i \in 1..Len(screen) : screen[i] \in shown
    BY <1>1 DEF Seen
  <1>5. \A i \in 1..Len(screen') : screen'[i] \in shown
    <2>1. CASE text.kind \in {"chat", "long"}
      <3> DEFINE x == text.id
                 n == Len(screen)
      <3>1. screen \in Seq(Nat) /\ screen' = Append(screen, x) /\ x \in shown /\ n \in Nat
        BY <1>1, <1>3, <2>1 DEF Display, DInv, Drawn
      <3> HIDE DEF x
      <3>2. /\ Len(screen') = n + 1 /\ screen'[n + 1] = x
            /\ \A i \in 1..n : screen'[i] = screen[i]
        BY <3>1
      <3> HIDE DEF n
      <3>3. \A i \in 1..(n + 1) : i \in 1..n \/ i = n + 1
        BY <3>1
      <3> QED
        BY <1>4, <3>1, <3>2, <3>3 DEF n
    <2>2. CASE text.kind \notin {"chat", "long"}
      BY <1>1, <1>4, <2>2 DEF Display
    <2> QED
      BY <2>1, <2>2
  <1> QED
    BY <1>1, <1>5 DEF Seen

LEMMA ShowSeen ==
  ASSUME DInv, Seen, Show
  PROVE  Seen'
  <1>1. /\ mpc' = "log" /\ UNCHANGED <<log, file, cur>>
        /\ shown' = IF cur.kind = "chat" /\ file THEN shown \cup {cur.id} ELSE shown
    BY DEF Show, disk
  <1> QED
    BY <1>1 DEF Seen

\* What is written to the log has been shown, as far as it is a chat.
LEMMA WrittenSeen ==
  ASSUME DInv, Seen, mpc = "log", file, NEW whole \in BOOLEAN, NEW end \in BOOLEAN,
         Written(whole, end), shown' = shown, mpc' \notin {"replay", "log"}
  PROVE  Seen'
  <1>1. Disk /\ cur \in Text /\ Len(log) \in Nat
    BY DEF DInv, Hand, Disk
  <1>2. PICK f \in Frag : Behind(f, whole, end)
    BY <1>1, WrittenFacts
  <1>3. /\ f.id = cur.id /\ f.kind = cur.kind /\ Len(log') = Len(log) + 1
        /\ log'[Len(log) + 1] = f /\ \A i \in 1..Len(log) : log'[i] = log[i]
    BY <1>2 DEF Behind
  <1>4. \A i \in 1..Len(log') : i \in 1..Len(log) \/ i = Len(log) + 1
    BY <1>1, <1>3
  <1>5. f.kind = "chat" => f.id \in shown
    BY <1>3 DEF Seen
  <1>6. \A i \in 1..Len(log') : log'[i].kind = "chat" => log'[i].id \in shown
    BY <1>3, <1>4, <1>5 DEF Seen
  <1> QED
    BY <1>6 DEF Seen

LEMMA LogSeen ==
  ASSUME DInv, Seen, Log
  PROVE  Seen'
  <1>1. /\ mpc = "log" /\ mpc' = "recv" /\ UNCHANGED <<file, cur, screen, shown>>
        /\ IF file THEN Written(TRUE, TRUE) ELSE UNCHANGED disk
    BY DEF Log, EndOfLine, main
  <1>2. CASE file
    BY <1>1, <1>2, WrittenSeen
  <1>3. CASE ~file
    BY <1>1, <1>3, SeenKept
  <1> QED
    BY <1>2, <1>3

LEMMA ExitSeen ==
  ASSUME DInv, Seen, Exit
  PROVE  Seen'
  <1>1. mpc' = "off" /\ shown' = shown
    BY DEF Exit, Ends
  <1>2. CASE UNCHANGED disk
    BY <1>1, <1>2 DEF Seen, disk
  <1>3. CASE mpc = "log" /\ file /\ \E whole \in BOOLEAN : Written(whole, FALSE)
    BY <1>1, <1>3, WrittenSeen
  <1> QED
    BY <1>2, <1>3 DEF Exit, disk

LEMMA StepSeen ==
  ASSUME DInv, Seen, [CNext]_cvars
  PROVE  Seen'
  <1>1. CASE StartupStep /\ UNCHANGED <<disk, main, interrupted, chat>>
    <2>1. mpc' \notin {"replay", "log"}
      BY <1>1 DEF StartupStep, Start, Piece, NoVersion, Compare, Acknowledge, UpToDate,
         NotAClient, ChooseClient
    <2> QED
      BY <1>1, <2>1, SeenKept DEF main
  <1>2. CASE Connected \/ ReplayEnd
    BY <1>2, SeenKept DEF Connected, ReplayEnd, main
  <1>3. CASE InitNcurses
    <2>1. mpc = "windows" /\ mpc' = "replay" /\ UNCHANGED <<log, cur, screen, shown>>
      BY <1>3 DEF InitNcurses, disk
    <2>2. screen = <<>> /\ Len(<<>>) = 0
      BY <2>1 DEF DInv, Drawn
    <2>3. \A i \in 1..Len(screen') : screen'[i] \in shown'
      BY <2>1, <2>2
    <2> QED
      BY <2>1, <2>3 DEF Seen
  <1>4. CASE ReplayLine
    BY <1>4, ReplaySeen
  <1>5. CASE \E kind \in Kinds : Receive(kind)
    <2>1. mpc' \notin {"replay", "log"} /\ UNCHANGED <<log, shown>>
      BY <1>5 DEF Receive, disk
    <2> QED
      BY <2>1 DEF Seen
  <1>6. CASE Show
    BY <1>6, ShowSeen
  <1>7. CASE Log
    BY <1>7, LogSeen
  <1>8. CASE Exit \/ LeaveChat
    BY <1>8, ExitSeen DEF LeaveChat
  <1>9. CASE \/ (\E line \in Lines : ReadLine(line)) \/ ReadGhost
             \/ Nothing \/ ChangeUsername \/ Say
    <2>1. UNCHANGED <<disk, main, mpc>>
      BY <1>9 DEF ReadLine, ReadGhost, Nothing, ChangeUsername, Say
    <2> QED
      BY <2>1, SeenKept DEF main
  <1>10. CASE UNCHANGED cvars
    BY <1>10, SeenKept DEF cvars, main
  <1> QED
    BY <1>1, <1>2, <1>3, <1>4, <1>5, <1>6, <1>7, <1>8, <1>9, <1>10 DEF CNext, MainStep, ChatStep

LEMMA InitSeen == CInit => Seen
  <1>1. Len(<<>>) = 0
    OBVIOUS
  <1> QED
    BY <1>1 DEF CInit, StartupInit, Seen

(* The texts on the screen are in the order in which they were received,   *)
(* over all runs, and none is there twice, even after a run has ended in   *)
(* the middle of a line of the log; and before new ones come, those on the *)
(* screen are such as an earlier run has shown.                            *)
THEOREM ScreenInOrderCorrect == CSpec => []ScreenInOrder
  <1>1. DInv /\ Seen => ScreenInOrder
    <2> SUFFICES ASSUME DInv, Seen PROVE ScreenInOrder
      OBVIOUS
    <2>1. DOMAIN screen = 1..Len(screen)
      BY DEF DInv, Drawn
    <2> QED
      BY <2>1 DEF DInv, Drawn, Seen, ScreenInOrder
  <1>2. CInit => DInv /\ Seen
    BY InitDrawn, InitSeen
  <1>3. DInv /\ Seen /\ [CNext]_cvars => DInv' /\ Seen'
    BY StepDrawn, StepSeen
  <1> QED
    BY <1>1, <1>2, <1>3, PTL DEF CSpec

-----------------------------------------------------------------------------
(***************************************************************************)
(* The texts that are lost.  The first text of a line is what is replayed, *)
(* so a run that ends in the middle of a line puts two at risk: its own,   *)
(* and the next to be written, which counts for as long as the last line   *)
(* of the log has no end.                                                  *)
(***************************************************************************)
Lost == (shown \ Replayable) \ InHand
AtRisk == IF ended THEN 0 ELSE 1

LInv ==
  /\ shown \subseteq 1..received /\ interrupted \in Nat
  /\ mpc = "show" => received \notin shown
  /\ mpc = "log" /\ received \in shown => file /\ cur.kind = "chat"
  /\ Cardinality(Lost) + AtRisk <= 2 * interrupted

LEMMA NoMore ==
  ASSUME NEW A, IsFiniteSet(A), NEW B, B \subseteq A
  PROVE  Cardinality(B) \in Nat /\ Cardinality(A) \in Nat /\ Cardinality(B) <= Cardinality(A)
  BY FS_Subset, FS_CardinalityType

LEMMA OneMore ==
  ASSUME NEW A, IsFiniteSet(A), NEW x, NEW B, B \subseteq A \cup {x}
  PROVE  Cardinality(B) \in Nat /\ Cardinality(A) \in Nat /\ Cardinality(B) <= Cardinality(A) + 1
  <1>1. /\ IsFiniteSet(A \cup {x}) /\ Cardinality(A) \in Nat
        /\ Cardinality(A \cup {x}) <= Cardinality(A) + 1
    <2>1. Cardinality(A) \in Nat
      BY FS_CardinalityType
    <2>2. /\ IsFiniteSet(A \cup {x})
          /\ Cardinality(A \cup {x}) = IF x \in A THEN Cardinality(A) ELSE Cardinality(A) + 1
      BY FS_AddElement
    <2> QED
      BY <2>1, <2>2
  <1>2. Cardinality(B) \in Nat /\ Cardinality(A \cup {x}) \in Nat
        /\ Cardinality(B) <= Cardinality(A \cup {x})
    BY <1>1, NoMore
  <1> QED
    BY <1>1, <1>2

LEMMA LostFinite ==
  ASSUME DInv, LInv
  PROVE  IsFiniteSet(Lost)
  <1>1. IsFiniteSet(1..received)
    BY FS_Interval DEF DInv, Hand
  <1>2. Lost \subseteq 1..received
    BY DEF LInv, Lost
  <1> QED
    BY <1>1, <1>2, FS_Subset

\* What is written leaves what can be replayed replayable, and a whole text
\* on a line of its own is replayable itself.
LEMMA ReplayableGrows ==
  ASSUME Disk, cur \in Text, NEW whole \in BOOLEAN, NEW end \in BOOLEAN, Written(whole, end)
  PROVE  /\ Replayable \subseteq Replayable'
         /\ ended /\ whole /\ cur.kind # "long" => cur.id \in Replayable'
  <1>1. PICK f \in Frag : Behind(f, whole, end)
    BY WrittenFacts
  <1>2. /\ f.id = cur.id /\ f.kind = cur.kind /\ f.whole = whole /\ (ended => f.begins)
        /\ Disk' /\ Len(log') = Len(log) + 1 /\ log'[Len(log) + 1] = f
        /\ \A i \in 1..Len(log) : log'[i] = log[i]
    BY <1>1 DEF Behind
  <1>3. DOMAIN log = 1..Len(log) /\ DOMAIN log' = 1..Len(log') /\ Len(log) \in Nat
    BY <1>2 DEF Disk
  <1>4. Replayable = {Parsed(log[i]).id : i \in 1..Len(log)}
        /\ Replayable' = {Parsed(log'[i]).id : i \in 1..Len(log')}
    BY <1>3 DEF Replayable
  <1>5. \A i \in 1..Len(log) : i \in 1..Len(log')
    BY <1>2, <1>3
  <1>6. Replayable \subseteq Replayable'
    BY <1>2, <1>4, <1>5
  <1>7. ASSUME ended, whole, cur.kind # "long" PROVE cur.id \in Replayable'
    <2>1. Len(log) + 1 \in 1..Len(log') /\ log'[Len(log) + 1] = f
      BY <1>2, <1>3
    <2>2. Parsed(f) = f /\ f.id = cur.id
      BY <1>2, <1>7 DEF Parsed
    <2> QED
      BY <1>4, <2>1, <2>2
  <1> QED
    BY <1>6, <1>7

\* A step that neither shows nor writes a text.
LEMMA LostKept ==
  ASSUME LInv, UNCHANGED <<disk, cur, received, shown, interrupted>>, file' = file \/ mpc # "log",
         mpc' = mpc \/ (mpc \notin {"show", "log"} /\ mpc' \notin {"show", "log"})
  PROVE  LInv'
  <1>1. UNCHANGED <<log, ended, shown, cur, received, interrupted>>
    BY DEF disk
  <1>2. Lost' = Lost /\ AtRisk' = AtRisk
    BY <1>1 DEF Lost, AtRisk, Replayable, InHand
  <1> QED
    BY <1>1, <1>2 DEF LInv

LEMMA ReceiveLost ==
  ASSUME DInv, LInv, NEW kind \in Kinds, Receive(kind)
  PROVE  LInv'
  <1>1. /\ mpc = "recv" /\ mpc' \in {"recv", "show"} /\ received' = received + 1
        /\ UNCHANGED <<log, ended, shown, interrupted>>
    BY DEF Receive, disk
  <1>2. Lost' = Lost /\ AtRisk' = AtRisk
    BY <1>1 DEF Lost, AtRisk, Replayable, InHand
  <1>3. received \in Nat /\ shown \subseteq 1..received
    BY DEF DInv, Hand, LInv
  <1>4. shown \subseteq 1..(received + 1) /\ received + 1 \notin shown
    BY <1>3
  <1> QED
    BY <1>1, <1>2, <1>4 DEF LInv

LEMMA ShowLost ==
  ASSUME DInv, LInv, Show
  PROVE  LInv'
  <1>1. /\ mpc = "show" /\ mpc' = "log" /\ UNCHANGED <<log, ended, file, cur, received, interrupted>>
        /\ shown' = IF cur.kind = "chat" /\ file THEN shown \cup {cur.id} ELSE shown
    BY DEF Show, disk
  <1>2. cur.id = received /\ received \in Nat /\ shown \subseteq 1..received
        /\ received \notin shown /\ IsFiniteSet(Lost)
    BY <1>1, LostFinite DEF DInv, Hand, LInv
  <1>3. Lost' \subseteq Lost /\ AtRisk' = AtRisk
    BY <1>1 DEF Lost, AtRisk, Replayable, InHand
  <1>4. Cardinality(Lost') <= Cardinality(Lost) /\ Cardinality(Lost') \in Nat
        /\ Cardinality(Lost) \in Nat
    BY <1>2, <1>3, NoMore
  <1>5. Cardinality(Lost)' + AtRisk' <= 2 * interrupted'
    <2>1. Cardinality(Lost) + AtRisk <= 2 * interrupted /\ interrupted' = interrupted
          /\ interrupted \in Nat /\ AtRisk \in Nat
      BY <1>1 DEF LInv, AtRisk
    <2> QED
      BY <1>3, <1>4, <2>1
  <1>6. shown' \subseteq 1..received'
    <2>1. received \in 1..received
      BY <1>1 DEF DInv, Hand
    <2> QED
      BY <1>1, <1>2, <2>1
  <1>7. received' \in shown' => file' /\ cur'.kind = "chat"
    BY <1>1, <1>2
  <1> QED
    BY <1>1, <1>5, <1>6, <1>7 DEF LInv

\* The end of a line: the text in hand is replayable from now on, or, behind
\* another one, lost where the last line had no end.
LEMMA LogLost ==
  ASSUME DInv, LInv, Log
  PROVE  LInv'
  <1>1. /\ mpc = "log" /\ mpc' = "recv" /\ UNCHANGED <<file, cur, received, shown, interrupted>>
        /\ IF file THEN Written(TRUE, TRUE) ELSE UNCHANGED <<log, ended>>
    BY DEF Log, EndOfLine, disk, main
  <1>2. Disk /\ cur \in Text /\ cur.id = received /\ IsFiniteSet(Lost) /\ interrupted \in Nat
        /\ Cardinality(Lost) + AtRisk <= 2 * interrupted
    BY <1>1, LostFinite DEF DInv, Hand, LInv
  <1>3. Lost' = shown \ Replayable' /\ Lost = (shown \ Replayable) \ {cur.id}
    BY <1>1 DEF Lost, InHand
  <1>4. CASE ~file
    <2>1. Replayable' = Replayable /\ AtRisk' = AtRisk
      BY <1>1, <1>4 DEF Replayable, AtRisk
    <2>2. received \notin shown
      BY <1>1, <1>4 DEF LInv
    <2>3. Lost' = Lost
      BY <1>2, <1>3, <2>1, <2>2
    <2> QED
      BY <1>1, <1>2, <2>1, <2>3 DEF LInv
  <1>5. CASE file
    <2>2. Written(TRUE, TRUE)
      BY <1>1, <1>5
    <2>3. /\ Replayable \subseteq Replayable'
          /\ ended /\ cur.kind # "long" => cur.id \in Replayable'
      BY <1>2, <2>2, ReplayableGrows
    <2>4. AtRisk' = 0 /\ ended \in BOOLEAN
      BY <1>2, <2>2 DEF AtRisk, Written, Disk
    <2>5. CASE ended
      <3>1. cur.id \in shown => cur.id \in Replayable'
        BY <1>1, <1>2, <2>3, <2>5 DEF LInv
      <3>2. Lost' \subseteq Lost
        BY <1>3, <2>3, <3>1
      <3>3. Cardinality(Lost') <= Cardinality(Lost) /\ Cardinality(Lost') \in Nat
            /\ Cardinality(Lost) \in Nat
        BY <1>2, <3>2, NoMore
      <3>4. Cardinality(Lost)' + AtRisk' <= 2 * interrupted'
        BY <1>1, <1>2, <2>4, <2>5, <3>3 DEF AtRisk
      <3> QED
        BY <1>1, <1>2, <3>4 DEF LInv
    <2>6. CASE ~ended
      <3>1. Lost' \subseteq Lost \cup {cur.id}
        BY <1>3, <2>3
      <3>2. Cardinality(Lost') <= Cardinality(Lost) + 1 /\ Cardinality(Lost') \in Nat
            /\ Cardinality(Lost) \in Nat
        BY <1>2, <3>1, OneMore
      <3>3. Cardinality(Lost)' + AtRisk' <= 2 * interrupted'
        BY <1>1, <1>2, <2>4, <2>6, <3>2 DEF AtRisk
      <3> QED
        BY <1>1, <1>2, <3>3 DEF LInv
    <2> QED
      BY <2>4, <2>5, <2>6
  <1> QED
    BY <1>4, <1>5

LEMMA ExitLost ==
  ASSUME DInv, LInv, Exit
  PROVE  LInv'
  <1>1. mpc' = "off" /\ UNCHANGED <<received, shown>> /\ InHand' = {}
    BY DEF Exit, Ends, InHand
  <1>2. Disk /\ cur \in Text /\ IsFiniteSet(Lost) /\ interrupted \in Nat
        /\ Cardinality(Lost) + AtRisk <= 2 * interrupted /\ ended \in BOOLEAN
    BY LostFinite DEF DInv, Hand, LInv, Disk
  <1>3. Lost' = shown \ Replayable'
    BY <1>1 DEF Lost
  <1>4. CASE ~(mpc = "log" /\ file)
    <2>1. UNCHANGED <<log, ended, interrupted>>
      BY <1>4 DEF Exit, disk
    <2>2. Replayable' = Replayable /\ AtRisk' = AtRisk
      BY <2>1 DEF Replayable, AtRisk
    <2>3. Lost = shown \ Replayable
      <3>1. mpc = "log" => cur.id = received /\ received \notin shown
        BY <1>4 DEF DInv, Hand, LInv
      <3> QED
        BY <3>1 DEF Lost, InHand
    <2> QED
      BY <1>1, <1>2, <1>3, <2>1, <2>2, <2>3 DEF LInv
  <1>5. CASE mpc = "log" /\ file
    <2>1. /\ interrupted' = interrupted + 1
          /\ \/ UNCHANGED <<log, ended>>
             \/ \E whole \in BOOLEAN : Written(whole, FALSE)
      BY <1>5 DEF Exit, disk
    <2>2. Lost = (shown \ Replayable) \ {cur.id}
      BY <1>5 DEF Lost, InHand
    <2>3. Replayable \subseteq Replayable' /\ AtRisk' \in {AtRisk, 1}
      <3>1. CASE UNCHANGED <<log, ended>>
        BY <3>1 DEF Replayable, AtRisk
      <3>2. ASSUME NEW whole \in BOOLEAN, Written(whole, FALSE)
            PROVE  Replayable \subseteq Replayable' /\ AtRisk' = 1
        <4>1. Replayable \subseteq Replayable'
          BY <1>2, <3>2, ReplayableGrows
        <4> QED
          BY <3>2, <4>1 DEF Written, AtRisk
      <3> QED
        BY <2>1, <3>1, <3>2
    <2>4. Lost' \subseteq Lost \cup {cur.id}
      BY <1>3, <2>2, <2>3
    <2>5. Cardinality(Lost') <= Cardinality(Lost) + 1 /\ Cardinality(Lost') \in Nat
          /\ Cardinality(Lost) \in Nat
      BY <1>2, <2>4, OneMore
    <2>6. AtRisk \in {0, 1} /\ AtRisk' <= 1 /\ AtRisk' \in Nat
      BY <2>3 DEF AtRisk
    <2>7. Cardinality(Lost)' + AtRisk' <= 2 * interrupted'
      BY <1>2, <2>1, <2>5, <2>6
    <2> QED
      BY <1>1, <1>2, <2>1, <2>7 DEF LInv
  <1> QED
    BY <1>4, <1>5

LEMMA StepLost ==
  ASSUME DInv, LInv, [CNext]_cvars
  PROVE  LInv'
  <1>1. CASE StartupStep /\ UNCHANGED <<disk, main, interrupted, chat>>
    <2>1. mpc \notin {"show", "log"} /\ mpc' \notin {"show", "log"}
      BY <1>1 DEF StartupStep, Start, Piece, NoVersion, Compare, Acknowledge, UpToDate,
         NotAClient, ChooseClient
    <2> QED
      BY <1>1, <2>1, LostKept DEF main
  <1>2. CASE Connected \/ InitNcurses \/ ReplayLine \/ ReplayEnd
    <2>1. /\ mpc \notin {"show", "log"} /\ mpc' \notin {"show", "log"}
          /\ UNCHANGED <<disk, cur, received, shown, interrupted>>
      BY <1>2 DEF Connected, InitNcurses, ReplayLine, ReplayEnd, main
    <2> QED
      BY <2>1, LostKept
  <1>3. CASE \E kind \in Kinds : Receive(kind)
    BY <1>3, ReceiveLost
  <1>4. CASE Show
    BY <1>4, ShowLost
  <1>5. CASE Log
    BY <1>5, LogLost
  <1>6. CASE Exit \/ LeaveChat
    BY <1>6, ExitLost DEF LeaveChat
  <1>7. CASE \/ (\E line \in Lines : ReadLine(line)) \/ ReadGhost
             \/ Nothing \/ ChangeUsername \/ Say
    <2>1. UNCHANGED <<disk, main, interrupted, mpc>>
      BY <1>7 DEF ReadLine, ReadGhost, Nothing, ChangeUsername, Say
    <2> QED
      BY <2>1, LostKept DEF main
  <1>8. CASE UNCHANGED cvars
    BY <1>8, LostKept DEF cvars, main
  <1> QED
    BY <1>1, <1>2, <1>3, <1>4, <1>5, <1>6, <1>7, <1>8 DEF CNext, MainStep, ChatStep

LEMMA InitLost == CInit => LInv
  <1> SUFFICES ASSUME CInit PROVE LInv
    OBVIOUS
  <1>1. Lost = {} /\ AtRisk = 0
    BY DEF CInit, Lost, AtRisk
  <1>2. Cardinality({}) = 0
    BY FS_EmptySet
  <1> QED
    BY <1>1, <1>2 DEF CInit, StartupInit, LInv

(* A run that ends between showing a text and flushing the log loses two   *)
(* texts at the most, its own and the first of the next run.               *)
THEOREM AtMostTwoLostCorrect == CSpec => []AtMostTwoLost
  <1>1. CInit => DInv /\ LInv
    BY InitDrawn, InitLost
  <1>2. DInv /\ LInv /\ [CNext]_cvars => DInv' /\ LInv'
    BY StepDrawn, StepLost
  <1>3. DInv /\ LInv => AtMostTwoLost
    <2> SUFFICES ASSUME DInv, LInv PROVE AtMostTwoLost
      OBVIOUS
    <2>1. Cardinality(Lost) \in Nat /\ AtRisk \in Nat /\ Cardinality(Lost) + AtRisk <= 2 * interrupted
          /\ interrupted \in Nat
      BY LostFinite, FS_CardinalityType DEF LInv, AtRisk
    <2>2. Cardinality(Lost) <= 2 * interrupted
      BY <2>1
    <2> QED
      BY <2>2 DEF AtMostTwoLost, Lost
  <1> QED
    BY <1>1, <1>2, <1>3, PTL DEF CSpec

(* What can be replayed once is replayed ever after, however the runs end. *)
THEOREM ReplayedEverAfter == CSpec => [][Replayable \subseteq Replayable']_cvars
  <1>1. ASSUME DInv, [CNext]_cvars PROVE Replayable \subseteq Replayable'
    <2>1. CASE log' = log
      BY <2>1 DEF Replayable
    <2>2. ASSUME NEW whole \in BOOLEAN, NEW end \in BOOLEAN, Written(whole, end)
          PROVE  Replayable \subseteq Replayable'
      <3>1. cur \in Text /\ Disk
        BY <1>1 DEF DInv, Hand
      <3> QED
        BY <2>2, <3>1, ReplayableGrows
    <2>3. CASE Log
      BY <2>1, <2>2, <2>3 DEF Log, EndOfLine, disk
    <2>4. CASE Exit \/ LeaveChat
      BY <2>1, <2>2, <2>4 DEF LeaveChat, Exit, disk
    <2>5. CASE UNCHANGED disk
      BY <2>1, <2>5 DEF disk
    <2> QED
      BY <1>1, <2>3, <2>4, <2>5 DEF CNext, MainStep, ChatStep, cvars, Connected, InitNcurses,
         ReplayLine, ReplayEnd, Receive, Show, ReadLine, ReadGhost, Nothing, ChangeUsername, Say
  <1> QED
    BY <1>1, InitDrawn, StepDrawn, PTL DEF CSpec

-----------------------------------------------------------------------------
(***************************************************************************)
(* What is sent: lines in the order of typing, and before the one that the *)
(* chat thread works on.                                                   *)
(***************************************************************************)
Typed == {"", "text", "!leave", "!changeusername", "!changeusername name", "!else"}
Line == [id : Nat, says : Typed]
Letter == [line : Line, as : {"request", "message"}]

Worked ==
  /\ cpc \in {"off", "read", "parse", "gone"}
  /\ buf \in Line /\ typed \in Nat /\ buf.id <= typed

Said ==
  /\ sent \in Seq(Letter)
  /\ \A i \in 1..Len(sent) : sent[i].as = "message" => sent[i].line.says = "text"
  /\ \A i \in 1..Len(sent) : sent[i].line.id <= typed
  /\ \A i, j \in 1..Len(sent) :
       (i < j /\ sent[i].line.id > 0 /\ sent[j].line.id > 0) => sent[i].line.id < sent[j].line.id

Unsaid ==
  cpc = "parse" /\ buf.id > 0 => \A i \in 1..Len(sent) : sent[i].line.id < buf.id

SInv == Worked /\ Said /\ Unsaid

\* The line in hand is sent, and the chat thread is done with it.
LEMMA SentSaid ==
  ASSUME SInv, cpc = "parse", NEW as \in {"request", "message"},
         as = "message" => buf.says = "text",
         sent' = Append(sent, [line |-> buf, as |-> as]), typed' = typed
  PROVE  Said'
  <1> DEFINE x == [line |-> buf, as |-> as]
             n == Len(sent)
  <1>1. /\ sent \in Seq(Letter) /\ x \in Letter /\ x.line = buf /\ x.as = as
        /\ buf.id \in Nat /\ buf.id <= typed /\ n \in Nat
    <2>1. sent \in Seq(Letter) /\ buf \in Line /\ buf.id <= typed
      BY DEF SInv, Worked, Said
    <2>2. buf.id \in Nat
      BY <2>1 DEF Line
    <2>3. x \in Letter /\ x.line = buf /\ x.as = as
      BY <2>1 DEF Letter
    <2>4. n \in Nat
      BY <2>1
    <2> QED
      BY <2>1, <2>2, <2>3, <2>4
  <1>2. sent' = Append(sent, x)
    OBVIOUS
  <1> HIDE DEF x
  <1>3. /\ sent' \in Seq(Letter) /\ Len(sent') = n + 1 /\ sent'[n + 1] = x
        /\ \A i \in 1..n : sent'[i] = sent[i]
    <2>1. sent \in Seq(Letter) /\ x \in Letter
      BY <1>1
    <2>2. /\ Append(sent, x) \in Seq(Letter) /\ Len(Append(sent, x)) = Len(sent) + 1
          /\ \A i \in 1..Len(sent) : Append(sent, x)[i] = sent[i]
          /\ Append(sent, x)[Len(sent) + 1] = x
      BY <2>1, AppendProperties
    <2> QED
      BY <1>2, <2>2
  <1>4. /\ \A i \in 1..n : sent[i].as = "message" => sent[i].line.says = "text"
        /\ \A i \in 1..n : sent[i].line.id <= typed
        /\ \A i, j \in 1..n : (i < j /\ sent[i].line.id > 0 /\ sent[j].line.id > 0)
             => sent[i].line.id < sent[j].line.id
        /\ buf.id > 0 => \A i \in 1..n : sent[i].line.id < buf.id
    BY DEF SInv, Said, Unsaid
  <1> HIDE DEF n
  <1>5. \A i \in 1..(n + 1) : i \in 1..n \/ i = n + 1
    BY <1>1
  <1>6. \A i \in 1..(n + 1) : sent'[i].as = "message" => sent'[i].line.says = "text"
    BY <1>1, <1>3, <1>4, <1>5
  <1>7. \A i \in 1..(n + 1) : sent'[i].line.id <= typed
    BY <1>1, <1>3, <1>4, <1>5
  <1>8. ASSUME NEW i \in 1..(n + 1), NEW j \in 1..(n + 1), i < j,
               sent'[i].line.id > 0, sent'[j].line.id > 0
        PROVE  sent'[i].line.id < sent'[j].line.id
    <2>1. i \in 1..n
      BY <1>1, <1>8
    <2>2. CASE j \in 1..n
      BY <1>3, <1>4, <1>8, <2>1, <2>2
    <2>3. CASE j = n + 1
      BY <1>1, <1>3, <1>4, <1>8, <2>1, <2>3
    <2> QED
      BY <1>5, <2>2, <2>3
  <1> QED
    BY <1>3, <1>6, <1>7, <1>8 DEF Said

\* The chat thread is not at work on a line, or as it was.
LEMMA SaidKept ==
  ASSUME SInv, sent' = sent, typed' = typed,
         \/ UNCHANGED <<cpc, buf>>
         \/ cpc' \in {"off", "read", "gone"} /\ buf' \in {buf, NoLine}
  PROVE  SInv'
  <1>1. NoLine \in Line /\ NoLine.id = 0
    BY DEF NoLine, Line, Typed
  <1>2. Worked'
    BY <1>1 DEF SInv, Worked
  <1> QED
    BY <1>2 DEF SInv, Said, Unsaid

LEMMA ReadSaid ==
  ASSUME SInv, (\E line \in Lines : ReadLine(line)) \/ ReadGhost
  PROVE  SInv'
  <1>1. CASE \E line \in Lines : ReadLine(line)
    <2>1. PICK line \in Lines : ReadLine(line)
      BY <1>1
    <2>2. cpc' = "parse" /\ typed' = typed + 1 /\ buf' = [id |-> typed + 1, says |-> line]
          /\ sent' = sent
      BY <2>1 DEF ReadLine
    <2>3. typed \in Nat /\ line \in Typed
      BY ClientAssumption DEF SInv, Worked, Typed
    <2>4. Worked'
      BY <2>2, <2>3 DEF Worked, Line
    <2>5. \A i \in 1..Len(sent) : sent[i].line.id \in Nat /\ sent[i].line.id <= typed
      <3>1. \A i \in 1..Len(sent) : sent[i] \in Letter /\ sent[i].line.id <= typed
        BY DEF SInv, Said
      <3>2. \A x \in Letter : x.line.id \in Nat
        BY DEF Letter, Line
      <3> QED
        BY <3>1, <3>2
    <2>6. \A i \in 1..Len(sent) : sent[i].line.id < typed + 1 /\ sent[i].line.id <= typed + 1
      BY <2>3, <2>5
    <2>7. Said' /\ Unsaid'
      BY <2>2, <2>6 DEF SInv, Said, Unsaid
    <2> QED
      BY <2>4, <2>7 DEF SInv
  <1>2. CASE ReadGhost
    <2>1. PICK line \in Lines : buf' = [id |-> 0, says |-> line]
      BY <1>2 DEF ReadGhost
    <2>2. buf' \in Line /\ buf'.id = 0 /\ cpc' = "parse" /\ UNCHANGED <<typed, sent>>
      BY <1>2, <2>1, ClientAssumption DEF ReadGhost, Line, Typed
    <2>3. typed' \in Nat /\ buf'.id <= typed'
      BY <2>2 DEF SInv, Worked
    <2> QED
      BY <2>2, <2>3 DEF SInv, Worked, Said, Unsaid
  <1> QED
    BY <1>1, <1>2

LEMMA SendSaid ==
  ASSUME SInv, ChangeUsername \/ Say
  PROVE  SInv'
  <1>1. CASE UNCHANGED sent
    <2>1. cpc' \in {"read", "gone"} /\ buf' \in {buf, NoLine} /\ typed' = typed
      BY DEF ChangeUsername, AfterCommand, Say
    <2> QED
      BY <1>1, <2>1, SaidKept
  <1>2. CASE ChangeUsername /\ sent' = Append(sent, [line |-> buf, as |-> "request"])
    <2>1. cpc = "parse" /\ cpc' = "read" /\ UNCHANGED <<buf, typed>>
      BY <1>2 DEF ChangeUsername, AfterCommand
    <2>2. Said'
      BY <1>2, <2>1, SentSaid
    <2> QED
      BY <2>1, <2>2 DEF SInv, Worked, Unsaid
  <1>3. CASE Say /\ sent' = Append(sent, [line |-> buf, as |-> "message"]) /\ cpc' = "read"
    <2>1. cpc = "parse" /\ buf.says = "text" /\ buf' = NoLine /\ UNCHANGED typed
      BY <1>3 DEF Say, SInv, Worked
    <2>2. Said'
      BY <1>3, <2>1, SentSaid
    <2>3. NoLine \in Line /\ NoLine.id = 0
      BY DEF NoLine, Line, Typed
    <2> QED
      BY <1>3, <2>1, <2>2, <2>3 DEF SInv, Worked, Unsaid
  <1> QED
    BY <1>1, <1>2, <1>3 DEF ChangeUsername, Say

LEMMA StepSaid ==
  ASSUME SInv, [CNext]_cvars
  PROVE  SInv'
  <1>1. CASE \/ StartupStep /\ UNCHANGED <<disk, main, interrupted, chat>>
             \/ InitNcurses \/ ReplayLine \/ ReplayEnd
             \/ (\E kind \in Kinds : Receive(kind)) \/ Show \/ Log
             \/ UNCHANGED cvars
    <2>1. UNCHANGED chat
      BY <1>1 DEF InitNcurses, ReplayLine, ReplayEnd, Receive, Show, Log, cvars, main
    <2> QED
      BY <2>1, SaidKept DEF chat
  <1>2. CASE Connected
    BY <1>2, SaidKept DEF Connected
  <1>3. CASE Exit \/ LeaveChat
    BY <1>3, SaidKept DEF LeaveChat, Exit, Ends
  <1>4. CASE Nothing
    BY <1>4, SaidKept DEF Nothing
  <1>5. CASE (\E line \in Lines : ReadLine(line)) \/ ReadGhost
    BY <1>5, ReadSaid
  <1>6. CASE ChangeUsername \/ Say
    BY <1>6, SendSaid
  <1> QED
    BY <1>1, <1>2, <1>3, <1>4, <1>5, <1>6 DEF CNext, MainStep, ChatStep

LEMMA InitSaid == CInit => SInv
  <1> SUFFICES ASSUME CInit PROVE SInv
    OBVIOUS
  <1>1. Len(<<>>) = 0 /\ <<>> \in Seq(Letter)
    OBVIOUS
  <1>2. NoLine \in Line /\ NoLine.id = 0
    BY DEF NoLine, Line, Typed
  <1> QED
    BY <1>1, <1>2 DEF CInit, SInv, Worked, Said, Unsaid

(* A line that is typed is sent once at the most, in the order of typing,  *)
(* and a command never as a chat message, whatever the chat thread made of *)
(* its uninitialized line, and whatever the main thread did meanwhile.     *)
THEOREM SaidOnceCorrect == CSpec => []SaidOnce
  <1>1. SInv => SaidOnce
    <2> SUFFICES ASSUME SInv PROVE SaidOnce
      OBVIOUS
    <2>1. DOMAIN sent = 1..Len(sent)
      BY DEF SInv, Said
    <2>2. ~IsCommand("text")
      BY DEF IsCommand
    <2> QED
      BY <2>1, <2>2 DEF SInv, Said, SaidOnce
  <1> QED
    BY <1>1, InitSaid, StepSaid, PTL DEF CSpec
=============================================================================
