------------------------------- MODULE Startup -------------------------------
(***************************************************************************)
(* The start of the program, in main: check_updates compares version.txt   *)
(* with the published one, which curl hands over in pieces, and the user   *)
(* has to acknowledge a difference or a failure before the menu.           *)
(***************************************************************************)
EXTENDS Integers, Sequences, SequencesExt

CONSTANTS
  Local,    \* the characters of version.txt
  Remotes,  \* what the download may bring; "nl" is an end of line
  BufSize,  \* length of write_buf.data (32)
  MaxRuns   \* bound: times the program is started

ASSUME StartupAssumption ==
  /\ BufSize \in Nat \ {0} /\ MaxRuns \in Nat
  /\ Local \in Seq(STRING) /\ Remotes \subseteq Seq(STRING)
  /\ Len(Local) < BufSize

VARIABLES
  mpc,           \* what the main thread does
  remote, left,  \* the published version, and what of it is still to come
  data,          \* write_buf: the characters so far
  needs_update,  \* what check_updates has returned
  acknowledged,  \* whether the user has pressed ENTER in this run
  runs

startup == <<remote, left, data, needs_update, acknowledged, runs>>

StartupInit ==
  /\ mpc = "off" /\ runs = 0
  /\ remote = <<>> /\ left = <<>> /\ data = <<>>
  /\ needs_update = 0 /\ acknowledged = FALSE

\* What check_updates and main know is not looked at after a connection is made.
StartupForgets ==
  /\ remote' = <<>> /\ left' = <<>> /\ data' = <<>>
  /\ needs_update' = 0 /\ acknowledged' = FALSE
  /\ UNCHANGED runs

Start ==
  /\ mpc = "off" /\ runs < MaxRuns
  /\ runs' = runs + 1
  /\ remote' \in Remotes /\ left' = remote'
  /\ mpc' = "download"
  /\ UNCHANGED <<data, needs_update, acknowledged>>

\* There stays room for the terminator.
Fits(n) == Len(data) + n < BufSize

\* write_callback: a piece that does not fit is refused, and that ends the download.
Piece(n) ==
  /\ mpc = "download" /\ n \in 1..Len(left)
  /\ \/ /\ Fits(n)
        /\ data' = data \o SubSeq(left, 1, n)
        /\ left' = SubSeq(left, n + 1, Len(left))
        /\ UNCHANGED <<mpc, needs_update>>
     \/ /\ ~Fits(n)
        /\ needs_update' = 2 /\ mpc' = "warn"
        /\ UNCHANGED <<data, left>>
  /\ UNCHANGED <<remote, acknowledged, runs>>

\* No curl, no network, no version.txt.
NoVersion ==
  /\ mpc = "download"
  /\ needs_update' = 2 /\ mpc' = "warn"
  /\ UNCHANGED <<remote, left, data, acknowledged, runs>>

\* strcspn: the text up to its first end of line.
Cut(text) ==
  LET i == SelectInSeq(text, LAMBDA c : c = "nl")
  IN IF i = 0 THEN text ELSE SubSeq(text, 1, i - 1)

\* Mutant: only as many characters are compared as version.txt has.
SameStart(text) == IsPrefix(Cut(Local), Cut(text))
Same(text) == Cut(Local) = Cut(text)

Compare ==
  /\ mpc = "download" /\ left = <<>>
  /\ needs_update' = IF Same(data) THEN 0 ELSE 1
  /\ mpc' = "warn"
  /\ UNCHANGED <<remote, left, data, acknowledged, runs>>

\* The loop that reads up to ENTER, or to the end of the input.
Acknowledge ==
  /\ mpc = "warn" /\ needs_update # 0
  /\ acknowledged' = TRUE
  /\ mpc' = "choice"
  /\ UNCHANGED <<remote, left, data, needs_update, runs>>

UpToDate ==
  /\ mpc = "warn" /\ needs_update = 0
  /\ mpc' = "choice"
  /\ UNCHANGED <<remote, left, data, needs_update, acknowledged, runs>>

\* An interrupt at a prompt, libsodium not starting, a choice that is neither,
\* or that of the server, whose process is the subject of module Server.
NotAClient ==
  /\ mpc \in {"warn", "choice"}
  /\ mpc' = "off"
  /\ StartupForgets

ChooseClient ==
  /\ mpc = "choice"
  /\ mpc' = "dial"
  /\ UNCHANGED startup

StartupStep ==
  \/ Start \/ (\E n \in 1..Len(left) : Piece(n)) \/ NoVersion \/ Compare
  \/ Acknowledge \/ UpToDate \/ NotAClient \/ ChooseClient
=============================================================================
