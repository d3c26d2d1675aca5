------------------------------ MODULE ChatClient ------------------------------
(***************************************************************************)
(* The client process, over several runs of the program: the main thread   *)
(* connects, starts the chat thread, sets up the terminal, replays the log *)
(* .<ip>.json and then receives; the chat thread reads lines and sends.    *)
(* The handshake is the subject of module Trust, the stream of Wire.       *)
(*                                                                         *)
(* The log is the texts written to it.  Each goes onto a line of its own,  *)
(* except where a run has ended between a text and its end of line.  fgets *)
(* reads a line in pieces of 4095 bytes and cJSON parses the first value   *)
(* of a piece, if it is whole: text.begins says whether a piece begins     *)
(* with the text.  No piece that begins elsewhere passes for a chat, which *)
(* is the subject of module JsonProps (PiecesSilent).                      *)
(***************************************************************************)
EXTENDS Startup, FiniteSets

CONSTANTS
  Kinds,       \* received texts: "chat", "long" (a chat of 4096 bytes or more),
               \* "other" (JSON that is no chat), "noise" (not JSON)
  Lines,       \* what a user may type
  MaxReceived, \* bound: texts received, over all runs
  MaxTyped,    \* bound: lines typed, over all runs
  MaxGhosts    \* bound: texts the chat thread makes up, over all runs

ASSUME ClientAssumption ==
  /\ Kinds \subseteq {"chat", "long", "other", "noise"}
  /\ Lines \subseteq {"", "text", "!leave", "!changeusername", "!changeusername name", "!else"}
  /\ {MaxReceived, MaxTyped, MaxGhosts} \subseteq Nat

VARIABLES
  cpc,          \* what the chat thread does
  windows,      \* whether init_ncurses has made input_win and output_win
  file, log,    \* whether the log is open; its texts
  ended,        \* whether the last line of the log has its end
  next, cur,    \* texts of the log that have been read; the text in hand
  received,     \* texts received so far
  screen,       \* chat texts on the screen, in order
  shown,        \* short chat texts shown by runs that have their log open
  interrupted,  \* runs that ended between showing a text and flushing the log
  buf, typed, ghosts, \* the line the chat thread works on; lines typed, made up
  sent          \* messages sent, in order

disk   == <<log, ended>>
main   == <<windows, file, next, cur, received, screen, shown>>
chat   == <<cpc, buf, typed, ghosts, sent>>
cvars  == <<mpc, startup, disk, main, interrupted, chat>>

NoText == [id |-> 0, kind |-> "noise"]
NoLine == [id |-> 0, says |-> ""]

CInit ==
  /\ StartupInit
  /\ cpc = "off" /\ windows = FALSE /\ file = FALSE
  /\ log = <<>> /\ ended = TRUE /\ next = 0 /\ cur = NoText /\ received = 0
  /\ screen = <<>> /\ shown = {} /\ interrupted = 0
  /\ buf = NoLine /\ typed = 0 /\ ghosts = 0 /\ sent = <<>>

-----------------------------------------------------------------------------
(***************************************************************************)
(* The end of the process, in whatever step its threads are.               *)
(***************************************************************************)
\* The text in hand, or its start, at the end of the file: on a new line, or
\* behind another text, where a piece may begin with it or not.
Written(whole, end) ==
  /\ \E begins \in IF ended THEN {TRUE} ELSE BOOLEAN :
       log' = Append(log, [id |-> cur.id, kind |-> cur.kind, whole |-> whole, begins |-> begins])
  /\ ended' = end

Ends ==
  /\ mpc' = "off" /\ cpc' = "off"
  /\ windows' = FALSE /\ file' = FALSE /\ next' = 0 /\ cur' = NoText /\ screen' = <<>>
  /\ buf' = NoLine
  /\ StartupForgets
  /\ UNCHANGED <<received, shown, typed, ghosts, sent>>

\* exit, a signal or the end of main; fprintf may have got anywhere.
Exit ==
  /\ mpc \notin {"off", "download", "warn", "choice"}
  /\ Ends
  /\ \/ /\ mpc = "log" /\ file
        /\ interrupted' = interrupted + 1
        /\ \/ UNCHANGED disk
           \/ \E whole \in BOOLEAN : Written(whole, FALSE)
     \/ /\ ~(mpc = "log" /\ file)
        /\ UNCHANGED <<disk, interrupted>>

-----------------------------------------------------------------------------
(***************************************************************************)
(* handle_client_choice: the main thread.                                  *)
(***************************************************************************)
\* A name that does not resolve, a refused connection or handshake ends the run.
Connected ==
  /\ mpc = "dial"
  /\ mpc' = "windows" /\ cpc' = "read"
  /\ StartupForgets
  /\ UNCHANGED <<disk, main, interrupted, buf, typed, ghosts, sent>>

\* init_ncurses; a terminal that is too small ends the process.
InitNcurses ==
  /\ mpc = "windows"
  /\ windows' = TRUE
  /\ mpc' = "replay"
  /\ file' \in BOOLEAN
  /\ UNCHANGED <<startup, disk, next, cur, received, screen, shown, interrupted, chat>>

\* display_chat_message.
Display(text) ==
  screen' = IF text.kind \in {"chat", "long"} THEN Append(screen, text.id) ELSE screen

\* What cJSON_Parse makes of a text of the log.
Parsed(text) == IF text.whole /\ text.begins /\ text.kind # "long" THEN text ELSE NoText

\* Mutant: the loop asks feof instead of fgets, and takes the last line twice.
ReplayedTwice == IF log = <<>> THEN <<>> ELSE Append(log, log[Len(log)])
\* What fgets reads, up to the end of the file.
Replayed == log

ReplayLine ==
  /\ mpc = "replay" /\ file /\ next < Len(Replayed)
  /\ Display(Parsed(Replayed[next + 1]))
  /\ next' = next + 1
  /\ UNCHANGED <<mpc, startup, disk, windows, file, cur, received, shown, interrupted, chat>>

ReplayEnd ==
  /\ mpc = "replay" /\ (file => next = Len(Replayed))
  /\ mpc' = "recv"
  /\ UNCHANGED <<startup, disk, main, interrupted, chat>>

Receive(kind) ==
  /\ mpc = "recv" /\ received < MaxReceived
  /\ received' = received + 1
  /\ cur' = [id |-> received + 1, kind |-> kind]
  /\ mpc' = IF kind = "noise" THEN "recv" ELSE "show"
  /\ UNCHANGED <<startup, disk, windows, file, next, screen, shown, interrupted, chat>>

Show ==
  /\ mpc = "show"
  /\ Display(cur)
  /\ shown' = IF cur.kind = "chat" /\ file THEN shown \cup {cur.id} ELSE shown
  /\ mpc' = "log"
  /\ UNCHANGED <<startup, disk, windows, file, next, cur, received, interrupted, chat>>

\* Mutant: the end of the line is forgotten.
EndOfLineForgotten == FALSE
EndOfLine == TRUE

\* fprintf and fflush.
Log ==
  /\ mpc = "log"
  /\ IF file THEN Written(TRUE, EndOfLine) ELSE UNCHANGED disk
  /\ mpc' = "recv"
  /\ UNCHANGED <<startup, main, interrupted, chat>>

-----------------------------------------------------------------------------
(***************************************************************************)
(* handle_chat: the chat thread.  Before there is a window wgetnstr fails  *)
(* at once and buf is whatever the stack holds.                            *)
(***************************************************************************)
ReadLine(line) ==
  /\ cpc = "read" /\ windows /\ typed < MaxTyped
  /\ typed' = typed + 1
  /\ buf' = [id |-> typed + 1, says |-> line]
  /\ cpc' = "parse"
  /\ UNCHANGED <<mpc, startup, disk, main, interrupted, ghosts, sent>>

ReadGhost ==
  /\ cpc = "read" /\ ~windows /\ ghosts < MaxGhosts
  /\ ghosts' = ghosts + 1
  /\ \E line \in Lines : buf' = [id |-> 0, says |-> line]
  /\ cpc' = "parse"
  /\ UNCHANGED <<mpc, startup, disk, main, interrupted, typed, sent>>

IsCommand(line) == line \in {"!leave", "!changeusername", "!changeusername name", "!else"}

\* Nothing typed, a command handle_command does not know or that lacks its argument.
Nothing ==
  /\ cpc = "parse" /\ buf.says \in {"", "!changeusername", "!else"}
  /\ cpc' = "read" /\ buf' = NoLine
  /\ UNCHANGED <<mpc, startup, disk, main, interrupted, typed, ghosts, sent>>

\* Mutant: handle_command falls through to the chat message.
AfterCommandFallsThrough == "say"
AfterCommand == "read"

\* The request goes out as a length and a body, unless there is no memory for it.
ChangeUsername ==
  /\ cpc = "parse" /\ buf.says = "!changeusername name"
  /\ \/ sent' = Append(sent, [line |-> buf, as |-> "request"])
     \/ UNCHANGED sent
  /\ cpc' = AfterCommand
  /\ UNCHANGED <<mpc, startup, disk, main, interrupted, buf, typed, ghosts>>

LeaveChat ==
  /\ cpc = "parse" /\ buf.says = "!leave"
  /\ Exit

\* A message that cannot be built ends the thread, and only the thread.
Say ==
  /\ cpc = "say" \/ (cpc = "parse" /\ buf.says = "text")
  /\ \/ sent' = Append(sent, [line |-> buf, as |-> "message"]) /\ cpc' = "read"
     \/ UNCHANGED sent /\ cpc' = "gone"
  /\ buf' = NoLine
  /\ UNCHANGED <<mpc, startup, disk, main, interrupted, typed, ghosts>>

-----------------------------------------------------------------------------
MainStep ==
  \/ Connected \/ InitNcurses \/ ReplayLine \/ ReplayEnd
  \/ (\E kind \in Kinds : Receive(kind)) \/ Show \/ Log

ChatStep ==
  \/ (\E line \in Lines : ReadLine(line)) \/ ReadGhost
  \/ Nothing \/ ChangeUsername \/ LeaveChat \/ Say

CNext ==
  \/ StartupStep /\ UNCHANGED <<disk, main, interrupted, chat>>
  \/ MainStep \/ ChatStep \/ Exit

CSpec == CInit /\ [][CNext]_cvars

-----------------------------------------------------------------------------
(* Nobody gets to the menu, or to dialling a server, with a version that   *)
(* differs from the published one, or is not known to equal it, without    *)
(* having pressed ENTER: in whatever pieces it arrives, however long it is.*)
VersionAcknowledged ==
  (mpc \in {"choice", "dial"} /\ ~acknowledged) => Cut(Local) = Cut(remote)

(* Chat texts are on the screen in the order they were received, over all  *)
(* runs and none twice, the replayed ones first and then the new ones; and *)
(* the log replays only texts that an earlier run has shown.               *)
ScreenInOrder ==
  /\ \A i, j \in DOMAIN screen : i < j => screen[i] < screen[j]
  /\ mpc = "replay" => \A i \in DOMAIN screen : screen[i] \in shown

Replayable == {Parsed(log[i]).id : i \in DOMAIN log}
InHand == IF mpc = "log" THEN {cur.id} ELSE {}

(* A run that ends between showing a text and flushing the log loses two   *)
(* texts at the most: that one, and the first of the next run, which goes  *)
(* onto the same line.  All other short texts are replayed ever after.     *)
AtMostTwoLost == Cardinality((shown \ Replayable) \ InHand) <= 2 * interrupted

(* A line that is typed is sent once at the most, in the order of typing,  *)
(* and a command never as a chat message, whatever the chat thread made of *)
(* its uninitialized line before there were windows.                       *)
SaidOnce ==
  /\ \A i \in DOMAIN sent : sent[i].as = "message" => ~IsCommand(sent[i].line.says)
  /\ \A i, j \in DOMAIN sent :
       (i < j /\ sent[i].line.id > 0 /\ sent[j].line.id > 0) => sent[i].line.id < sent[j].line.id
=============================================================================
