-------------------------------- MODULE Json --------------------------------
(***************************************************************************)
(* What polycomm does with cJSON, from the first allocation to the last    *)
(* free: an object is built with cJSON_AddStringToObject, or a text from a *)
(* peer or a file is parsed and perhaps added to (mark_server_safe); the   *)
(* tree is printed, formatted or not, and deleted; and what was printed is *)
(* parsed by whoever receives or reads it.                                 *)
(***************************************************************************)
EXTENDS JsonPrint

CONSTANTS
  Texts,     \* what a peer may send and a file may hold
  Members,   \* names and values that may be added
  MaxAdded   \* bound: members added

ASSUME TextsAssumption ==
  Texts \subseteq Seq(NonZero) /\ Members \subseteq Seq(NonZero) \X Seq(NonZero)

VARIABLES
  added,
  said       \* what the printed tree says; <<>> before

vars == <<tree, parser, printbuffer, added, said>>

Init ==
  /\ TreeInit
  /\ \/ text \in {Append(t, 0) : t \in Texts} /\ pc = "parse"
     \/ text = <<>> /\ pc = "create"
  /\ offset = 0 /\ stack = <<>> /\ root = 0 /\ target = 0
  /\ buffer = <<>> /\ size = 0 /\ printed = 0 /\ format = FALSE /\ tasks = <<>>
  /\ added = 0 /\ said = <<>>

\* cJSON_CreateObject
Create ==
  /\ pc = "create"
  /\ \/ items' = <<New("object")>> /\ root' = 1 /\ pc' = "tree" /\ UNCHANGED fails
     \/ Refused /\ pc' = "failed" /\ UNCHANGED <<items, root>>
  /\ UNCHANGED <<strings, misused, text, offset, stack, target, printbuffer, added, said>>

Add ==
  /\ pc = "tree" /\ said = <<>> /\ added < MaxAdded
  /\ \E m \in Members : AddStringToObject(root, m[1], m[2])
  /\ added' = added + 1
  /\ UNCHANGED <<parser, printbuffer, said>>

PrintTree ==
  /\ said = <<>>
  /\ StartPrint
  /\ said' = <<ValueOf(root, FALSE)>>
  /\ UNCHANGED added

PrintStep == (PrintCall \/ PrintWrite \/ PrintDone) /\ UNCHANGED <<added, said>>

\* The tree is deleted, and what was printed goes out and is parsed.  After a
\* print that failed nobody gets here: handle_command returns and leaves the
\* tree, the others go on with the NULL text.
DeleteTree ==
  /\ pc \in {"tree", "printed"}
  /\ Delete(root)
  /\ root' = 0
  /\ IF pc = "printed"
     THEN text' = SubSeq(buffer, 1, printed + 1) /\ pc' = "parse"
     ELSE UNCHANGED text /\ pc' = "deleted"
  /\ UNCHANGED <<fails, offset, stack, target, printbuffer, added, said>>

ParseStep == Parse /\ UNCHANGED <<printbuffer, added, said>>

Ended == pc \in {"failed", "deleted", "unprinted"}

Next ==
  \/ Create \/ Add \/ PrintTree \/ PrintStep \/ DeleteTree \/ ParseStep
  \/ Ended /\ UNCHANGED vars

Spec == Init /\ [][Next]_vars
=============================================================================
