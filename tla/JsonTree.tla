------------------------------ MODULE JsonTree ------------------------------
(***************************************************************************)
(* The items of cJSON on the heap: doubly linked lists in which the head's *)
(* prev is the last item, their strings, cJSON_AddStringToObject and       *)
(* cJSON_Delete.  A pointer is a place in items, 0 is NULL.                *)
(***************************************************************************)
EXTENDS JsonText

CONSTANT MaxFails   \* bound: allocations refused

VARIABLES
  items,    \* every cJSON allocated so far
  strings,  \* string blocks allocated and not freed
  fails,    \* allocations refused so far
  misused   \* whether something was freed twice or read after being freed

tree == <<items, strings, fails, misused>>

\* string and valuestring are NULL (<<>>) or a block with bytes.
New(type) ==
  [live |-> TRUE, type |-> type, string |-> <<>>, valuestring |-> <<>>,
   number |-> 0, next |-> 0, prev |-> 0, child |-> 0]

TreeInit == items = <<>> /\ strings = 0 /\ fails = 0 /\ misused = FALSE

Refused == fails < MaxFails /\ fails' = fails + 1

\* What hangs on item i: its later siblings and everybody's children.
Hanging(i) ==
  LET hanging[k \in 0..Len(items)] ==
        IF k = 0 THEN {} ELSE {k} \cup hanging[items[k].next] \cup hanging[items[k].child]
  IN hanging[i]

Blocks(set) ==
  Cardinality({i \in set : items[i].string # <<>>})
  + Cardinality({i \in set : items[i].valuestring # <<>>})

\* Mutant: only the item itself is freed.
DeletedAlone(i) == IF i = 0 THEN {} ELSE {i}
\* What cJSON_Delete(i) frees.
Deleted(i) == Hanging(i)

Delete(i) ==
  /\ items' = [k \in DOMAIN items |->
                 IF k \in Deleted(i) THEN [items[k] EXCEPT !.live = FALSE] ELSE items[k]]
  /\ strings' = strings - Blocks(Deleted(i))
  /\ misused' = (misused \/ \E k \in Deleted(i) : ~items[k].live)

-----------------------------------------------------------------------------
(***************************************************************************)
(* What handle_chat, handle_command, the server's announcements and        *)
(* mark_server_safe build: an object with string members.                  *)
(***************************************************************************)
\* Mutant: the head is not told of its new last item.
LinkedUntold(list, object, n) ==
  LET head == list[object].child
      last == list[head].prev
  IN IF head = 0 THEN [list EXCEPT ![object].child = n, ![n].prev = n]
     ELSE IF last = 0 THEN list
     ELSE [list EXCEPT ![last].next = n, ![n].prev = last]

\* add_item_to_array, for the new item n.  The last item is found by way of the
\* head; a head that does not know it leaves n unlinked.
Linked(list, object, n) ==
  LET head == list[object].child
      last == list[head].prev
  IN IF head = 0 THEN [list EXCEPT ![object].child = n, ![n].prev = n]
     ELSE IF last = 0 THEN list
     ELSE [list EXCEPT ![last].next = n, ![n].prev = last, ![head].prev = n]

\* Item, value and name are allocated in turn; whichever is refused, those
\* before it are freed and the object is as it was.
AddStringToObject(object, name, value) ==
  \/ /\ items' = Linked(Append(items, [New("string") EXCEPT !.string = <<name>>, !.valuestring = <<value>>]),
                        object, Len(items) + 1)
     /\ strings' = strings + 2
     /\ UNCHANGED <<fails, misused>>
  \/ /\ Refused
     /\ UNCHANGED <<items, strings, misused>>

-----------------------------------------------------------------------------
\* The list of siblings from item i on.
Siblings(i) ==
  LET list[k \in 0..Len(items)] == IF k = 0 THEN <<>> ELSE <<k>> \o list[items[k].next]
  IN list[i]

\* What an item says as JSON, its strings as C strings: names count in objects,
\* children in objects and arrays.
ValueOf(i, inObject) ==
  LET Read(pointer) == [k \in DOMAIN pointer |-> CString(pointer[k])]
      value[k \in 1..Len(items), named \in BOOLEAN] ==
        LET kids == IF items[k].type \in {"object", "array"} THEN Siblings(items[k].child) ELSE <<>>
        IN [type   |-> items[k].type,
            name   |-> IF named THEN Read(items[k].string) ELSE <<>>,
            text   |-> Read(items[k].valuestring),
            number |-> items[k].number,
            kids   |-> [n \in DOMAIN kids |-> value[kids[n], items[k].type = "object"]]]
  IN value[i, inObject]
=============================================================================
