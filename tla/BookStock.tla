------------------------------ MODULE BookStock ------------------------------
(***************************************************************************)
(* The list of books of Others/book.c: a ring of malloc'ed nodes linked    *)
(* both ways through book_head, whose id 0 ends every search, and the      *)
(* change page of User/main.c that adds and deletes books.  Only the page  *)
(* that owns the screen works on the list (see Handoff), so a call is one  *)
(* step.  A node's text points to a row of the table of names.             *)
(***************************************************************************)
EXTENDS Integers, FiniteSets, Sequences

CONSTANTS
  Addr, NULL,   \* what malloc returns
  Name,         \* what is typed; each fits a row of the table
  InitNames,    \* the rows filled at start
  Rows          \* the last row: 29

ASSUME StockAssumption ==
  /\ NULL \notin Addr
  /\ InitNames \in Seq(Name)
  /\ Len(InitNames) \in 1..Rows
  /\ Rows \in 0..255         \* id and change_id are u8

VARIABLES
  node,        \* the allocated nodes
  book_head,
  book_num,
  name,        \* the table of names
  change_id,   \* of the change page, 0 until it starts
  i            \* the loop counter of book_system_init

vars == <<node, book_head, book_num, name, change_id, i>>

Init ==
  /\ node = [a \in {} |-> NULL]
  /\ book_head = NULL
  /\ book_num = Len(InitNames)
  /\ name = [r \in 0..Rows |-> IF r \in DOMAIN InitNames THEN InitNames[r] ELSE NULL]
  /\ change_id = 0
  /\ i = 0

-----------------------------------------------------------------------------
(* book.c *)

(* The node k links behind the head.                                       *)
Walk == LET at[k \in Nat] == IF k = 0 THEN book_head ELSE node[at[k - 1]].next IN at

(* The first of the nodes looked for from the head on, or else the head.   *)
Search(nodes) ==
  Walk[CHOOSE k \in 1..Cardinality(DOMAIN node) :
         /\ Walk[k] \in nodes \cup {book_head}
         /\ \A j \in 1..(k - 1) : Walk[j] \notin nodes \cup {book_head}]

book_find(n) == Search({a \in DOMAIN node : name[node[a].text] = n})
book_id_find(id) == Search({a \in DOMAIN node : node[a].id = id})

(* Mutant: the new node is not linked to the head.                         *)
create_book_item_loose(a, row, id, state) ==
  LET last == node[book_head].prev
  IN  [x \in DOMAIN node \cup {a} |->
         IF x = a THEN [text |-> row, id |-> id, state |-> state,
                        next |-> NULL, prev |-> last]
         ELSE [node[x] EXCEPT !.next = IF x = last THEN a ELSE @,
                              !.prev = IF x = book_head THEN a ELSE @]]

(* In front of the head, which is at the end of the list.                  *)
create_book_item(a, row, id, state) ==
  LET last == node[book_head].prev
  IN  [x \in DOMAIN node \cup {a} |->
         IF x = a THEN [text |-> row, id |-> id, state |-> state,
                        next |-> book_head, prev |-> last]
         ELSE [node[x] EXCEPT !.next = IF x = last THEN a ELSE @,
                              !.prev = IF x = book_head THEN a ELSE @]]

(* Mutant: the next node keeps its prev.                                   *)
delete_book_one_way(a) ==
  [x \in DOMAIN node \ {a} |->
     [node[x] EXCEPT !.next = IF x = node[a].prev THEN node[a].next ELSE @]]

delete_book(a) ==
  [x \in DOMAIN node \ {a} |->
     [node[x] EXCEPT !.next = IF x = node[a].prev THEN node[a].next ELSE @,
                     !.prev = IF x = node[a].next THEN node[a].prev ELSE @]]

Free == Addr \ DOMAIN node

(* book_system_init: the head, then a book for each row that is filled.    *)
(* The heap is empty then and has room for them.                           *)
MakeHead ==
  /\ book_head = NULL
  /\ \E a \in Free :
       /\ book_head' = a
       /\ node' = [x \in {a} |-> [text |-> 0, id |-> 0, state |-> 0, next |-> a, prev |-> a]]
  /\ i' = 1
  /\ UNCHANGED <<book_num, name, change_id>>

MakeBook ==
  /\ book_head # NULL
  /\ i <= book_num
  /\ change_id = 0               \* the change thread starts later
  /\ \E a \in Free : node' = create_book_item(a, i, i, 1)
  /\ i' = i + 1
  /\ UNCHANGED <<book_head, book_num, name, change_id>>

-----------------------------------------------------------------------------
(* The change page *)

Booted == book_head # NULL /\ i > Len(InitNames)

StartChange ==
  /\ Booted /\ change_id = 0
  /\ change_id' = book_num % 256
  /\ UNCHANGED <<node, book_head, book_num, name, i>>

Changing == Booted /\ change_id # 0

(* Mutant: the new number is the new count of the books.                   *)
AddByCount(n) ==
  /\ Changing
  /\ book_num < Rows
  /\ change_id' = book_num + 1
  /\ name' = [name EXCEPT ![change_id'] = n]
  /\ \/ \E a \in Free :
          /\ node' = create_book_item(a, change_id', change_id', 1)
          /\ book_num' = book_num + 1
     \/ UNCHANGED <<node, book_num>>
  /\ UNCHANGED <<book_head, i>>

(* Bound: a name for a row behind the table is left out.                   *)
Add(n) ==
  /\ Changing
  /\ change_id < Rows
  /\ change_id' = change_id + 1
  /\ name' = [name EXCEPT ![change_id'] = n]
  /\ \/ \E a \in Free :
          /\ node' = create_book_item(a, change_id', change_id', 1)
          /\ book_num' = book_num + 1
     \/ UNCHANGED <<node, book_num>>
  /\ UNCHANGED <<book_head, i>>

(* Mutant: a name that is not found is counted as deleted.                 *)
DeleteCountsAlways(n) ==
  /\ Changing
  /\ LET a == book_find(n)
     IN  node' = IF node[a].id = 0 THEN node ELSE delete_book(a)
  /\ book_num' = book_num - 1
  /\ UNCHANGED <<book_head, name, change_id, i>>

Delete(n) ==
  /\ Changing
  /\ LET a == book_find(n)
     IN  /\ node[a].id # 0
         /\ node' = delete_book(a)
  /\ book_num' = book_num - 1
  /\ UNCHANGED <<book_head, name, change_id, i>>

(* Bo_Re marks a book borrowed or available; the number may be no book's.  *)
Mark(id, s) ==
  /\ Booted
  /\ node' = [node EXCEPT ![book_id_find(id)].state = s]
  /\ UNCHANGED <<book_head, book_num, name, change_id, i>>

Next ==
  \/ MakeHead \/ MakeBook \/ StartChange
  \/ \E n \in Name : Add(n) \/ Delete(n)
  \/ \E id \in 1..Rows, s \in {0, 1} : Mark(id, s)

Spec == Init /\ [][Next]_vars

-----------------------------------------------------------------------------

Node == [text : 0..Rows, id : 0..Rows, state : {0, 1}, next : Addr, prev : Addr]

TypeOK ==
  /\ DOMAIN node \subseteq Addr
  /\ \A a \in DOMAIN node : node[a] \in Node
  /\ book_head \in DOMAIN node \cup {NULL}
  /\ book_num \in 0..Rows
  /\ name \in [0..Rows -> Name \cup {NULL}]
  /\ change_id \in 0..Rows
  /\ i \in 0..(Len(InitNames) + 1)

Size == Cardinality(DOMAIN node)

(* The ring is whole: it passes every allocated node once and nothing that *)
(* was freed, the same backwards, in ascending order of the numbers.       *)
RingSound == book_head # NULL =>
  /\ {Walk[k] : k \in 0..(Size - 1)} = DOMAIN node
  /\ Walk[Size] = book_head
  /\ \A a \in DOMAIN node : node[node[a].next].prev = a
  /\ \A k \in 1..(Size - 1) : node[Walk[k - 1]].id < node[Walk[k]].id

(* book_num counts the ring, also after failed mallocs and failed searches. *)
CountMatches == Booted => book_num = Size - 1

C == INSTANCE Catalogue WITH
  list <- [k \in 1..(IF book_head = NULL THEN 0 ELSE Size - 1) |->
             LET a == Walk[k]
             IN  [id |-> node[a].id, name |-> name[node[a].text], state |-> node[a].state]],
  last <- IF change_id # 0 THEN change_id ELSE IF i = 0 THEN 0 ELSE i - 1

(* The ring and its table of names behave as the catalogue: a book keeps   *)
(* its number and its name whatever is added, deleted or fails.            *)
ImplementsCatalogue == C!CatalogueSpec
=============================================================================
