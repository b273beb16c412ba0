------------------------------ MODULE Catalogue ------------------------------
(***************************************************************************)
(* What the list of books promises its users: the books in the order they  *)
(* came, each under a number no other book ever had, found by its name or  *)
(* its number.  When two books have one name, the older is found.          *)
(***************************************************************************)
EXTENDS Naturals, Sequences, SequencesExt

CONSTANTS Name

VARIABLES
  list,   \* the books
  last    \* the number given out last

catalogue == <<list, last>>

CatalogueInit == list = <<>> /\ last = 0

(* A number is used up whether or not there is memory for the book.        *)
Stock(n) ==
  /\ last' = last + 1
  /\ \/ list' = Append(list, [id |-> last', name |-> n, state |-> 1])
     \/ UNCHANGED list

StrikeOff(n) == \E k \in DOMAIN list :
  /\ list[k].name = n
  /\ \A j \in 1..(k - 1) : list[j].name # n
  /\ list' = RemoveAt(list, k)
  /\ UNCHANGED last

Mark(i, s) == \E k \in DOMAIN list :
  /\ list[k].id = i
  /\ list' = [list EXCEPT ![k].state = s]
  /\ UNCHANGED last

CatalogueNext ==
  \/ \E n \in Name : Stock(n) \/ StrikeOff(n)
  \/ \E i \in 1..last, s \in {0, 1} : Mark(i, s)

CatalogueSpec == CatalogueInit /\ [][CatalogueNext]_catalogue
=============================================================================
