------------------------------- MODULE Lending -------------------------------
(***************************************************************************)
(* What the borrow and giveback pages promise about the books: a book is   *)
(* on the shelf or lent on one card, it is lent from the shelf only, and   *)
(* it comes back to the shelf only through the card it was lent on.  The   *)
(* change page puts new books on the shelf and strikes books off the list. *)
(***************************************************************************)
CONSTANTS Book, Card

VARIABLE loc   \* where each book is: on a card, or one of the three places

Places == {"unlisted", "shelf", "counter"}   \* no card is one of them

LendingInit == loc \in [Book -> {"shelf", "unlisted"}]

Move(b, from, to) == loc[b] = from /\ loc' = [loc EXCEPT ![b] = to]

Acquire(b) == Move(b, "unlisted", "shelf")
StrikeOff(b) == loc[b] # "unlisted" /\ loc' = [loc EXCEPT ![b] = "unlisted"]
Lend(b, c) == Move(b, "shelf", c)
HandIn(b, c) == Move(b, c, "counter")
Shelve(b) == Move(b, "counter", "shelf")

LendingNext == \E b \in Book :
  \/ Acquire(b) \/ StrikeOff(b) \/ Shelve(b)
  \/ \E c \in Card : Lend(b, c) \/ HandIn(b, c)

LendingSpec == LendingInit /\ [][LendingNext]_loc
=============================================================================
