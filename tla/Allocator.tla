------------------------------ MODULE Allocator ------------------------------
(***************************************************************************)
(* What a memory pool promises: what it hands out belongs to nobody else   *)
(* until it is given back, and it refuses only when it has no room.        *)
(***************************************************************************)
EXTENDS Naturals

CONSTANTS Cell, NULL

VARIABLES
  owned,   \* the cells of each allocation, by its first cell
  asked,   \* how many cells the last request was for
  result   \* what it returned

allocator == <<owned, asked, result>>

Run(start, n) == start..(start + n - 1)
Taken == UNION {owned[a] : a \in DOMAIN owned}
Fits(n, start) == n > 0 /\ Run(start, n) \subseteq Cell \ Taken

With(start, n) ==
  [a \in DOMAIN owned \cup {start} |-> IF a = start THEN Run(start, n) ELSE owned[a]]
Without(f, a) == [x \in DOMAIN f \ {a} |-> f[x]]

AllocatorInit == owned = [a \in {} |-> {}] /\ asked = 0 /\ result = NULL

(* A request for asked' cells is served or, when they fit nowhere, refused *)
(* and changes nothing.                                                    *)
Refuse ==
  /\ \A start \in Cell : ~Fits(asked', start)
  /\ result' = NULL
  /\ UNCHANGED owned

Allocate ==
  \/ Refuse
  \/ \E start \in Cell : /\ Fits(asked', start)
                         /\ owned' = With(start, asked')
                         /\ result' = start

(* Old and new are both held while the contents are copied.                *)
Reallocate(a) ==
  \/ Refuse
  \/ \E start \in Cell : /\ Fits(asked', start)
                         /\ owned' = Without(With(start, asked'), a)
                         /\ result' = start

Release(a) == owned' = Without(owned, a) /\ UNCHANGED <<asked, result>>

AllocatorNext == Allocate \/ \E a \in DOMAIN owned : Release(a) \/ Reallocate(a)

AllocatorSpec == AllocatorInit /\ [][AllocatorNext]_allocator
=============================================================================
