----------------------------- MODULE Circulation -----------------------------
(***************************************************************************)
(* Borrowing and giving back: Bo_Re (Others/rc522.c), called in a loop by  *)
(* the borrow page with type 1 and by the giveback page with type 0.  A    *)
(* pass finds and selects the card, reads the two blocks of its sector 4   *)
(* (the number of loans and their book numbers), takes a typed book number *)
(* if there is one, and, while a request is pending, changes both blocks   *)
(* in RAM and writes them back one after the other.  A book's state in RAM *)
(* changes only after the second write.  The patron may take the card away *)
(* between any two of these steps, and any radio command may fail.         *)
(*                                                                         *)
(* A command that fails changes nothing, and a card whose selection or     *)
(* reading failed does not answer again in that pass, unless Faults says   *)
(* otherwise:                                                              *)
(*   torn_borrow  the count block is not written after the list block was  *)
(*   torn_return  the same on the giveback page                            *)
(*   stale_read   a card that failed to be selected or read authenticates  *)
(*                later in the pass                                        *)
(*   lost_ack     the second block is written but the answer is lost       *)
(*   reboot       the console restarts                                     *)
(*   delete_lent  the change page strikes off a book that is lent          *)
(***************************************************************************)
EXTENDS Integers, FiniteSets

CONSTANTS
  Card, NoCard,
  W,         \* the values of a byte: 256
  Slots,     \* the bytes of a block: 16
  InitBooks, \* book_num at start: 7
  MaxId,     \* the last row of the name table: 29
  Typed,     \* the numbers a patron may type, all u16
  Faults

ASSUME CirculationAssumption ==
  /\ NoCard \notin Card
  /\ W \in Nat /\ MaxId \in 1..(W - 1) /\ InitBooks \in 0..MaxId
  /\ Slots \in 2..(W - 1)
  /\ Typed \subseteq Nat
  /\ Faults \subseteq {"torn_borrow", "torn_return", "stale_read", "lost_ack", "reboot",
                "delete_lent"}

Slot == 0..(Slots - 1)
Block == [count : 0..(W - 1), list : [Slot -> 0..(W - 1)]]
Blank == [count |-> 0, list |-> [i \in Slot |-> 0]]

VARIABLES
  card,           \* blocks 4_0 (first byte) and 4_1 of each card
  field,          \* the card on the console
  link,           \* the card that is selected and answers
  books,          \* the state of each listed book, and of the list head 0
  change_id,      \* the number of the newest book
  page, pc,       \* the page that runs, and its step in Bo_Re
  data,           \* DATA4_0[0] and DATA4_1
  rc522_num,
  rc522_book_id,
  rc522_bit       \* a request is pending

world == <<card, field>>
stock == <<books, change_id>>
request == <<rc522_book_id, rc522_bit>>
vars == <<world, link, stock, page, pc, data, rc522_num, request>>

Init ==
  /\ card = [c \in Card |-> Blank]
  /\ field = NoCard /\ link = NoCard
  /\ books = [b \in 0..InitBooks |-> IF b = 0 THEN 0 ELSE 1]
  /\ change_id = InitBooks
  /\ page = "cover" /\ pc = "request"
  /\ data = Blank /\ rc522_num = 0
  /\ rc522_book_id = 0 /\ rc522_bit = 0

(* book_id_find takes a u8 and returns the list head when no book matches. *)
book_id_find(i) == IF i % W \in DOMAIN books THEN i % W ELSE 0

-----------------------------------------------------------------------------
(* The world around the console *)

Torn == IF page = "borrow" THEN "torn_borrow" ELSE "torn_return"

(* A card is put on the console or taken away.                             *)
Place(c) ==
  /\ c # field
  /\ pc = "write0" => Torn \in Faults
  /\ field' = c /\ link' = NoCard
  /\ UNCHANGED <<card, stock, page, pc, data, rc522_num, request>>

Reboot ==
  /\ "reboot" \in Faults
  /\ link' = NoCard
  /\ books' = [b \in 0..InitBooks |-> IF b = 0 THEN 0 ELSE 1]
  /\ change_id' = InitBooks
  /\ page' = "cover" /\ pc' = "request"
  /\ data' = Blank /\ rc522_num' = 0
  /\ rc522_book_id' = 0 /\ rc522_bit' = 0
  /\ UNCHANGED world

(* RETURN and an icon are touched between two passes.                      *)
Turn(p) ==
  /\ pc = "request"
  /\ p # page
  /\ page' = p
  /\ UNCHANGED <<world, link, stock, pc, data, rc522_num, request>>

-----------------------------------------------------------------------------
(* The change page *)

(* Bound: a book whose name has no row in the table is left out.           *)
AddBook ==
  /\ page = "change"
  /\ change_id < MaxId
  /\ change_id' = change_id + 1
  /\ \/ books' = [b \in DOMAIN books \cup {change_id'} |->
                    IF b = change_id' THEN 1 ELSE books[b]]
     \/ UNCHANGED books          \* malloc failed
  /\ UNCHANGED <<world, link, page, pc, data, rc522_num, request>>

DeleteBook(b) ==
  /\ page = "change"
  /\ b # 0
  /\ books[b] = 0 => "delete_lent" \in Faults
  /\ books' = [x \in DOMAIN books \ {b} |-> books[x]]
  /\ UNCHANGED <<world, link, change_id, page, pc, data, rc522_num, request>>

-----------------------------------------------------------------------------
(* Bo_Re(type) *)

InPass(step) == page \in {"borrow", "giveback"} /\ pc = step

(* The card that answers although a command to it failed.                  *)
Unanswered(c) == IF "stale_read" \in Faults THEN {c, NoCard} ELSE {NoCard}

(* PcdRequest, PcdAnticoll and PcdSelect.                                  *)
Seek ==
  /\ InPass("request")
  /\ field # NoCard
  /\ \/ link' = field /\ pc' = "read"
     \/ link' \in Unanswered(field) /\ pc' = "act"
  /\ UNCHANGED <<world, stock, page, data, rc522_num, request>>

(* DATA4_1 is read after DATA4_0, so the first alone may be new.           *)
ReadCard ==
  /\ InPass("read")
  /\ pc' = "line"
  /\ \/ /\ link # NoCard
        /\ data' = card[link]
        /\ rc522_num' = card[link].count
        /\ UNCHANGED link
     \/ /\ data' \in {data} \cup {[data EXCEPT !.count = card[c].count] : c \in Card \cap {link}}
        /\ link' \in Unanswered(link)
        /\ UNCHANGED rc522_num
  /\ UNCHANGED <<world, stock, page, request>>

(* A typed number becomes a request when a listed book has it.             *)
ReadLine ==
  /\ InPass("line")
  /\ pc' = "act"
  /\ \/ UNCHANGED request
     \/ \E i \in Typed :
          /\ rc522_book_id' = i
          /\ rc522_bit' = IF book_id_find(i) # 0 THEN 1 ELSE rc522_bit
  /\ UNCHANGED <<world, link, stock, page, data, rc522_num>>

(* The pass ends without a write: nothing is asked for, the card does not  *)
(* authenticate or the book is not in the right state.                     *)
Leave ==
  /\ InPass("act")
  /\ pc' = "request"
  /\ UNCHANGED <<world, link, stock, page, data, rc522_num, request>>

(* Mutant: the state of the book is not looked at.                         *)
AuthorisedAnyState(type, states) ==
  /\ page = type /\ pc = "act"
  /\ rc522_bit = 1
  /\ link # NoCard

Authorised(type, states) ==
  /\ page = type /\ pc = "act"
  /\ rc522_bit = 1
  /\ link # NoCard
  /\ books[book_id_find(rc522_book_id)] \in states

(* Mutant: the book is marked before anything is written.                  *)
BorrowMarksEarly ==
  /\ Authorised("borrow", {1})
  /\ rc522_num < Slots
  /\ data' = [count |-> (data.count + 1) % W,
              list  |-> [data.list EXCEPT ![rc522_num] = rc522_book_id % W]]
  /\ books' = [books EXCEPT ![book_id_find(rc522_book_id)] = 0]
  /\ rc522_bit' = 0
  /\ pc' = "write1"
  /\ UNCHANGED <<world, link, change_id, page, rc522_num, rc522_book_id>>

(* Mutant: the number is kept in 16 bits.                                  *)
BorrowWide ==
  /\ Authorised("borrow", {1})
  /\ rc522_num < Slots
  /\ data' = [count |-> (data.count + 1) % W,
              list  |-> [data.list EXCEPT ![rc522_num] = rc522_book_id]]
  /\ rc522_bit' = 0
  /\ pc' = "write1"
  /\ UNCHANGED <<world, link, stock, page, rc522_num, rc522_book_id>>

(* Bound: a list longer than the block is left out.                        *)
Borrow ==
  /\ Authorised("borrow", {1})
  /\ rc522_num < Slots
  /\ data' = [count |-> (data.count + 1) % W,
              list  |-> [data.list EXCEPT ![rc522_num] = rc522_book_id % W]]
  /\ rc522_bit' = 0
  /\ pc' = "write1"
  /\ UNCHANGED <<world, link, stock, page, rc522_num, rc522_book_id>>

(* The loop moves the numbers behind j forward up to the first 0; when     *)
(* there is none to move, the number stays where it is.  Bound: the byte   *)
(* behind a full block is taken to be 0.                                   *)
Remove(list, j) ==
  LET e == CHOOSE i \in j..(Slots - 1) :
             /\ i = Slots - 1 \/ list[i + 1] = 0
             /\ \A k \in j..(i - 1) : list[k + 1] # 0
  IN  [i \in Slot |-> IF i \in j..(e - 1) THEN list[i + 1]
                      ELSE IF i = e /\ e > j THEN 0 ELSE list[i]]

GiveBack ==
  /\ Authorised("giveback", {0})
  /\ \E j \in Slot :
       /\ j < rc522_num
       /\ data.list[j] = rc522_book_id
       /\ \A k \in 0..(j - 1) : data.list[k] # rc522_book_id
       /\ data' = [count |-> (data.count - 1) % W, list |-> Remove(data.list, j)]
  /\ rc522_bit' = 0
  /\ pc' = "write1"
  /\ UNCHANGED <<world, link, stock, page, rc522_num, rc522_book_id>>

(* PcdWrite(adr4_1, DATA4_1)                                               *)
WriteList ==
  /\ pc = "write1"
  /\ \/ /\ link # NoCard
        /\ card' = [card EXCEPT ![link].list = data.list]
        /\ pc' = "write0"
     \/ pc' = "request" /\ UNCHANGED card
  /\ UNCHANGED <<field, link, stock, page, data, rc522_num, request>>

(* PcdWrite(adr4_0, DATA4_0), and the book's new state.                    *)
WriteCount ==
  /\ pc = "write0"
  /\ pc' = "request"
  /\ \/ /\ link # NoCard
        /\ card' = [card EXCEPT ![link].count = data.count]
        /\ \/ books' = [books EXCEPT ![book_id_find(rc522_book_id)] =
                          IF page = "borrow" THEN 0 ELSE 1]
           \/ "lost_ack" \in Faults /\ UNCHANGED books
     \/ Torn \in Faults /\ UNCHANGED <<card, books>>
  /\ UNCHANGED <<field, link, change_id, page, data, rc522_num, request>>

Next ==
  \/ \E c \in Card \cup {NoCard} : Place(c)
  \/ Reboot
  \/ \E p \in {"cover", "borrow", "giveback", "change"} : Turn(p)
  \/ AddBook \/ \E b \in DOMAIN books : DeleteBook(b)
  \/ Seek \/ ReadCard \/ ReadLine \/ Leave \/ Borrow \/ GiveBack
  \/ WriteList \/ WriteCount

Spec == Init /\ [][Next]_vars

-----------------------------------------------------------------------------

TypeOK ==
  /\ card \in [Card -> Block]
  /\ field \in Card \cup {NoCard} /\ link \in {field, NoCard}
  /\ 0 \in DOMAIN books /\ DOMAIN books \subseteq 0..change_id
  /\ \A b \in DOMAIN books : books[b] \in {0, 1}
  /\ change_id \in 0..MaxId
  /\ page \in {"cover", "borrow", "giveback", "change"}
  /\ pc \in {"request", "read", "line", "act", "write1", "write0"}
  /\ pc # "request" => page \in {"borrow", "giveback"}
  /\ data \in Block
  /\ rc522_num \in 0..(W - 1)
  /\ rc522_book_id \in Typed \cup {0} /\ rc522_bit \in {0, 1}

(* The entries of a card that count, with the count about to be written    *)
(* when the list block of a return is written already.                     *)
Returning(c) == pc = "write0" /\ page = "giveback" /\ link = c
Entries(c) ==
  {i \in Slot : i < IF Returning(c) THEN data.count ELSE card[c].count}
Holders(b) ==
  {h \in Card \X Slot : card[h[1]].list[h[2]] = b /\ h[2] \in Entries(h[1])}

Listed == DOMAIN books \ {0}
AtCounter(b) == rc522_book_id = b /\ \E c \in Card : Returning(c)

(* What the console knows and what the cards say never part: a book it     *)
(* calls available is on no card, and a book it calls borrowed is on one   *)
(* card, once (or has just been taken off it), although RAM and card are   *)
(* updated by three separate steps.                                        *)
OneHolder == \A b \in Listed :
  IF books[b] = 0 /\ ~AtCounter(b) THEN Cardinality(Holders(b)) = 1 ELSE Holders(b) = {}

(* Whatever fails, a book is marked as borrowed only when the card on the  *)
(* console carries its number.                                             *)
LentIsWritten ==
  [][\A b \in Listed : b \in DOMAIN books' /\ books[b] = 1 /\ books'[b] = 0 =>
       /\ link # NoCard
       /\ \E i \in Slot : card'[link].list[i] = b]_vars

(* "judge whether the library has this book" (rc522.c:158): a number is    *)
(* written to a card only while a listed book has it.                      *)
OnlyListedLent ==
  pc = "write1" /\ page = "borrow" => book_id_find(rc522_book_id) # 0

(* A book marked as available again is gone from the card it was on:       *)
(* "delete this book and shift the books" (rc522.c:215).                   *)
ReturnedBookGone ==
  [][\A b \in Listed : b \in DOMAIN books' /\ books[b] = 0 /\ books'[b] = 1 =>
       \A i \in Slot : i < card'[link].count => card'[link].list[i] # b]_vars

Where(b) ==
  IF b \notin Listed THEN "unlisted"
  ELSE IF books[b] = 1 THEN "shelf"
  ELSE IF AtCounter(b) THEN "counter"
  ELSE IF Holders(b) = {} THEN NoCard
  ELSE (CHOOSE h \in Holders(b) : TRUE)[1]

L == INSTANCE Lending WITH
  Book <- 1..MaxId,
  loc <- [b \in 1..MaxId |-> Where(b)]

ASSUME LendingAssumption == Card \cap L!Places = {}

(* The console lends and takes back as Lending says.                       *)
ImplementsLending == L!LendingSpec
=============================================================================
