-------------------------- MODULE CirculationProofs --------------------------
(***************************************************************************)
(* What is proved of borrowing and giving back (Bo_Re, Others/rc522.c) for *)
(* any cards, books and sizes of a block: types and LentIsWritten whatever *)
(* fails; OneHolder and the refinement of Lending as long as a torn loan   *)
(* is the only fault, which is when they hold (see the README).            *)
(***************************************************************************)
EXTENDS Circulation, FiniteSetTheorems, TLAPS

(* A non-empty set of naturals has a least element.                        *)
LEMMA Least ==
  ASSUME NEW T, T \subseteq Nat, T # {}
  PROVE  \E x \in T : \A y \in T : x <= y
<1> DEFINE F == {0..n : n \in T}
           R == StrictSubsetOrdering(Nat)
<1>1. IsWellFoundedOn(R, FiniteSubsetsOf(Nat))
  BY FS_StrictSubsetOrderingWellFounded
<1>2. F \subseteq FiniteSubsetsOf(Nat) /\ F # {}
  <2>1. \A n \in T : IsFiniteSet(0..n)
    BY FS_Interval
  <2>2. \A n \in T : 0..n \in SUBSET Nat
    OBVIOUS
  <2>3. \A n \in T : 0..n \in FiniteSubsetsOf(Nat)
    BY <2>1, <2>2 DEF FiniteSubsetsOf
  <2> QED BY <2>3
<1>3. \E X \in F : \A Y \in F : <<Y, X>> \notin R
  <2> HIDE DEF F, R
  <2> QED BY <1>1, <1>2, WFMin
<1>4. PICK x \in T : \A y \in T : <<0..y, 0..x>> \notin R
  BY <1>3
<1>5. ASSUME NEW y \in T, y < x PROVE FALSE
  <2>1. 0..y \in SUBSET Nat /\ 0..x \in SUBSET Nat
    OBVIOUS
  <2>2. 0..y \subseteq 0..x
    BY <1>5
  <2>3. x \in 0..x /\ x \notin 0..y
    BY <1>5
  <2>4. <<0..y, 0..x>> \in R
    BY <2>1, <2>2, <2>3 DEF StrictSubsetOrdering
  <2> QED BY <2>4, <1>4
<1> QED BY <1>5

-----------------------------------------------------------------------------
(* The loop that takes a number off the list ends: behind j there is a     *)
(* first place that is followed by a 0 or is the last.                     *)
LEMMA RemoveEnds ==
  ASSUME NEW list, NEW j \in Slot
  PROVE  \E e \in j..(Slots - 1) :
           /\ Remove(list, j) = [i \in Slot |->
                IF i \in j..(e - 1) THEN list[i + 1]
                ELSE IF i = e /\ e > j THEN 0 ELSE list[i]]
           /\ e = Slots - 1 \/ list[e + 1] = 0
           /\ \A k \in j..(e - 1) : list[k + 1] # 0
<1> DEFINE Ends(i) == /\ i = Slots - 1 \/ list[i + 1] = 0
                      /\ \A k \in j..(i - 1) : list[k + 1] # 0
           T == {i \in j..(Slots - 1) : i = Slots - 1 \/ list[i + 1] = 0}
<1>1. Slots - 1 \in T /\ T \subseteq Nat
  BY CirculationAssumption DEF Slot
<1>2. PICK e \in T : \A y \in T : e <= y
  <2> HIDE DEF T
  <2> QED BY <1>1, Least
<1>3. e \in j..(Slots - 1) /\ Ends(e)
  <2>1. ASSUME NEW k \in j..(e - 1) PROVE list[k + 1] # 0
    <3>1. k \in j..(Slots - 1) /\ ~(e <= k)
      BY <2>1, CirculationAssumption DEF Slot
    <3> QED BY <3>1, <1>2
  <2> QED BY <2>1
<1>4. PICK x \in j..(Slots - 1) : x = (CHOOSE i \in j..(Slots - 1) : Ends(i)) /\ Ends(x)
  <2> HIDE DEF Ends
  <2> QED BY <1>3
<1>5. Remove(list, j) = [i \in Slot |->
                IF i \in j..(x - 1) THEN list[i + 1]
                ELSE IF i = x /\ x > j THEN 0 ELSE list[i]]
  BY <1>4 DEF Remove
<1> QED BY <1>4, <1>5

(* What it leaves is a block of bytes.                                     *)
LEMMA RemoveType ==
  ASSUME NEW list \in [Slot -> 0..(W - 1)], NEW j \in Slot
  PROVE  Remove(list, j) \in [Slot -> 0..(W - 1)]
<1>1. PICK e \in j..(Slots - 1) : Remove(list, j) = [i \in Slot |->
                IF i \in j..(e - 1) THEN list[i + 1]
                ELSE IF i = e /\ e > j THEN 0 ELSE list[i]]
  BY RemoveEnds
<1>2. \A i \in Slot : i \in j..(e - 1) => i + 1 \in Slot
  BY CirculationAssumption DEF Slot
<1>3. 0 \in 0..(W - 1)
  BY CirculationAssumption
<1> QED BY <1>1, <1>2, <1>3

(* On a tidy list of n numbers, the loop takes off the one at j and leaves *)
(* a tidy list of n - 1.                                                   *)
LEMMA RemoveShifts ==
  ASSUME NEW list, NEW n \in 0..Slots, NEW j \in Slot, j < n,
         \A i \in Slot : (i < n => list[i] # 0) /\ (i > n => list[i] = 0)
  PROVE  \A i \in Slot :
           /\ i < n - 1 => Remove(list, j)[i] = IF i < j THEN list[i] ELSE list[i + 1]
           /\ i > n - 1 => Remove(list, j)[i] = 0
<1>1. PICK e \in j..(Slots - 1) :
           /\ Remove(list, j) = [i \in Slot |->
                IF i \in j..(e - 1) THEN list[i + 1]
                ELSE IF i = e /\ e > j THEN 0 ELSE list[i]]
           /\ e = Slots - 1 \/ list[e + 1] = 0
           /\ \A k \in j..(e - 1) : list[k + 1] # 0
  BY RemoveEnds
<1>2. n - 1 <= e
  <2>1. CASE e = Slots - 1
    BY <2>1, CirculationAssumption DEF Slot
  <2>2. CASE e < n - 1 /\ list[e + 1] = 0
    <3>1. e + 1 \in Slot /\ e + 1 < n
      BY <2>2, CirculationAssumption DEF Slot
    <3> QED BY <3>1, <2>2
  <2> QED BY <1>1, <2>1, <2>2, CirculationAssumption DEF Slot
<1>3. e <= n
  <2>1. SUFFICES ASSUME n < e PROVE FALSE
    BY CirculationAssumption DEF Slot
  <2>2. n \in j..(e - 1) /\ n + 1 \in Slot /\ n + 1 > n
    BY <2>1, CirculationAssumption DEF Slot
  <2> QED BY <1>1, <2>2
<1> QED BY <1>1, <1>2, <1>3, CirculationAssumption DEF Slot

-----------------------------------------------------------------------------
(* Every step leaves every variable its type.                              *)
LEMMA TypeStep == TypeOK /\ [Next]_vars => TypeOK'
<1> USE CirculationAssumption
<1> SUFFICES ASSUME TypeOK, [Next]_vars PROVE TypeOK'
  OBVIOUS
<1> USE DEF TypeOK, world, stock, request
<1>1. ASSUME NEW c \in Card \cup {NoCard}, Place(c) PROVE TypeOK'
  BY <1>1 DEF Place
<1>2. CASE Reboot
  BY <1>2 DEF Reboot, Blank, Block, Slot
<1>3. ASSUME NEW p \in {"cover", "borrow", "giveback", "change"}, Turn(p)
      PROVE TypeOK'
  BY <1>3 DEF Turn
<1>4. CASE AddBook
  BY <1>4 DEF AddBook
<1>5. ASSUME NEW b \in DOMAIN books, DeleteBook(b) PROVE TypeOK'
  BY <1>5 DEF DeleteBook
<1>6. CASE Seek
  BY <1>6 DEF Seek, InPass, Unanswered
<1>7. CASE ReadCard
  <2>1. \A c \in Card \cap {link} : card[c] \in Block /\ card[c].count \in 0..(W - 1)
    BY DEF Block
  <2>2. data' \in Block
    BY <1>7, <2>1 DEF ReadCard, Block
  <2>3. rc522_num' \in 0..(W - 1)
    BY <1>7, <2>1 DEF ReadCard
  <2> QED BY <1>7, <2>2, <2>3 DEF ReadCard, InPass, Unanswered
<1>8. CASE ReadLine
  BY <1>8 DEF ReadLine, InPass
<1>9. CASE Leave
  BY <1>9 DEF Leave, InPass
<1>10. CASE Borrow
  <2>1. (data.count + 1) % W \in 0..(W - 1) /\ rc522_book_id % W \in 0..(W - 1)
    BY DEF Block
  <2>2. data' \in Block
    BY <1>10, <2>1 DEF Borrow, Block
  <2> QED BY <1>10, <2>2 DEF Borrow, Authorised
<1>11. CASE GiveBack
  <2>1. PICK j \in Slot :
          data' = [count |-> (data.count - 1) % W, list |-> Remove(data.list, j)]
    BY <1>11 DEF GiveBack
  <2>2. Remove(data.list, j) \in [Slot -> 0..(W - 1)]
    BY RemoveType DEF Block
  <2>3. (data.count - 1) % W \in 0..(W - 1)
    BY DEF Block
  <2> QED BY <1>11, <2>1, <2>2, <2>3 DEF GiveBack, Authorised, Block
<1>12. CASE WriteList
  <2>1. card' \in [Card -> Block]
    BY <1>12 DEF WriteList, Block
  <2> QED BY <1>12, <2>1 DEF WriteList
<1>13. CASE WriteCount
  <2>1. card' \in [Card -> Block]
    BY <1>13 DEF WriteCount, Block
  <2>2. DOMAIN books' = DOMAIN books /\ \A b \in DOMAIN books' : books'[b] \in {0, 1}
    BY <1>13 DEF WriteCount
  <2> QED BY <1>13, <2>1, <2>2 DEF WriteCount
<1>14. CASE UNCHANGED vars
  BY <1>14 DEF vars
<1> QED BY <1>1, <1>2, <1>3, <1>4, <1>5, <1>6, <1>7, <1>8, <1>9, <1>10, <1>11,
           <1>12, <1>13, <1>14 DEF Next

(* Whatever fails, every variable has its type: the card on the console is *)
(* the only one that can answer, counts and entries are bytes, the books   *)
(* listed have rows of the name table.                                     *)
THEOREM TypeCorrect == Spec => []TypeOK
<1>1. Init => TypeOK
  BY CirculationAssumption DEF Init, TypeOK, Blank, Block, Slot
<1> QED BY <1>1, TypeStep, PTL DEF Spec

-----------------------------------------------------------------------------
(* While a loan is being written, the list in RAM carries its number, and  *)
(* once the first block is written so does the card that answers.          *)
NumberWritten ==
  /\ pc = "write1" /\ page = "borrow" =>
       \E i \in Slot : data.list[i] = rc522_book_id % W
  /\ pc = "write0" /\ page = "borrow" /\ link # NoCard =>
       \E i \in Slot : card[link].list[i] = rc522_book_id % W

(* It stays so: the number asked for does not change between the writes.   *)
LEMMA NumberWrittenInv == Spec => []NumberWritten
<1> USE CirculationAssumption
<1>1. Init => NumberWritten
  BY DEF Init, NumberWritten
<1>2. TypeOK /\ NumberWritten /\ [Next]_vars => NumberWritten'
  <2> SUFFICES ASSUME TypeOK, NumberWritten, [Next]_vars PROVE NumberWritten'
    OBVIOUS
  <2> USE DEF NumberWritten, world, stock, request
  <2>1. ASSUME NEW c \in Card \cup {NoCard}, Place(c) PROVE NumberWritten'
    BY <2>1 DEF Place
  <2>2. CASE Reboot
    BY <2>2 DEF Reboot
  <2>3. ASSUME NEW p \in {"cover", "borrow", "giveback", "change"}, Turn(p)
        PROVE NumberWritten'
    BY <2>3 DEF Turn
  <2>4. CASE AddBook
    BY <2>4 DEF AddBook
  <2>5. ASSUME NEW b \in DOMAIN books, DeleteBook(b) PROVE NumberWritten'
    BY <2>5 DEF DeleteBook
  <2>6. CASE Seek \/ ReadCard \/ ReadLine \/ Leave
    BY <2>6 DEF Seek, ReadCard, ReadLine, Leave
  <2>7. CASE Borrow
    <3>1. data'.list[rc522_num] = rc522_book_id % W
      BY <2>7 DEF Borrow, TypeOK, Block, Slot
    <3>2. rc522_num \in Slot
      BY <2>7 DEF Borrow, TypeOK, Slot
    <3> QED BY <2>7, <3>1, <3>2 DEF Borrow
  <2>8. CASE GiveBack
    BY <2>8 DEF GiveBack, Authorised
  <2>9. CASE WriteList
    BY <2>9 DEF WriteList, TypeOK, Block
  <2>10. CASE WriteCount
    BY <2>10 DEF WriteCount
  <2>11. CASE UNCHANGED vars
    BY <2>11 DEF vars
  <2> QED BY <2>1, <2>2, <2>3, <2>4, <2>5, <2>6, <2>7, <2>8, <2>9, <2>10, <2>11
          DEF Next
<1> QED BY <1>1, <1>2, TypeCorrect, PTL DEF Spec

(* Whatever fails - the card is taken away, an answer is lost, the console *)
(* restarts - a book is marked as borrowed only when the card on the       *)
(* console carries its number.                                             *)
THEOREM MarkedWhenWritten == Spec => LentIsWritten
<1> USE CirculationAssumption
<1>1. TypeOK /\ NumberWritten /\ [Next]_vars =>
        [\A b \in Listed : b \in DOMAIN books' /\ books[b] = 1 /\ books'[b] = 0 =>
           /\ link # NoCard
           /\ \E i \in Slot : card'[link].list[i] = b]_vars
  <2> SUFFICES ASSUME TypeOK, NumberWritten, Next, NEW b \in Listed,
                      b \in DOMAIN books', books[b] = 1, books'[b] = 0
               PROVE  link # NoCard /\ \E i \in Slot : card'[link].list[i] = b
    OBVIOUS
  <2>1. WriteCount
    <3>1. ASSUME Reboot PROVE FALSE
      BY <3>1 DEF Reboot, Listed
    <3>2. ASSUME AddBook PROVE FALSE
      BY <3>2 DEF AddBook, Listed
    <3>3. ASSUME NEW x \in DOMAIN books, DeleteBook(x) PROVE FALSE
      BY <3>3 DEF DeleteBook, Listed
    <3>4. books' # books
      OBVIOUS
    <3> QED BY <3>1, <3>2, <3>3, <3>4
            DEF Next, Place, Turn, Seek, ReadCard, ReadLine, Leave, Borrow, GiveBack,
                WriteList, stock
  <2>2. link # NoCard /\ page = "borrow" /\ b = book_id_find(rc522_book_id)
    BY <2>1 DEF WriteCount, TypeOK, Listed
  <2>3. b = rc522_book_id % W
    BY <2>2 DEF book_id_find, Listed
  <2>4. PICK i \in Slot : card[link].list[i] = b
    BY <2>1, <2>2, <2>3 DEF NumberWritten, WriteCount
  <2>5. card'[link].list = card[link].list
    BY <2>1 DEF WriteCount, TypeOK, Block
  <2> QED BY <2>2, <2>4, <2>5
<1> QED BY <1>1, TypeCorrect, NumberWrittenInv, PTL DEF Spec, LentIsWritten

-----------------------------------------------------------------------------
(* The inductive invariant under OneHolder.  Count is the number of a      *)
(* card's entries as Entries takes it.                                     *)
Count(c) == IF Returning(c) THEN data.count ELSE card[c].count
Asked == rc522_book_id % W

(* A card's entries are books that are listed and lent; behind them is at  *)
(* most one number, left there by a loan that was torn.                    *)
Kept == \A c \in Card :
  /\ Count(c) <= Slots
  /\ \A i \in Slot :
       /\ i < Count(c) => /\ card[c].list[i] \in Listed
                          /\ books[card[c].list[i]] = 0
                          /\ ~AtCounter(card[c].list[i])
       /\ i > Count(c) => card[c].list[i] = 0

Distinct == \A c, d \in Card : \A i \in Entries(c), k \in Entries(d) :
  card[c].list[i] = card[d].list[k] => c = d /\ i = k

On(c, b) == \E i \in Entries(c) : card[c].list[i] = b

LentOnCard == \A b \in Listed : books[b] = 0 /\ ~AtCounter(b) => \E c \in Card : On(c, b)

(* The list head counts as lent, so that a number no book has is not lent. *)
HeadLent == books[0] = 0

(* The blocks in RAM are those of the card that answers.                   *)
AsRead == pc \in {"line", "act"} /\ link # NoCard =>
  data = card[link] /\ rc522_num = card[link].count

(* What stands in RAM when the first block is about to be written ...      *)
ToBorrow == pc = "write1" /\ page = "borrow" /\ link # NoCard =>
  /\ card[link].count < Slots
  /\ Asked \in Listed /\ books[Asked] = 1
  /\ data = [count |-> card[link].count + 1,
             list  |-> [card[link].list EXCEPT ![card[link].count] = Asked]]

ToGiveBack == pc = "write1" /\ page = "giveback" /\ link # NoCard =>
  \E j \in Slot :
    /\ j < card[link].count /\ card[link].list[j] = rc522_book_id
    /\ data = [count |-> card[link].count - 1, list |-> Remove(card[link].list, j)]

(* ... and the second.                                                     *)
HalfBorrowed == pc = "write0" /\ page = "borrow" /\ link # NoCard =>
  /\ card[link].count < Slots
  /\ Asked \in Listed /\ books[Asked] = 1
  /\ data.count = card[link].count + 1
  /\ card[link].list[card[link].count] = Asked

HalfReturned == pc = "write0" /\ page = "giveback" =>
  /\ link # NoCard
  /\ card[link].count = data.count + 1
  /\ rc522_book_id \in Listed /\ books[rc522_book_id] = 0

Ledger == Kept /\ Distinct /\ LentOnCard
Pass == AsRead /\ ToBorrow /\ ToGiveBack /\ HalfBorrowed /\ HalfReturned
Inv == TypeOK /\ HeadLent /\ Ledger /\ Pass

(* Count is where the entries end.                                         *)
LEMMA EntriesBelow == \A c \in Card : Entries(c) = {i \in Slot : i < Count(c)}
BY DEF Entries, Count

(* A step that writes to no card and neither begins nor ends the moment    *)
(* between the two blocks of a return keeps the ledger, as long as the     *)
(* same books are lent.                                                    *)
LEMMA LedgerStays ==
  ASSUME Ledger,
         card' = card,
         \A c \in Card : Returning(c) <=> Returning(c)',
         (\E c \in Card : Returning(c)) =>
            data' = data /\ rc522_book_id' = rc522_book_id,
         \A b : b \in Listed /\ books[b] = 0 <=> b \in Listed' /\ books'[b] = 0
  PROVE  Ledger'
<1>1. \A c \in Card : Count(c)' = Count(c)
  BY DEF Count
<1>2. \A c \in Card : Entries(c)' = Entries(c)
  BY <1>1 DEF Entries, Count
<1>3. \A b : AtCounter(b)' <=> AtCounter(b)
  BY DEF AtCounter
<1>4. Kept'
  BY <1>1, <1>3 DEF Ledger, Kept
<1>5. Distinct'
  BY <1>2 DEF Ledger, Distinct
<1>6. LentOnCard'
  BY <1>2, <1>3 DEF Ledger, LentOnCard, On
<1> QED BY <1>4, <1>5, <1>6 DEF Ledger

(* The first block of a return is written: the number is off the card, and *)
(* the book is at the counter.                                             *)
LEMMA TakenOff ==
  ASSUME Inv, WriteList, page = "giveback", pc' = "write0"
  PROVE  /\ Ledger' /\ HalfReturned'
         /\ \A b : AtCounter(b)' <=> b = rc522_book_id
         /\ On(link, rc522_book_id)
         /\ \A c \in Card : \A b : On(c, b) /\ b # rc522_book_id => On(c, b)'
<1> USE CirculationAssumption
<1> DEFINE b == rc522_book_id
           n == card[link].count
           old == card[link].list
<1>1. /\ pc = "write1" /\ link # NoCard /\ link \in Card
      /\ card' = [card EXCEPT ![link].list = data.list]
      /\ UNCHANGED <<link, books, page, data, rc522_book_id>>
  BY DEF WriteList, Inv, TypeOK, stock, request
<1>2. PICK j \in Slot : /\ j < n /\ old[j] = b
                        /\ data = [count |-> n - 1, list |-> Remove(old, j)]
  BY <1>1 DEF Inv, Pass, ToGiveBack
<1>3. /\ card[link] \in Block /\ card'[link] = [card[link] EXCEPT !.list = data.list]
      /\ \A c \in Card : c # link => card'[c] = card[c]
      /\ n \in 0..(W - 1)
  BY <1>1 DEF Inv, TypeOK, Block
<1>4. /\ \A c \in Card : ~Returning(c) /\ Count(c) = card[c].count
      /\ \A c \in Card : Returning(c)' <=> c = link
      /\ \A c \in Card : Count(c)' = IF c = link THEN n - 1 ELSE card[c].count
  BY <1>1, <1>2, <1>3 DEF Returning, Count
<1>5. /\ \A x : ~AtCounter(x)
      /\ \A x : AtCounter(x)' <=> x = b
  BY <1>1, <1>4 DEF AtCounter
<1>6. Kept /\ Distinct /\ LentOnCard /\ Listed' = Listed
  BY <1>1 DEF Inv, Ledger, Listed
<1>7. \A i \in Slot : (i < n => old[i] # 0) /\ (i > n => old[i] = 0)
  BY <1>1, <1>4, <1>6 DEF Kept, Listed
<1>8. n \in 0..Slots
  BY <1>1, <1>3, <1>4, <1>6 DEF Kept
<1> DEFINE new == Remove(old, j)
<1>9. \A i \in Slot : /\ i < n - 1 => new[i] = IF i < j THEN old[i] ELSE old[i + 1]
                      /\ i > n - 1 => new[i] = 0
  <2> HIDE DEF n, old
  <2> QED BY <1>2, <1>7, <1>8, RemoveShifts
<1>10. card'[link].list = new /\ card'[link].count = n /\ data'.count = n - 1
  BY <1>1, <1>2, <1>3 DEF Block
<1>11. b \in Listed /\ books[b] = 0
  BY <1>1, <1>2, <1>4, <1>6 DEF Kept
<1> HIDE DEF n, old, new, b
<1>12. \A c \in Card : \A i \in Slot : i < card[c].count /\ card[c].list[i] = b => c = link /\ i = j
  <2>1. j \in Entries(link) /\ \A c \in Card : \A i \in Slot : i < card[c].count => i \in Entries(c)
    BY <1>1, <1>2, <1>4, EntriesBelow DEF n
  <2> QED BY <1>1, <1>2, <1>6, <2>1 DEF Distinct, old
<1>13. Kept'
  <2>1. ASSUME NEW c \in Card PROVE Count(c)' <= Slots
    BY <1>4, <1>6, <1>8 DEF Kept
  <2>2. ASSUME NEW c \in Card, NEW i \in Slot, i > Count(c)' PROVE card'[c].list[i] = 0
    <3>1. CASE c # link
      BY <2>2, <3>1, <1>3, <1>4, <1>6 DEF Kept
    <3>2. CASE c = link
      BY <2>2, <3>2, <1>4, <1>9, <1>10
    <3> QED BY <3>1, <3>2
  <2>3. ASSUME NEW c \in Card, NEW i \in Slot, i < Count(c)'
        PROVE  card'[c].list[i] \in Listed /\ books[card'[c].list[i]] = 0 /\ card'[c].list[i] # b
    <3>1. CASE c # link
      BY <2>3, <3>1, <1>3, <1>4, <1>6, <1>12 DEF Kept
    <3>2. CASE c = link
      <4>1. PICK k \in Slot : k < n /\ k # j /\ new[i] = old[k]
        <5>1. CASE i < j
          <6>1. i < n /\ i # j /\ new[i] = old[i]
            BY <5>1, <2>3, <3>2, <1>4, <1>8, <1>9 DEF Slot
          <6> QED BY <6>1
        <5>2. CASE ~(i < j)
          <6>1. i + 1 \in Slot /\ i + 1 < n /\ i + 1 # j
            BY <5>2, <2>3, <3>2, <1>2, <1>4, <1>8 DEF Slot
          <6> QED BY <5>2, <6>1, <2>3, <3>2, <1>4, <1>9
        <5> QED BY <5>1, <5>2
      <4>2. old[k] \in Listed /\ books[old[k]] = 0 /\ old[k] # b
        BY <4>1, <1>1, <1>4, <1>6, <1>12 DEF Kept, n, old
      <4> QED BY <4>1, <4>2, <3>2, <1>10
    <3> QED BY <3>1, <3>2
  <2> QED BY <2>1, <2>2, <2>3, <1>1, <1>5, <1>6 DEF Kept
<1> DEFINE Was(c, i) == IF c = link /\ i >= j THEN i + 1 ELSE i
<1>14. ASSUME NEW c \in Card, NEW i \in Entries(c)'
       PROVE  /\ i \in Slot /\ Was(c, i) \in Entries(c)
              /\ card'[c].list[i] = card[c].list[Was(c, i)]
  <2>1. i \in Slot /\ i < Count(c)'
    BY EntriesBelow DEF Entries, Count
  <2>2. CASE c # link
    BY <2>1, <2>2, <1>3, <1>4, EntriesBelow
  <2>3. CASE c = link
    <3>1. i < n - 1 /\ Was(c, i) \in Slot /\ Was(c, i) < n
      BY <2>1, <2>3, <1>2, <1>4, <1>8 DEF Slot
    <3>2. Was(c, i) \in Entries(c)
      BY <3>1, <2>3, <1>1, <1>4, EntriesBelow DEF n
    <3>3. card'[c].list[i] = new[i] /\ new[i] = old[Was(c, i)]
      BY <3>1, <2>1, <2>3, <1>2, <1>9, <1>10 DEF Slot
    <3> QED BY <2>1, <2>3, <3>2, <3>3 DEF old
  <2> QED BY <2>2, <2>3
<1>15. Distinct'
  <2> SUFFICES ASSUME NEW c \in Card, NEW d \in Card, NEW i \in Entries(c)', NEW k \in Entries(d)',
                      card'[c].list[i] = card'[d].list[k]
               PROVE  c = d /\ i = k
    BY DEF Distinct
  <2>1. c = d /\ Was(c, i) = Was(d, k) /\ i \in Slot /\ k \in Slot
    <3> HIDE DEF Was
    <3> QED BY <1>6, <1>14 DEF Distinct
  <2> QED BY <2>1 DEF Slot
<1>16. ASSUME NEW c \in Card, NEW x, On(c, x), x # b PROVE On(c, x)'
  <2>1. PICK k \in Slot : k < card[c].count /\ card[c].list[k] = x
    BY <1>4, <1>16, EntriesBelow DEF On
  <2>2. CASE c # link
    BY <2>1, <2>2, <1>3, <1>4 DEF Entries, On
  <2>3. CASE c = link
    <3> DEFINE i == IF k < j THEN k ELSE k - 1
    <3>1. k # j /\ k < n
      BY <2>1, <2>3, <1>2, <1>16 DEF n, old
    <3>2. i \in Slot /\ i < n - 1 /\ new[i] = old[k]
      <4>1. CASE k < j
        BY <4>1, <3>1, <1>2, <1>8, <1>9 DEF Slot
      <4>2. CASE k > j
        <5>1. k - 1 \in Slot /\ k - 1 < n - 1 /\ ~(k - 1 < j) /\ (k - 1) + 1 = k
          BY <4>2, <3>1, <1>8 DEF Slot
        <5>2. new[k - 1] = old[(k - 1) + 1]
          BY <5>1, <1>9
        <5> QED BY <4>2, <5>1, <5>2 DEF Slot
      <4> QED BY <4>1, <4>2, <3>1 DEF Slot
    <3>3. i \in Entries(link)'
      BY <3>2, <1>1, <1>4, <1>10 DEF Entries
    <3> HIDE DEF i
    <3>4. card'[link].list[i] = x
      BY <2>1, <2>3, <3>2, <1>10 DEF old
    <3> QED BY <1>1, <2>3, <3>3, <3>4 DEF On
  <2> QED BY <2>2, <2>3
<1>17. LentOnCard'
  BY <1>1, <1>5, <1>6, <1>16 DEF LentOnCard
<1>18. On(link, b)
  BY <1>1, <1>2, <1>4, EntriesBelow DEF On, n, old
<1>19. HalfReturned'
  <2>1. card'[link].count = data'.count + 1
    BY <1>3, <1>8, <1>10
  <2> QED BY <2>1, <1>1, <1>6, <1>11 DEF HalfReturned, b
<1> QED BY <1>5, <1>13, <1>15, <1>16, <1>17, <1>18, <1>19 DEF Ledger, b

(* The first block of a loan is written: the number stands behind the      *)
(* entries and does not count yet.                                         *)
LEMMA PutBehind ==
  ASSUME Inv, WriteList, page = "borrow", pc' = "write0"
  PROVE  /\ Ledger' /\ HalfBorrowed'
         /\ \A b : ~AtCounter(b) /\ ~AtCounter(b)'
         /\ \A c \in Card : \A b : On(c, b) => On(c, b)'
<1> USE CirculationAssumption
<1> DEFINE n == card[link].count
<1>1. /\ pc = "write1" /\ link # NoCard /\ link \in Card
      /\ card' = [card EXCEPT ![link].list = data.list]
      /\ UNCHANGED <<link, books, page, data, rc522_book_id>>
  BY DEF WriteList, Inv, TypeOK, stock, request
<1>2. /\ n < Slots /\ Asked \in Listed /\ books[Asked] = 1
      /\ data = [count |-> n + 1, list |-> [card[link].list EXCEPT ![n] = Asked]]
  BY <1>1 DEF Inv, Pass, ToBorrow
<1>3. /\ card[link] \in Block /\ card'[link] = [card[link] EXCEPT !.list = data.list]
      /\ \A c \in Card : c # link => card'[c] = card[c]
      /\ n \in Slot
  BY <1>1, <1>2 DEF Inv, TypeOK, Block, Slot
<1>4. /\ \A c \in Card : card'[c].count = card[c].count
      /\ \A c \in Card : \A i \in Slot : ~(c = link /\ i = n) =>
           card'[c].list[i] = card[c].list[i]
      /\ card'[link].list[n] = Asked
  BY <1>1, <1>2, <1>3 DEF Block
<1>5. /\ \A c \in Card : ~Returning(c) /\ Count(c) = card[c].count
      /\ \A c \in Card : ~Returning(c)' /\ Count(c)' = Count(c) /\ Entries(c)' = Entries(c)
      /\ \A x : ~AtCounter(x) /\ ~AtCounter(x)'
  BY <1>1, <1>4 DEF Returning, Count, Entries, AtCounter
<1>6. Kept /\ Distinct /\ LentOnCard /\ Listed' = Listed
  BY <1>1 DEF Inv, Ledger, Listed
<1>7. \A c \in Card : \A i \in Entries(c) : i \in Slot /\ card'[c].list[i] = card[c].list[i]
  <2>1. \A c \in Card : \A i \in Entries(c) : i \in Slot /\ i < card[c].count
    BY <1>5, EntriesBelow
  <2> QED BY <2>1, <1>3, <1>4 DEF Slot
<1> HIDE DEF n
<1>8. Kept'
  <2>1. ASSUME NEW c \in Card, NEW i \in Slot, i < Count(c)' \/ i > Count(c)'
        PROVE  card'[c].list[i] = card[c].list[i]
    BY <2>1, <1>3, <1>4, <1>5 DEF n, Slot
  <2> QED BY <2>1, <1>1, <1>5, <1>6 DEF Kept
<1>9. Distinct'
  BY <1>5, <1>6, <1>7 DEF Distinct
<1>10. \A c \in Card : \A b : On(c, b) => On(c, b)'
  BY <1>5, <1>7 DEF On
<1>11. LentOnCard'
  BY <1>1, <1>5, <1>6, <1>10 DEF LentOnCard
<1>12. HalfBorrowed'
  BY <1>1, <1>2, <1>4, <1>6 DEF HalfBorrowed, Asked, n
<1> QED BY <1>5, <1>8, <1>9, <1>10, <1>11, <1>12 DEF Ledger

(* The second block of a loan is written: the number counts and the book   *)
(* is marked.                                                              *)
LEMMA Lent ==
  ASSUME Inv, page = "borrow", pc = "write0", pc' = "request", link # NoCard, link' = link,
         card' = [card EXCEPT ![link].count = data.count],
         books' = [books EXCEPT ![book_id_find(rc522_book_id)] = 0]
  PROVE  /\ Ledger' /\ HeadLent'
         /\ \A b : ~AtCounter(b) /\ ~AtCounter(b)'
         /\ \A c \in Card : \A b : c = link /\ b = Asked => On(c, b)'
         /\ \A c \in Card : \A b : On(c, b) => On(c, b)'
<1> USE CirculationAssumption
<1> DEFINE n == card[link].count
           b == Asked
<1>1. link \in Card
  BY DEF Inv, TypeOK
<1>2. /\ n < Slots /\ b \in Listed /\ books[b] = 1
      /\ data.count = n + 1 /\ card[link].list[n] = b
  BY DEF Inv, Pass, HalfBorrowed
<1>3. /\ card[link] \in Block /\ card'[link] = [card[link] EXCEPT !.count = n + 1]
      /\ \A c \in Card : c # link => card'[c] = card[c]
      /\ n \in Slot
  BY <1>1, <1>2 DEF Inv, TypeOK, Block, Slot
<1>4. \A c \in Card : card'[c].list = card[c].list
  BY <1>3 DEF Block
<1>5. /\ \A c \in Card : ~Returning(c) /\ ~Returning(c)'
      /\ \A c \in Card : Count(c)' = IF c = link THEN Count(c) + 1 ELSE Count(c)
      /\ Count(link) = n
      /\ \A x : ~AtCounter(x) /\ ~AtCounter(x)'
  BY <1>3 DEF Returning, Count, AtCounter, Block
<1>6. book_id_find(rc522_book_id) = b
  BY <1>2 DEF book_id_find, Asked, Listed
<1>7. /\ Listed' = Listed /\ b \in Listed
      /\ \A x \in DOMAIN books : books'[x] = IF x = b THEN 0 ELSE books[x]
      /\ \A x \in Listed : x \in DOMAIN books
  BY <1>2, <1>6 DEF Listed
<1>8. Kept /\ Distinct /\ LentOnCard
  BY DEF Inv, Ledger
<1>9. \A c \in Card : \A i \in Slot :
        i < Count(c)' <=> i < Count(c) \/ (c = link /\ i = n)
  BY <1>3, <1>5 DEF Slot
<1>10. \A c \in Card : \A i \in Entries(c)' : i \in Slot /\
         (i \in Entries(c) \/ (c = link /\ i = n))
  BY <1>9 DEF Entries, Count
<1>11. \A c \in Card : \A i \in Entries(c) : i \in Slot /\ i \in Entries(c)'
  BY <1>9 DEF Entries, Count
<1>12. n \in Entries(link)'
  <2>1. n \in Slot /\ n < Count(link)'
    BY <1>1, <1>3, <1>9
  <2> HIDE DEF n
  <2> QED BY <2>1 DEF Entries, Count
<1>13. \A c \in Card : \A i \in Entries(c) : books[card[c].list[i]] = 0 /\ card[c].list[i] # b
  BY <1>2, <1>8, EntriesBelow DEF Kept
<1> HIDE DEF n, b
<1>14. Kept'
  <2>1. ASSUME NEW c \in Card PROVE Count(c)' <= Slots
    BY <1>2, <1>3, <1>5, <1>8 DEF Kept, Slot
  <2>2. ASSUME NEW c \in Card, NEW i \in Slot, i > Count(c)' PROVE card'[c].list[i] = 0
    BY <2>2, <1>3, <1>4, <1>5, <1>8 DEF Kept, Slot
  <2>3. ASSUME NEW c \in Card, NEW i \in Slot, i < Count(c)'
        PROVE  card'[c].list[i] \in Listed' /\ books'[card'[c].list[i]] = 0
    <3>1. CASE i < Count(c)
      BY <3>1, <1>4, <1>7, <1>8 DEF Kept
    <3>2. CASE c = link /\ i = n
      BY <3>2, <1>2, <1>4, <1>7 DEF n
    <3> QED BY <3>1, <3>2, <2>3, <1>9
  <2> QED BY <2>1, <2>2, <2>3, <1>5 DEF Kept
<1>15. Distinct'
  BY <1>2, <1>4, <1>8, <1>10, <1>13 DEF Distinct, n
<1>16. \A c \in Card : \A x : On(c, x) => On(c, x)'
  BY <1>4, <1>11 DEF On
<1>17. ASSUME NEW c \in Card, NEW x, c = link, x = b PROVE On(c, x)'
  <2>1. n \in Entries(c)' /\ card'[c].list[n] = x
    BY <1>1, <1>2, <1>4, <1>12, <1>17
  <2> QED BY <2>1 DEF On
<1>18. LentOnCard'
  <2> SUFFICES ASSUME NEW x \in Listed, books'[x] = 0 PROVE \E c \in Card : On(c, x)'
    BY <1>7 DEF LentOnCard
  <2>1. CASE x = b
    BY <2>1, <1>1, <1>17
  <2>2. CASE x # b
    BY <2>2, <1>5, <1>7, <1>8, <1>16 DEF LentOnCard
  <2> QED BY <2>1, <2>2
<1>19. HeadLent'
  BY <1>7 DEF Inv, TypeOK, HeadLent, Listed
<1> QED BY <1>5, <1>14, <1>15, <1>16, <1>17, <1>18, <1>19 DEF Ledger, b

(* The second block of a return is written: the book is on the shelf.      *)
LEMMA Shelved ==
  ASSUME Inv, page = "giveback", pc = "write0", pc' = "request",
         card' = [card EXCEPT ![link].count = data.count],
         books' = [books EXCEPT ![book_id_find(rc522_book_id)] = 1]
  PROVE  /\ Ledger' /\ HeadLent'
         /\ \A b : (AtCounter(b) <=> b = rc522_book_id) /\ ~AtCounter(b)'
         /\ \A c \in Card : \A b : On(c, b) => On(c, b)'
<1> USE CirculationAssumption
<1> DEFINE b == rc522_book_id
<1>1. link # NoCard /\ link \in Card /\ b \in Listed /\ books[b] = 0
  BY DEF Inv, TypeOK, Pass, HalfReturned
<1>2. b \in 0..MaxId /\ b % W = b
  BY <1>1 DEF Inv, TypeOK, Listed
<1>3. book_id_find(b) = b
  BY <1>1, <1>2 DEF book_id_find, Listed
<1>4. /\ Listed' = Listed
      /\ \A x \in DOMAIN books : books'[x] = IF x = b THEN 1 ELSE books[x]
      /\ \A x \in Listed : x \in DOMAIN books
  BY <1>3 DEF Listed
<1>5. /\ card[link] \in Block /\ card'[link] = [card[link] EXCEPT !.count = data.count]
      /\ \A c \in Card : c # link => card'[c] = card[c]
  BY <1>1 DEF Inv, TypeOK
<1>6. \A c \in Card : card'[c].list = card[c].list
  BY <1>5 DEF Block
<1>7. /\ \A c \in Card : (Returning(c) <=> c = link) /\ ~Returning(c)'
      /\ \A c \in Card : Count(c)' = Count(c)
      /\ \A x : (AtCounter(x) <=> x = b) /\ ~AtCounter(x)'
  BY <1>1, <1>5 DEF Returning, Count, AtCounter, Block
<1>8. \A c \in Card : Entries(c)' = Entries(c)
  BY <1>7 DEF Entries, Count
<1>9. Kept /\ Distinct /\ LentOnCard
  BY DEF Inv, Ledger
<1> HIDE DEF b
<1>10. Kept'
  BY <1>4, <1>6, <1>7, <1>9 DEF Kept
<1>11. Distinct'
  BY <1>6, <1>8, <1>9 DEF Distinct
<1>12. \A c \in Card : \A x : On(c, x) => On(c, x)'
  BY <1>6, <1>8 DEF On
<1>13. LentOnCard'
  BY <1>4, <1>7, <1>9, <1>12 DEF LentOnCard
<1>14. HeadLent'
  BY <1>1, <1>4 DEF Inv, TypeOK, HeadLent, Listed
<1> QED BY <1>7, <1>10, <1>11, <1>12, <1>13, <1>14 DEF Ledger, b

(* The invariant is inductive: the two writes by the four lemmas above,    *)
(* every other step because it leaves the ledger alone.                    *)
LEMMA InvStep ==
  ASSUME Faults \subseteq {"torn_borrow"}
  PROVE  Inv /\ [Next]_vars => Inv'
<1> USE CirculationAssumption
<1> SUFFICES ASSUME Inv, [Next]_vars PROVE Inv'
  OBVIOUS
<1>1. TypeOK' /\ TypeOK /\ Ledger /\ HeadLent
  BY TypeStep DEF Inv
<1> SUFFICES HeadLent' /\ Ledger' /\ Pass'
  BY <1>1 DEF Inv
<1> USE DEF world, stock, request
<1>2. ASSUME UNCHANGED <<card, books, data, rc522_book_id>>,
             \A c \in Card : Returning(c) <=> Returning(c)'
      PROVE  Ledger' /\ HeadLent'
  BY <1>1, <1>2, LedgerStays DEF Listed, HeadLent
<1>3. ASSUME NEW c \in Card \cup {NoCard}, Place(c) PROVE HeadLent' /\ Ledger' /\ Pass'
  <2>1. link' = NoCard /\ UNCHANGED <<card, books, page, pc, data, rc522_book_id>>
    BY <1>3 DEF Place
  <2>2. ~(pc = "write0" /\ page = "giveback")
    BY <1>3 DEF Place, Torn
  <2>3. Pass'
    BY <2>1, <2>2 DEF Pass, AsRead, ToBorrow, ToGiveBack, HalfBorrowed, HalfReturned
  <2> QED BY <1>2, <2>1, <2>2, <2>3 DEF Returning
<1>4. ASSUME Reboot PROVE FALSE
  BY <1>4 DEF Reboot
<1>5. ASSUME NEW p \in {"cover", "borrow", "giveback", "change"}, Turn(p)
      PROVE  HeadLent' /\ Ledger' /\ Pass'
  <2>1. Pass'
    BY <1>5 DEF Turn, Pass, AsRead, ToBorrow, ToGiveBack, HalfBorrowed, HalfReturned
  <2> QED BY <1>2, <1>5, <2>1 DEF Turn, Returning
<1>6. ASSUME AddBook \/ \E b \in DOMAIN books : DeleteBook(b)
      PROVE  HeadLent' /\ Ledger' /\ Pass'
  <2>1. pc = "request" /\ UNCHANGED <<card, link, page, pc, data, rc522_num, rc522_book_id>>
    BY <1>1, <1>6 DEF AddBook, DeleteBook, TypeOK
  <2>2. Pass'
    BY <2>1 DEF Pass, AsRead, ToBorrow, ToGiveBack, HalfBorrowed, HalfReturned
  <2>3. /\ \A b : b \in Listed /\ books[b] = 0 <=> b \in Listed' /\ books'[b] = 0
        /\ HeadLent'
    <3>1. CASE AddBook
      BY <1>1, <3>1 DEF AddBook, Listed, TypeOK, HeadLent
    <3>2. ASSUME NEW b \in DOMAIN books, DeleteBook(b)
          PROVE  /\ \A x : x \in Listed /\ books[x] = 0 <=> x \in Listed' /\ books'[x] = 0
                 /\ HeadLent'
      BY <1>1, <3>2 DEF DeleteBook, Listed, TypeOK, HeadLent
    <3> QED BY <3>1, <3>2, <1>6
  <2>4. Ledger'
    BY <1>1, <2>1, <2>3, LedgerStays DEF Returning
  <2> QED BY <2>2, <2>3, <2>4
<1>7. ASSUME Seek \/ ReadCard \/ ReadLine \/ Leave PROVE HeadLent' /\ Ledger' /\ Pass'
  <2>1. /\ pc # "write0" /\ pc' # "write0" /\ pc' # "write1"
        /\ UNCHANGED <<card, books, page>>
    BY <1>7 DEF Seek, ReadCard, ReadLine, Leave, InPass
  <2>2. AsRead'
    <3>1. CASE Seek
      BY <3>1 DEF Seek, Unanswered, AsRead
    <3>2. CASE ReadCard
      BY <3>2 DEF ReadCard, Unanswered, AsRead
    <3>3. CASE ReadLine
      BY <3>3 DEF ReadLine, InPass, AsRead, Inv, Pass
    <3>4. CASE Leave
      BY <3>4 DEF Leave, AsRead
    <3> QED BY <3>1, <3>2, <3>3, <3>4, <1>7
  <2>3. Pass'
    BY <2>1, <2>2 DEF Pass, ToBorrow, ToGiveBack, HalfBorrowed, HalfReturned
  <2>4. Ledger'
    BY <1>1, <2>1, LedgerStays DEF Returning, Listed
  <2> QED BY <1>1, <2>1, <2>3, <2>4 DEF HeadLent
<1>8. ASSUME Borrow PROVE HeadLent' /\ Ledger' /\ Pass'
  <2>1. /\ pc = "act" /\ page = "borrow" /\ link # NoCard /\ pc' = "write1"
        /\ books[book_id_find(rc522_book_id)] = 1
        /\ UNCHANGED <<card, link, books, page, rc522_num, rc522_book_id>>
    BY <1>8 DEF Borrow, Authorised
  <2>2. Asked \in Listed /\ books[Asked] = 1
    BY <1>1, <2>1 DEF book_id_find, Asked, Listed, HeadLent
  <2>3. data = card[link] /\ rc522_num = card[link].count
    BY <2>1 DEF Inv, Pass, AsRead
  <2>4. card[link].count \in 0..(W - 1) /\ card[link].count < Slots
    BY <1>1, <1>8, <2>1, <2>3 DEF Borrow, TypeOK, Block
  <2>5. (card[link].count + 1) % W = card[link].count + 1
    BY <2>4
  <2>6. data' = [count |-> card[link].count + 1,
                 list  |-> [card[link].list EXCEPT ![card[link].count] = Asked]]
    BY <1>8, <2>3, <2>5 DEF Borrow, Asked
  <2>7. ToBorrow'
    BY <2>1, <2>2, <2>4, <2>6 DEF ToBorrow, Asked, Listed
  <2>8. Pass'
    BY <2>1, <2>7 DEF Pass, AsRead, ToGiveBack, HalfBorrowed, HalfReturned
  <2>9. Ledger'
    BY <1>1, <2>1, LedgerStays DEF Returning, Listed
  <2> QED BY <1>1, <2>1, <2>8, <2>9 DEF HeadLent
<1>9. ASSUME GiveBack PROVE HeadLent' /\ Ledger' /\ Pass'
  <2>1. /\ pc = "act" /\ page = "giveback" /\ link # NoCard /\ pc' = "write1"
        /\ UNCHANGED <<card, link, books, page, rc522_num, rc522_book_id>>
    BY <1>9 DEF GiveBack, Authorised
  <2>2. data = card[link] /\ rc522_num = card[link].count
    BY <2>1 DEF Inv, Pass, AsRead
  <2>3. PICK j \in Slot :
          /\ j < card[link].count /\ card[link].list[j] = rc522_book_id
          /\ data' = [count |-> (card[link].count - 1) % W,
                      list  |-> Remove(card[link].list, j)]
    BY <1>9, <2>2 DEF GiveBack
  <2>4. card[link].count \in 1..(W - 1)
    <3>1. card[link].count \in 0..(W - 1)
      BY <1>1, <2>1 DEF TypeOK, Block
    <3> QED BY <2>3, <3>1 DEF Slot
  <2>5. (card[link].count - 1) % W = card[link].count - 1
    BY <2>4
  <2>6. ToGiveBack'
    BY <2>1, <2>3, <2>5 DEF ToGiveBack
  <2>7. Pass'
    BY <2>1, <2>6 DEF Pass, AsRead, ToBorrow, HalfBorrowed, HalfReturned
  <2>8. Ledger'
    BY <1>1, <2>1, LedgerStays DEF Returning, Listed
  <2> QED BY <1>1, <2>1, <2>7, <2>8 DEF HeadLent
<1>10. ASSUME WriteList PROVE HeadLent' /\ Ledger' /\ Pass'
  <2>1. /\ pc = "write1" /\ page \in {"borrow", "giveback"}
        /\ UNCHANGED <<link, books, page, data, rc522_book_id>>
    BY <1>1, <1>10 DEF WriteList, TypeOK
  <2>2. CASE pc' = "request"
    <3>1. UNCHANGED card
      BY <1>10, <2>2 DEF WriteList
    <3>2. Pass'
      BY <2>2 DEF Pass, AsRead, ToBorrow, ToGiveBack, HalfBorrowed, HalfReturned
    <3> QED BY <1>2, <2>1, <2>2, <3>1, <3>2 DEF Returning
  <2>3. CASE pc' = "write0"
    <3>1. HeadLent'
      BY <1>1, <2>1 DEF HeadLent
    <3>2. CASE page = "borrow"
      <4>1. Ledger' /\ HalfBorrowed'
        BY <1>10, <2>3, <3>2, PutBehind
      <4> QED BY <2>1, <2>3, <3>1, <3>2, <4>1
              DEF Pass, AsRead, ToBorrow, ToGiveBack, HalfReturned
    <3>3. CASE page = "giveback"
      <4>1. Ledger' /\ HalfReturned'
        BY <1>10, <2>3, <3>3, TakenOff
      <4> QED BY <2>1, <2>3, <3>1, <3>3, <4>1
              DEF Pass, AsRead, ToBorrow, ToGiveBack, HalfBorrowed
    <3> QED BY <2>1, <3>2, <3>3
  <2> QED BY <1>10, <2>2, <2>3 DEF WriteList
<1>11. ASSUME WriteCount PROVE HeadLent' /\ Ledger' /\ Pass'
  <2>1. /\ pc = "write0" /\ pc' = "request" /\ page \in {"borrow", "giveback"}
        /\ UNCHANGED <<link, page, data, rc522_book_id>>
    BY <1>1, <1>11 DEF WriteCount, TypeOK
  <2>2. Pass'
    BY <2>1 DEF Pass, AsRead, ToBorrow, ToGiveBack, HalfBorrowed, HalfReturned
  <2>3. CASE /\ link # NoCard
             /\ card' = [card EXCEPT ![link].count = data.count]
             /\ books' = [books EXCEPT ![book_id_find(rc522_book_id)] =
                            IF page = "borrow" THEN 0 ELSE 1]
    <3>1. CASE page = "borrow"
      BY <2>1, <2>2, <2>3, <3>1, Lent
    <3>2. CASE page = "giveback"
      BY <2>1, <2>2, <2>3, <3>2, Shelved
    <3> QED BY <2>1, <3>1, <3>2
  <2>4. CASE Torn \in Faults /\ UNCHANGED <<card, books>>
    <3>1. page = "borrow"
      BY <2>1, <2>4 DEF Torn
    <3> QED BY <1>2, <2>1, <2>2, <2>4, <3>1 DEF Returning
  <2> QED BY <1>11, <2>3, <2>4 DEF WriteCount
<1>12. CASE UNCHANGED vars
  <2>1. Pass'
    BY <1>12 DEF vars, Inv, Pass, AsRead, ToBorrow, ToGiveBack, HalfBorrowed,
                 HalfReturned, Asked, Listed
  <2> QED BY <1>2, <1>12, <2>1 DEF vars, Returning
<1> QED BY <1>3, <1>4, <1>5, <1>6, <1>7, <1>8, <1>9, <1>10, <1>11, <1>12 DEF Next

(* It holds of every behaviour.                                            *)
LEMMA InvCorrect ==
  ASSUME Faults \subseteq {"torn_borrow"}
  PROVE  Spec => []Inv
<1>1. Init => Inv
  <2> SUFFICES ASSUME Init PROVE Inv
    OBVIOUS
  <2> USE CirculationAssumption DEF Init
  <2>1. TypeOK
    BY DEF TypeOK, Blank, Block, Slot
  <2>2. /\ \A c \in Card : ~Returning(c) /\ card[c].count = 0
        /\ \A c \in Card : \A i \in Slot : card[c].list[i] = 0
    BY DEF Returning, Blank
  <2>3. \A c \in Card : Count(c) = 0 /\ Entries(c) = {}
    BY <2>2 DEF Count, Entries, Slot
  <2>4. Ledger
    BY <2>2, <2>3 DEF Ledger, Kept, Distinct, LentOnCard, On, Listed, Slot
  <2>5. Pass /\ HeadLent
    BY DEF Pass, AsRead, ToBorrow, ToGiveBack, HalfBorrowed, HalfReturned, HeadLent
  <2> QED BY <2>1, <2>4, <2>5 DEF Inv
<1> QED BY <1>1, InvStep, PTL DEF Spec

-----------------------------------------------------------------------------
(* What the invariant says of the holders of one book.                     *)
LEMMA InvHolders ==
  ASSUME Inv, NEW b \in Listed
  PROVE  IF books[b] = 0 /\ ~AtCounter(b)
         THEN \E c \in Card, i \in Slot : On(c, b) /\ Holders(b) = {<<c, i>>}
         ELSE Holders(b) = {} /\ \A c \in Card : ~On(c, b)
<1>1. Kept /\ Distinct /\ LentOnCard
  BY DEF Inv, Ledger
<1>2. \A c \in Card : Entries(c) \subseteq Slot
  BY EntriesBelow
<1>3. Holders(b) = {h \in Card \X Slot : h[2] \in Entries(h[1]) /\ card[h[1]].list[h[2]] = b}
  BY DEF Holders
<1>4. CASE books[b] = 0 /\ ~AtCounter(b)
  <2>1. PICK c \in Card : \E i \in Entries(c) : card[c].list[i] = b
    BY <1>1, <1>4 DEF LentOnCard, On
  <2> PICK i \in Entries(c) : card[c].list[i] = b
    BY <2>1
  <2>2. ASSUME NEW h \in Card \X Slot, h[2] \in Entries(h[1]), card[h[1]].list[h[2]] = b
        PROVE  h = <<c, i>>
    <3>1. h[1] = c /\ h[2] = i
      BY <1>1, <2>1, <2>2 DEF Distinct
    <3> QED BY <3>1
  <2>3. Holders(b) = {<<c, i>>}
    BY <1>2, <1>3, <2>1, <2>2
  <2> QED BY <1>2, <1>4, <2>1, <2>3 DEF On
<1>5. CASE ~(books[b] = 0 /\ ~AtCounter(b))
  <2>1. \A c \in Card : \A i \in Entries(c) : card[c].list[i] # b
    BY <1>1, <1>5, EntriesBelow DEF Kept
  <2> QED BY <1>3, <1>5, <2>1 DEF On
<1> QED BY <1>4, <1>5

(* As long as nothing but a loan is torn, what the console knows and what  *)
(* the cards say never part: a lent book is an entry of one card, once,    *)
(* and an available one of none, between the three steps of a loan or a    *)
(* return too.                                                             *)
THEOREM OneHolderAlways ==
  ASSUME Faults \subseteq {"torn_borrow"}
  PROVE  Spec => []OneHolder
<1>1. Inv => OneHolder
  BY InvHolders, FS_Singleton DEF OneHolder
<1> QED BY <1>1, InvCorrect, PTL

-----------------------------------------------------------------------------
(* Where Lending sees a book.                                              *)
Placed == \A b :
  /\ b \notin Listed => Where(b) = "unlisted"
  /\ b \in Listed /\ books[b] = 1 => Where(b) = "shelf"
  /\ b \in Listed /\ books[b] = 0 /\ AtCounter(b) => Where(b) = "counter"
  /\ \A c \in Card : b \in Listed /\ On(c, b) => Where(b) = c

(* The invariant makes the places of Where exclusive.                      *)
LEMMA WhereIs == Inv => Placed
<1> SUFFICES ASSUME Inv, NEW b
             PROVE  /\ b \notin Listed => Where(b) = "unlisted"
                    /\ b \in Listed /\ books[b] = 1 => Where(b) = "shelf"
                    /\ b \in Listed /\ books[b] = 0 /\ AtCounter(b) => Where(b) = "counter"
                    /\ \A c \in Card : b \in Listed /\ On(c, b) => Where(b) = c
  BY DEF Placed
<1>1. ASSUME NEW c \in Card, b \in Listed, On(c, b) PROVE Where(b) = c
  <2>1. books[b] = 0 /\ ~AtCounter(b)
    BY <1>1, InvHolders
  <2>2. PICK d \in Card, i \in Slot : Holders(b) = {<<d, i>>}
    BY <1>1, <2>1, InvHolders
  <2>3. d = c
    <3>1. PICK k \in Entries(c) : card[c].list[k] = b
      BY <1>1 DEF On
    <3>2. <<c, k>> \in Holders(b)
      BY <3>1, EntriesBelow DEF Holders
    <3> QED BY <2>2, <3>2
  <2>4. Holders(b) # {} /\ books[b] # 1
    BY <2>1, <2>2
  <2>5. Where(b) = (CHOOSE h \in Holders(b) : TRUE)[1]
    BY <1>1, <2>1, <2>4 DEF Where
  <2>6. (CHOOSE h \in Holders(b) : TRUE) = <<d, i>>
    BY <2>2
  <2>7. Where(b) = <<d, i>>[1]
    <3> DEFINE h == CHOOSE x \in Holders(b) : TRUE
    <3>1. Where(b) = h[1] /\ h = <<d, i>>
      BY <2>5, <2>6
    <3> HIDE DEF h
    <3> QED BY <3>1
  <2> QED BY <2>3, <2>7
<1> QED BY <1>1 DEF Where

(* The same after a step.                                                  *)
LEMMA WhereIsNext == Inv' => Placed'
BY WhereIs, PTL

(* The state of Lending.                                                   *)
Loc == [b \in 1..MaxId |-> Where(b)]

(* A book that keeps its place in the books and on the cards stays where   *)
(* it is.                                                                  *)
LEMMA Stays ==
  ASSUME Inv, Inv', NEW b,
         b \in Listed' <=> b \in Listed,
         b \in Listed => books'[b] = books[b] /\ (AtCounter(b)' <=> AtCounter(b)),
         \A c \in Card : On(c, b) => On(c, b)'
  PROVE  Where(b)' = Where(b)
<1>1. CASE b \notin Listed
  BY <1>1 DEF Where
<1>2. CASE b \in Listed /\ books[b] = 1
  BY <1>2 DEF Where
<1>3. CASE b \in Listed /\ books[b] = 0 /\ AtCounter(b)
  BY <1>3 DEF Where
<1>4. CASE b \in Listed /\ books[b] = 0 /\ ~AtCounter(b)
  <2>1. PICK c \in Card : On(c, b)
    BY <1>4 DEF Inv, Ledger, LentOnCard
  <2>2. Where(b) = c
    BY <1>4, <2>1, WhereIs DEF Placed
  <2>3. Where(b)' = c
    BY <1>4, <2>1, WhereIsNext DEF Placed
  <2> QED BY <2>2, <2>3
<1> QED BY <1>1, <1>2, <1>3, <1>4 DEF Inv, TypeOK, Listed

(* No book moves, or one does: the two shapes of a step of Lending.        *)
LEMMA AllRest ==
  ASSUME \A b \in 1..MaxId : Where(b)' = Where(b)
  PROVE  Loc' = Loc
BY DEF Loc

(* One book goes from one place to another.                                *)
LEMMA OneMoves ==
  ASSUME NEW b \in 1..MaxId, NEW from, NEW to, Where(b) = from, Where(b)' = to,
         \A x \in 1..MaxId : x # b => Where(x)' = Where(x)
  PROVE  L!Move(b, from, to)
BY DEF L!Move, Loc

(* Steps that change no book and no entry of a card.                       *)
LEMMA Rest ==
  ASSUME Inv, Inv', UNCHANGED <<card, books>>,
         \A c \in Card : Returning(c) <=> Returning(c)',
         (\E c \in Card : Returning(c)) => UNCHANGED <<data, rc522_book_id>>
  PROVE  Loc' = Loc
<1>1. \A c \in Card : Entries(c)' = Entries(c)
  BY DEF Entries
<1>2. \A b : AtCounter(b)' <=> AtCounter(b)
  BY DEF AtCounter
<1>3. \A c \in Card : \A b : On(c, b) => On(c, b)'
  BY <1>1 DEF On
<1>4. \A b : Where(b)' = Where(b)
  BY <1>2, <1>3, Stays DEF Listed
<1> QED BY <1>4, AllRest

(* Every step of the console is a step of Lending or none.                 *)
LEMMA LendingStep ==
  ASSUME Faults \subseteq {"torn_borrow"}, Inv, Inv', [Next]_vars
  PROVE  L!LendingNext \/ Loc' = Loc
<1> USE CirculationAssumption
<1> USE DEF world, stock, request
<1>1. TypeOK /\ \A b \in Listed : b \in 1..MaxId /\ b \in DOMAIN books
  BY DEF Inv, TypeOK, Listed
<1>2. ASSUME UNCHANGED <<card, books>>, pc # "write0", pc' # "write0" PROVE Loc' = Loc
  BY <1>2, Rest DEF Returning
<1>3. ASSUME NEW c \in Card \cup {NoCard}, Place(c) PROVE Loc' = Loc
  <2>1. UNCHANGED <<card, books, page, pc>> /\ ~(pc = "write0" /\ page = "giveback")
    BY <1>3 DEF Place, Torn
  <2> QED BY <2>1, Rest DEF Returning
<1>4. ASSUME NEW p \in {"cover", "borrow", "giveback", "change"}, Turn(p)
      PROVE  Loc' = Loc
  BY <1>2, <1>4 DEF Turn
<1>5. ASSUME AddBook PROVE L!LendingNext \/ Loc' = Loc
  <2>1. pc = "request" /\ UNCHANGED <<card, pc, data>>
    BY <1>1, <1>5 DEF AddBook, TypeOK
  <2>2. PICK b \in 1..MaxId : b = change_id + 1 /\ change_id' = b /\ b \notin Listed
    BY <1>1, <1>5 DEF AddBook, TypeOK, Listed
  <2>3. CASE books' = [x \in DOMAIN books \cup {b} |-> IF x = b THEN 1 ELSE books[x]]
    <3>1. Listed' = Listed \cup {b} /\ books'[b] = 1
      BY <2>2, <2>3 DEF Listed
    <3>2. \A x : x # b => /\ x \in Listed' <=> x \in Listed
                          /\ x \in Listed => books'[x] = books[x]
      BY <2>3 DEF Listed
    <3>3. /\ \A x : AtCounter(x)' <=> AtCounter(x)
          /\ \A c \in Card : \A x : On(c, x) => On(c, x)'
      BY <2>1 DEF AtCounter, Returning, On, Entries
    <3>4. \A x \in 1..MaxId : x # b => Where(x)' = Where(x)
      BY <3>2, <3>3, Stays
    <3>5. Where(b) = "unlisted" /\ Where(b)' = "shelf"
      BY <2>2, <3>1 DEF Where
    <3>6. L!Acquire(b)
      BY <3>4, <3>5, OneMoves DEF L!Acquire
    <3> QED BY <3>6 DEF L!LendingNext
  <2>4. CASE UNCHANGED books
    BY <1>2, <2>1, <2>4
  <2> QED BY <1>5, <2>2, <2>3, <2>4 DEF AddBook
<1>6. ASSUME NEW b \in DOMAIN books, DeleteBook(b) PROVE L!LendingNext \/ Loc' = Loc
  <2>1. pc = "request" /\ UNCHANGED <<card, pc, data>>
    BY <1>1, <1>6 DEF DeleteBook, TypeOK
  <2>2. b \in Listed /\ b \in 1..MaxId /\ books[b] = 1
    BY <1>1, <1>6 DEF DeleteBook, TypeOK, Listed
  <2>3. /\ b \notin Listed'
        /\ \A x : x # b => /\ x \in Listed' <=> x \in Listed
                           /\ x \in Listed => books'[x] = books[x]
    BY <1>6 DEF DeleteBook, Listed
  <2>4. /\ \A x : AtCounter(x)' <=> AtCounter(x)
        /\ \A c \in Card : \A x : On(c, x) => On(c, x)'
    BY <2>1 DEF AtCounter, Returning, On, Entries
  <2>5. \A x \in 1..MaxId : x # b => Where(x)' = Where(x)
    BY <2>3, <2>4, Stays
  <2>6. Where(b) = "shelf" /\ Where(b)' = "unlisted"
    BY <2>2, <2>3 DEF Where
  <2>7. L!StrikeOff(b)
    BY <2>2, <2>5, <2>6, OneMoves DEF L!StrikeOff, L!Move
  <2> QED BY <2>2, <2>7 DEF L!LendingNext
<1>7. ASSUME Seek \/ ReadCard \/ ReadLine \/ Leave \/ Borrow \/ GiveBack PROVE Loc' = Loc
  BY <1>2, <1>7 DEF Seek, ReadCard, ReadLine, Leave, Borrow, GiveBack, Authorised, InPass
<1>8. ASSUME WriteList PROVE L!LendingNext \/ Loc' = Loc
  <2>1. /\ pc = "write1" /\ page \in {"borrow", "giveback"} /\ Listed' = Listed
        /\ UNCHANGED <<link, books, page, data, rc522_book_id>>
    BY <1>1, <1>8 DEF WriteList, TypeOK, Listed
  <2>2. CASE pc' = "request"
    BY <1>2, <1>8, <2>2 DEF WriteList
  <2>3. CASE pc' = "write0" /\ page = "borrow"
    <3>1. /\ \A b : ~AtCounter(b) /\ ~AtCounter(b)'
          /\ \A c \in Card : \A b : On(c, b) => On(c, b)'
      BY <1>8, <2>3, PutBehind
    <3>2. \A b : Where(b)' = Where(b)
      BY <2>1, <3>1, Stays
    <3> QED BY <3>2, AllRest
  <2>4. CASE pc' = "write0" /\ page = "giveback"
    <3>1. /\ \A b : AtCounter(b)' <=> b = rc522_book_id
          /\ On(link, rc522_book_id)
          /\ \A c \in Card : \A b : On(c, b) /\ b # rc522_book_id => On(c, b)'
      BY <1>8, <2>4, TakenOff
    <3>2. \A b : ~AtCounter(b)
      BY <2>1 DEF AtCounter, Returning
    <3>3. rc522_book_id \in Listed /\ books[rc522_book_id] = 0 /\ link \in Card
      BY <1>1, <2>1, <2>4 DEF Inv, Pass, HalfReturned, TypeOK
    <3>4. PICK b \in 1..MaxId, c \in Card : b = rc522_book_id /\ c = link
      BY <1>1, <3>3
    <3>5. \A x \in 1..MaxId : x # b => Where(x)' = Where(x)
      BY <2>1, <3>1, <3>2, <3>4, Stays
    <3>6. Where(b) = c
      BY <3>1, <3>3, <3>4, WhereIs DEF Placed
    <3>7. Where(b)' = "counter"
      BY <2>1, <3>1, <3>3, <3>4, WhereIsNext DEF Placed
    <3>8. L!HandIn(b, c)
      BY <3>5, <3>6, <3>7, OneMoves DEF L!HandIn
    <3> QED BY <3>8 DEF L!LendingNext
  <2> QED BY <1>8, <2>1, <2>2, <2>3, <2>4 DEF WriteList
<1>9. ASSUME WriteCount PROVE L!LendingNext \/ Loc' = Loc
  <2>1. /\ pc = "write0" /\ pc' = "request" /\ page \in {"borrow", "giveback"}
        /\ UNCHANGED <<link, page, data, rc522_book_id>>
    BY <1>1, <1>9 DEF WriteCount, TypeOK
  <2>2. CASE Torn \in Faults /\ UNCHANGED <<card, books>>
    BY <2>1, <2>2, Rest DEF Torn, Returning
  <2>3. CASE /\ page = "borrow" /\ link # NoCard
             /\ card' = [card EXCEPT ![link].count = data.count]
             /\ books' = [books EXCEPT ![book_id_find(rc522_book_id)] = 0]
    <3>1. /\ \A b : ~AtCounter(b) /\ ~AtCounter(b)'
          /\ \A c \in Card : \A b : c = link /\ b = Asked => On(c, b)'
          /\ \A c \in Card : \A b : On(c, b) => On(c, b)'
      BY <2>1, <2>3, Lent
    <3>2. Asked \in Listed /\ books[Asked] = 1 /\ link \in Card
      BY <1>1, <2>1, <2>3 DEF Inv, Pass, HalfBorrowed, TypeOK
    <3>3. PICK b \in 1..MaxId, c \in Card : b = Asked /\ c = link
      BY <1>1, <3>2
    <3>4. /\ Listed' = Listed /\ b \in Listed
          /\ \A x \in Listed : books'[x] = IF x = b THEN 0 ELSE books[x]
      BY <1>1, <2>3, <3>2, <3>3 DEF book_id_find, Asked, Listed
    <3>5. \A x \in 1..MaxId : x # b => Where(x)' = Where(x)
      BY <3>1, <3>4, Stays
    <3>6. Where(b) = "shelf"
      BY <3>2, <3>3 DEF Where
    <3>7. Where(b)' = c
      BY <3>1, <3>3, <3>4, WhereIsNext DEF Placed
    <3>8. L!Lend(b, c)
      BY <3>5, <3>6, <3>7, OneMoves DEF L!Lend
    <3> QED BY <3>8 DEF L!LendingNext
  <2>4. CASE /\ page = "giveback"
             /\ card' = [card EXCEPT ![link].count = data.count]
             /\ books' = [books EXCEPT ![book_id_find(rc522_book_id)] = 1]
    <3>1. /\ \A b : (AtCounter(b) <=> b = rc522_book_id) /\ ~AtCounter(b)'
          /\ \A c \in Card : \A b : On(c, b) => On(c, b)'
      BY <2>1, <2>4, Shelved
    <3>2. rc522_book_id \in Listed /\ books[rc522_book_id] = 0
      BY <2>1, <2>4 DEF Inv, Pass, HalfReturned
    <3>3. PICK b \in 1..MaxId : b = rc522_book_id
      BY <1>1, <3>2
    <3>4. /\ Listed' = Listed /\ b \in Listed
          /\ \A x \in Listed : books'[x] = IF x = b THEN 1 ELSE books[x]
      BY <1>1, <2>4, <3>2, <3>3 DEF book_id_find, Listed
    <3>5. \A x \in 1..MaxId : x # b => Where(x)' = Where(x)
      BY <3>1, <3>3, <3>4, Stays
    <3>6. Where(b) = "counter" /\ Where(b)' = "shelf"
      BY <3>1, <3>2, <3>3, <3>4 DEF Where
    <3>7. L!Shelve(b)
      BY <3>5, <3>6, OneMoves DEF L!Shelve
    <3> QED BY <3>7 DEF L!LendingNext
  <2> QED BY <1>9, <2>1, <2>2, <2>3, <2>4 DEF WriteCount
<1>10. CASE UNCHANGED vars
  BY <1>10, Rest DEF vars, Returning
<1> QED BY <1>3, <1>4, <1>5, <1>6, <1>7, <1>8, <1>9, <1>10 DEF Next, Reboot

(* Card by card and block by block, the console lends and takes back as    *)
(* Lending says: a book is lent from the shelf only and comes back only    *)
(* through the card it was lent on.                                        *)
THEOREM Refinement ==
  ASSUME Faults \subseteq {"torn_borrow"}
  PROVE  Spec => ImplementsLending
<1>1. Init => L!LendingInit
  BY CirculationAssumption DEF Init, L!LendingInit, Where, Listed
<1>2. Inv /\ Inv' /\ [Next]_vars => [L!LendingNext]_Loc
  BY LendingStep
<1> QED BY <1>1, <1>2, InvCorrect, PTL DEF Spec, ImplementsLending, L!LendingSpec, Loc
=============================================================================
