---------------------------- MODULE MemPoolProofs ----------------------------
(***************************************************************************)
(* What is proved of the memory pool (Others/malloc.c) for any number and  *)
(* size of blocks: MapAgrees and the refinement of Allocator.  Both follow *)
(* from Sound, which is stated of any table and any allocations, so that   *)
(* myrealloc is a mymalloc and a myfree.                                   *)
(***************************************************************************)
EXTENDS MemPool, FiniteSetTheorems, TLAPS

(* A non-empty set of naturals has a least element.                        *)
LEMMA Least ==
  ASSUME NEW T, T \subseteq Nat, T # {}
  PROVE  \E x \in T : \A y \in T : x <= y
<1> DEFINE F == {0..n : n \in T}
           R == StrictSubsetOrdering(Nat)
<1>1. IsWellFoundedOn(R, FiniteSubsetsOf(Nat))
  BY FS_StrictSubsetOrderingWellFounded
<1>2. F \subseteq FiniteSubsetsOf(Nat) /\ F # {}
  <2>1. \A n \in T : IsFiniteSet(0..n)
    BY FS_Interval
  <2>2. \A n \in T : 0..n \in SUBSET Nat
    OBVIOUS
  <2>3. \A n \in T : 0..n \in FiniteSubsetsOf(Nat)
    BY <2>1, <2>2 DEF FiniteSubsetsOf
  <2> QED BY <2>3
<1>3. \E X \in F : \A Y \in F : <<Y, X>> \notin R
  <2> HIDE DEF F, R
  <2> QED BY <1>1, <1>2, WFMin
<1>4. PICK x \in T : \A y \in T : <<0..y, 0..x>> \notin R
  BY <1>3
<1>5. ASSUME NEW y \in T, y < x PROVE FALSE
  <2>1. 0..y \in SUBSET Nat /\ 0..x \in SUBSET Nat
    OBVIOUS
  <2>2. 0..y \subseteq 0..x
    BY <1>5
  <2>3. x \in 0..x /\ x \notin 0..y
    BY <1>5
  <2>4. <<0..y, 0..x>> \in R
    BY <2>1, <2>2, <2>3 DEF StrictSubsetOrdering
  <2> QED BY <2>4, <1>4
<1> QED BY <1>5

(* So the search, which stops at the highest block that will do, finds one.*)
LEMMA Highest ==
  ASSUME NEW S, S \subseteq Block, S # {}
  PROVE  Max(S) \in S
<1> DEFINE T == {Blocks - 1 - b : b \in S}
<1>1. T \subseteq Nat /\ T # {}
  <2>1. \A b \in S : Blocks - 1 - b \in Nat
    BY PoolAssumption DEF Block
  <2> QED BY <2>1
<1>2. PICK t \in T : \A u \in T : t <= u
  <2> HIDE DEF T
  <2> QED BY <1>1, Least
<1>3. PICK b \in S : t = Blocks - 1 - b
  OBVIOUS
<1>4. ASSUME NEW c \in S PROVE b >= c
  <2>1. Blocks - 1 - b <= Blocks - 1 - c
    BY <1>2, <1>3
  <2>2. b \in Int /\ c \in Int /\ Blocks \in Int
    BY PoolAssumption DEF Block
  <2> QED BY <2>1, <2>2
<1>5. \E x \in S : \A c \in S : x >= c
  BY <1>4
<1> QED BY <1>5 DEF Max

-----------------------------------------------------------------------------
(* The blocks of an allocation, by the length its caller asked for.        *)
First(o) == o \div BlockSize
Cells(o, size) == First(o)..(First(o) + Needed(size) - 1)

(* The blocks needed are those with a byte asked for in them.              *)
LEMMA NeededBytes ==
  ASSUME NEW size \in Nat, NEW k \in Int
  PROVE  /\ Needed(size) \in Nat
         /\ size # 0 => Needed(size) # 0
         /\ k * BlockSize < size <=> k < Needed(size)
<1> DEFINE q == size \div BlockSize
           r == size % BlockSize
<1>1. q \in Nat /\ r \in 0..(BlockSize - 1) /\ size = q * BlockSize + r
  BY PoolAssumption
<1>2. Needed(size) = q + IF r # 0 THEN 1 ELSE 0
  BY DEF Needed
<1> HIDE DEF q, r
<1>3. CASE r = 0
  <2>1. size = q * BlockSize /\ Needed(size) = q
    BY <1>1, <1>2, <1>3, PoolAssumption
  <2>2. k * BlockSize < q * BlockSize <=> k < q
    BY <1>1, PoolAssumption
  <2> QED BY <1>1, <2>1, <2>2, PoolAssumption
<1>4. CASE r # 0
  <2>1. Needed(size) = q + 1
    BY <1>2, <1>4
  <2>2. k * BlockSize < q * BlockSize + r <=> k < q + 1
    BY <1>1, <1>4, PoolAssumption
  <2> QED BY <1>1, <2>1, <2>2
<1> QED BY <1>3, <1>4

LEMMA FirstOf ==
  ASSUME NEW b \in Nat
  PROVE  First(b * BlockSize) = b
BY PoolAssumption DEF First

(* Sound: what the table says of the allocations.                          *)
Marked(map, live_) == \A o \in DOMAIN live_ :
  /\ live_[o] \in Nat \ {0}
  /\ \E b \in Block : o = b * BlockSize
  /\ Cells(o, live_[o]) \subseteq Block
  /\ \A b \in Cells(o, live_[o]) : map[b] = Needed(live_[o])
Apart(live_) == \A o, p \in DOMAIN live_ :
  o # p => Cells(o, live_[o]) \cap Cells(p, live_[p]) = {}
Accounted(map, live_) == \A b \in Block :
  map[b] # 0 => \E o \in DOMAIN live_ : b \in Cells(o, live_[o])
Sound(map, live_) ==
  /\ map \in [Block -> Nat]
  /\ Marked(map, live_) /\ Apart(live_) /\ Accounted(map, live_)

Add(live_, offset, size) ==
  [o \in DOMAIN live_ \cup {offset} |-> IF o = offset THEN size ELSE live_[o]]
Drop(live_, offset) == [o \in DOMAIN live_ \ {offset} |-> live_[o]]

(* An allocation holds its first block.                                    *)
LEMMA FirstHeld ==
  ASSUME NEW map, NEW lv, Sound(map, lv), NEW o \in DOMAIN lv
  PROVE  /\ First(o) \in Cells(o, lv[o]) /\ First(o) \in Block
         /\ o = First(o) * BlockSize
         /\ Needed(lv[o]) \in Nat \ {0}
<1>1. PICK b \in Block : o = b * BlockSize
  BY DEF Sound, Marked
<1>2. First(o) = b
  BY <1>1, FirstOf, PoolAssumption DEF Block
<1>3. Needed(lv[o]) \in Nat \ {0}
  BY NeededBytes DEF Sound, Marked
<1> QED BY <1>1, <1>2, <1>3, PoolAssumption DEF Cells, Block

(* What my_mem_malloc hands out is free, all of it, and it refuses only    *)
(* when nothing is.                                                        *)
LEMMA MallocFinds ==
  ASSUME NEW map, NEW size \in Nat
  PROVE  LET offset == my_mem_malloc(map, size)
             free == {b \in Block : Cells(b * BlockSize, size) \subseteq Block
                                    /\ \A k \in Cells(b * BlockSize, size) : map[k] = 0}
         IN  IF size = 0 \/ free = {} THEN offset = NULL
             ELSE \E b \in free : offset = b * BlockSize /\ offset # NULL
<1> DEFINE n == Needed(size)
           free == {b \in Block : Cells(b * BlockSize, size) \subseteq Block
                                  /\ \A k \in Cells(b * BlockSize, size) : map[k] = 0}
<1>1. CASE size = 0
  BY <1>1 DEF my_mem_malloc
<1>2. CASE size # 0
  <2>1. n \in Nat \ {0}
    BY <1>2, NeededBytes
  <2>2. \A b \in Block : Cells(b * BlockSize, size) = b..(b + n - 1)
    BY FirstOf, PoolAssumption DEF Cells, Block
  <2> HIDE DEF n
  <2>3. \A b \in Block : b..(b + n - 1) \subseteq Block <=> b + n <= Blocks
    BY <2>1, PoolAssumption DEF Block
  <2>4. free = Candidates(map, n)
    BY <2>2, <2>3 DEF Candidates
  <2> HIDE DEF free
  <2>5. my_mem_malloc(map, size) = IF free = {} THEN NULL ELSE Max(free) * BlockSize
    BY <1>2, <2>4 DEF my_mem_malloc, n
  <2>6. ASSUME free # {} PROVE Max(free) \in free /\ Max(free) * BlockSize # NULL
    <3>1. PICK b \in free : b = Max(free)
      BY <2>6, Highest DEF free
    <3>2. b \in Nat /\ BlockSize \in Nat
      <4>1. b \in Block
        BY <3>1 DEF free
      <4> HIDE DEF free
      <4> QED BY <4>1, PoolAssumption DEF Block
    <3>3. b * BlockSize # NULL
      BY <3>2, PoolAssumption
    <3> QED BY <3>1, <3>3
  <2> QED BY <1>2, <2>5, <2>6 DEF free
<1> QED BY <1>1, <1>2

-----------------------------------------------------------------------------
(* Taking and giving back keep the table sound.                            *)
LEMMA Taken ==
  ASSUME NEW map, NEW lv, Sound(map, lv), NEW size \in Nat \ {0}, NEW b \in Block,
         Cells(b * BlockSize, size) \subseteq Block,
         \A k \in Cells(b * BlockSize, size) : map[k] = 0
  PROVE  /\ b * BlockSize \notin DOMAIN lv
         /\ Sound(Mark(map, b * BlockSize, Needed(size), Needed(size)),
                  Add(lv, b * BlockSize, size))
<1> DEFINE offset == b * BlockSize
           n == Needed(size)
           run == Cells(offset, size)
           new == Mark(map, offset, n, n)
           more == Add(lv, offset, size)
<1>1. n \in Nat \ {0} /\ b \in Nat
  BY NeededBytes, PoolAssumption DEF Block
<1>2. First(offset) = b
  BY <1>1, FirstOf
<1>3. b \in run
  BY <1>1, <1>2 DEF Cells
<1> HIDE DEF n
<1>4. new = [k \in Block |-> IF k \in run THEN n ELSE map[k]]
  BY DEF Mark, Cells, First, n
<1>5. /\ DOMAIN more = DOMAIN lv \cup {offset} /\ more[offset] = size
      /\ \A o \in DOMAIN lv : o # offset => more[o] = lv[o]
  BY DEF Add
<1> HIDE DEF new, more
<1>6. \A o \in DOMAIN lv : \A k \in Cells(o, lv[o]) : k \in Block /\ map[k] # 0
  BY FirstHeld DEF Sound, Marked
<1>7. \A o \in DOMAIN lv : Cells(o, lv[o]) \cap run = {}
  BY <1>6
<1>8. offset \notin DOMAIN lv
  BY <1>2, <1>3, <1>6, FirstHeld
<1> HIDE DEF run
<1>9. new \in [Block -> Nat]
  BY <1>1, <1>4 DEF Sound
<1>10. Marked(new, more)
  <2> SUFFICES ASSUME NEW o \in DOMAIN more
               PROVE  /\ more[o] \in Nat \ {0}
                      /\ \E k \in Block : o = k * BlockSize
                      /\ Cells(o, more[o]) \subseteq Block
                      /\ \A k \in Cells(o, more[o]) : new[k] = Needed(more[o])
    BY DEF Marked
  <2>1. CASE o = offset
    <3>1. Cells(o, more[o]) = run /\ Needed(more[o]) = n
      BY <2>1, <1>5 DEF run, n
    <3>2. run \subseteq Block
      BY DEF run
    <3> HIDE DEF offset
    <3> QED BY <2>1, <3>1, <3>2, <1>4, <1>5 DEF offset
  <2>2. CASE o # offset
    <3>1. o \in DOMAIN lv /\ more[o] = lv[o]
      BY <2>2, <1>5
    <3>2. /\ lv[o] \in Nat \ {0}
          /\ \E k \in Block : o = k * BlockSize
          /\ Cells(o, lv[o]) \subseteq Block
          /\ \A k \in Cells(o, lv[o]) : map[k] = Needed(lv[o])
      BY <3>1 DEF Sound, Marked
    <3>3. \A k \in Cells(o, lv[o]) : k \notin run
      BY <3>1, <1>7
    <3> HIDE DEF offset
    <3> QED BY <3>1, <3>2, <3>3, <1>4
  <2> QED BY <2>1, <2>2
<1>11. Apart(more)
  <2> SUFFICES ASSUME NEW o \in DOMAIN more, NEW p \in DOMAIN more, o # p
               PROVE  Cells(o, more[o]) \cap Cells(p, more[p]) = {}
    BY DEF Apart
  <2>1. run = Cells(offset, more[offset])
    BY <1>5 DEF run
  <2> HIDE DEF offset
  <2>2. CASE o # offset /\ p # offset
    BY <2>2, <1>5 DEF Sound, Apart
  <2>3. CASE o = offset \/ p = offset
    BY <2>1, <2>3, <1>5, <1>7
  <2> QED BY <2>2, <2>3
<1>12. Accounted(new, more)
  <2> SUFFICES ASSUME NEW k \in Block, new[k] # 0
               PROVE  \E o \in DOMAIN more : k \in Cells(o, more[o])
    BY DEF Accounted
  <2>1. CASE k \in run
    <3>1. run = Cells(offset, more[offset])
      BY <1>5 DEF run
    <3> HIDE DEF offset
    <3> QED BY <2>1, <3>1, <1>5
  <2>2. CASE k \notin run
    <3>1. map[k] # 0
      BY <2>2, <1>4
    <3>2. PICK o \in DOMAIN lv : k \in Cells(o, lv[o])
      BY <3>1 DEF Sound, Accounted
    <3> HIDE DEF offset
    <3> QED BY <3>2, <1>5, <1>8
  <2> QED BY <2>1, <2>2
<1> QED BY <1>8, <1>9, <1>10, <1>11, <1>12 DEF Sound, new, more, n

LEMMA GivenBack ==
  ASSUME NEW map, NEW lv, Sound(map, lv), NEW offset \in DOMAIN lv
  PROVE  Sound(my_mem_free(map, offset), Drop(lv, offset))
<1> DEFINE run == Cells(offset, lv[offset])
           new == my_mem_free(map, offset)
           less == Drop(lv, offset)
<1>1. map[First(offset)] = Needed(lv[offset])
  BY FirstHeld DEF Sound, Marked
<1>2. new = [k \in Block |-> IF k \in run THEN 0 ELSE map[k]]
  BY <1>1 DEF my_mem_free, Mark, Cells, First
<1>3. DOMAIN less = DOMAIN lv \ {offset} /\ \A o \in DOMAIN less : less[o] = lv[o]
  BY DEF Drop
<1>4. \A o \in DOMAIN less : Cells(o, less[o]) \cap run = {}
  BY <1>3 DEF Sound, Apart
<1> HIDE DEF run, new, less
<1>5. new \in [Block -> Nat]
  BY <1>2 DEF Sound
<1>6. Marked(new, less)
  <2>1. ASSUME NEW o \in DOMAIN less, NEW k \in Cells(o, less[o]) PROVE new[k] = Needed(less[o])
    <3>1. k \in Block /\ map[k] = Needed(less[o]) /\ k \notin run
      BY <2>1, <1>3, <1>4 DEF Sound, Marked
    <3> QED BY <3>1, <1>2
  <2> QED BY <2>1, <1>3 DEF Sound, Marked
<1>7. Apart(less)
  BY <1>3 DEF Sound, Apart
<1>8. Accounted(new, less)
  <2> SUFFICES ASSUME NEW k \in Block, new[k] # 0
               PROVE  \E o \in DOMAIN less : k \in Cells(o, less[o])
    BY DEF Accounted
  <2>1. k \notin run /\ map[k] # 0
    BY <1>2
  <2>2. PICK o \in DOMAIN lv : k \in Cells(o, lv[o])
    BY <2>1 DEF Sound, Accounted
  <2> QED BY <2>1, <2>2, <1>3 DEF run
<1> QED BY <1>5, <1>6, <1>7, <1>8 DEF Sound, new, less

(* What a request does to a sound table.                                   *)
LEMMA Requested ==
  ASSUME NEW map, NEW lv, Sound(map, lv), NEW size \in Nat,
         NEW offset, offset = my_mem_malloc(map, size)
  PROVE  IF offset = NULL THEN Obtain(map, size) = map
         ELSE /\ offset \notin DOMAIN lv
              /\ \E b \in Block : offset = b * BlockSize
              /\ Sound(Obtain(map, size), Add(lv, offset, size))
<1>1. CASE offset = NULL
  BY <1>1 DEF Obtain
<1>2. CASE offset # NULL
  <2>1. PICK b \in Block : /\ offset = b * BlockSize /\ size # 0
                           /\ Cells(b * BlockSize, size) \subseteq Block
                           /\ \A k \in Cells(b * BlockSize, size) : map[k] = 0
    BY <1>2, MallocFinds
  <2>2. Obtain(map, size) = Mark(map, offset, Needed(size), Needed(size))
    BY <1>2 DEF Obtain
  <2>3. size \in Nat \ {0}
    BY <2>1
  <2>4. /\ b * BlockSize \notin DOMAIN lv
        /\ Sound(Mark(map, b * BlockSize, Needed(size), Needed(size)),
                 Add(lv, b * BlockSize, size))
    BY <2>1, <2>3, Taken
  <2> QED BY <1>2, <2>1, <2>2, <2>4
<1> QED BY <1>1, <1>2

-----------------------------------------------------------------------------
(* The inductive invariant: the table an operation works on is sound.  It  *)
(* is Map, not memmap, for before the first operation memmap holds what    *)
(* the memory held.                                                        *)
Inv ==
  /\ memrdy \in BOOLEAN /\ asked \in Nat
  /\ result = NULL \/ \E b \in Block : result = b * BlockSize
  /\ Sound(Map, live)

(* What is freed was obtained, so the table has been cleared.              *)
LEMMA Ready ==
  ASSUME Inv, NEW offset \in DOMAIN live
  PROVE  memrdy /\ Map = memmap
<1>1. Sound(Map, live)
  BY DEF Inv
<1>2. First(offset) \in Block /\ Map[First(offset)] # 0
  BY <1>1, FirstHeld DEF Sound, Marked
<1> QED BY <1>2 DEF Map, Empty, Inv

(* What each operation does to the table and to the allocations.           *)
LEMMA MallocEffect ==
  ASSUME Inv, NEW size \in Nat, mymalloc(size)
  PROVE  /\ Map' = Obtain(Map, size)
         /\ live' = IF result' = NULL THEN live ELSE Add(live, result', size)
BY DEF mymalloc, Map, Add

LEMMA FreeEffect ==
  ASSUME Inv, NEW offset \in DOMAIN live, myfree(offset)
  PROVE  Map' = my_mem_free(Map, offset) /\ live' = Drop(live, offset)
BY Ready DEF myfree, Map, Drop

LEMMA ReallocEffect ==
  ASSUME Inv, NEW offset \in DOMAIN live, NEW size \in Nat, myrealloc(offset, size)
  PROVE  IF result' = NULL THEN Map' = Map /\ live' = live
         ELSE /\ Map' = my_mem_free(Obtain(Map, size), offset)
              /\ live' = Drop(Add(live, result', size), offset)
              /\ offset # result'
<1>1. memrdy /\ memrdy' /\ Map = memmap /\ Map' = memmap'
  BY Ready DEF myrealloc, Map
<1>2. CASE result' = NULL
  BY <1>1, <1>2 DEF myrealloc
<1>3. CASE result' # NULL
  <2>1. result' \notin DOMAIN live
    BY <1>1, <1>3, Requested DEF myrealloc, Inv
  <2>2. live' = Drop(Add(live, result', size), offset)
    BY <1>3, <2>1 DEF myrealloc, Drop, Add
  <2> QED BY <1>1, <1>3, <2>1, <2>2 DEF myrealloc
<1> QED BY <1>2, <1>3

LEMMA BytesNat == Bytes \subseteq Nat
BY PoolAssumption DEF Bytes

LEMMA InvCorrect == Spec => []Inv
<1>1. Init => Inv
  <2> SUFFICES ASSUME Init PROVE Inv
    OBVIOUS
  <2>1. Map = Empty /\ DOMAIN live = {}
    BY DEF Init, Map
  <2>2. Sound(Map, live)
    BY <2>1 DEF Sound, Marked, Apart, Accounted, Empty
  <2> QED BY <2>2 DEF Init, Inv
<1>2. Inv /\ [Next]_vars => Inv'
  <2> SUFFICES ASSUME Inv, [Next]_vars PROVE Inv'
    OBVIOUS
  <2>1. Sound(Map, live)
    BY DEF Inv
  <2>2. CASE my_mem_init
    BY <2>2 DEF my_mem_init, Inv, Map
  <2>3. ASSUME NEW size \in Bytes, mymalloc(size) PROVE Inv'
    <3>1. size \in Nat /\ result' = my_mem_malloc(Map, size)
      BY <2>3, BytesNat DEF mymalloc
    <3>2. /\ Map' = Obtain(Map, size)
          /\ live' = IF result' = NULL THEN live ELSE Add(live, result', size)
      BY <2>3, <3>1, MallocEffect
    <3>3. Sound(Map', live') /\ (result' = NULL \/ \E b \in Block : result' = b * BlockSize)
      BY <2>1, <3>1, <3>2, Requested
    <3> QED BY <2>3, <3>1, <3>3 DEF mymalloc, Inv
  <2>4. ASSUME NEW offset \in DOMAIN live, myfree(offset) PROVE Inv'
    <3>1. Sound(Map', live')
      BY <2>1, <2>4, FreeEffect, GivenBack
    <3> QED BY <2>4, <3>1 DEF myfree, Inv
  <2>5. ASSUME NEW offset \in DOMAIN live, NEW size \in Bytes, myrealloc(offset, size)
        PROVE  Inv'
    <3>1. size \in Nat /\ result' = my_mem_malloc(Map, size)
      BY <2>5, BytesNat, Ready DEF myrealloc
    <3>2. CASE result' = NULL
      <4>1. Map' = Map /\ live' = live
        BY <2>5, <3>1, <3>2, ReallocEffect
      <4> QED BY <2>1, <2>5, <3>1, <3>2, <4>1 DEF myrealloc, Inv
    <3>3. CASE result' # NULL
      <4>1. /\ Map' = my_mem_free(Obtain(Map, size), offset)
            /\ live' = Drop(Add(live, result', size), offset)
        BY <2>5, <3>1, <3>3, ReallocEffect
      <4>2. /\ Sound(Obtain(Map, size), Add(live, result', size))
            /\ \E b \in Block : result' = b * BlockSize
        BY <2>1, <3>1, <3>3, Requested
      <4>3. offset \in DOMAIN Add(live, result', size)
        BY DEF Add
      <4>4. Sound(Map', live')
        BY <4>1, <4>2, <4>3, GivenBack
      <4> QED BY <2>5, <3>1, <4>2, <4>4 DEF myrealloc, Inv
    <3> QED BY <3>2, <3>3
  <2>6. CASE UNCHANGED vars
    BY <2>6 DEF vars, Inv, Map
  <2> QED BY <2>2, <2>3, <2>4, <2>5, <2>6 DEF Next
<1> QED BY <1>1, <1>2, PTL DEF Spec

-----------------------------------------------------------------------------
(* The blocks an allocation has bytes in are those it is marked with.      *)
LEMMA HeldCells ==
  ASSUME NEW map, Sound(map, live), NEW o \in DOMAIN live
  PROVE  Held(o) = Cells(o, live[o])
<1>1. PICK b \in Block : o = b * BlockSize
  BY DEF Sound, Marked
<1> DEFINE size == live[o]
           n == Needed(size)
<1>2. size \in Nat \ {0} /\ Cells(o, size) \subseteq Block
  BY DEF Sound, Marked
<1>3. b \in Nat /\ First(o) = b /\ BlockSize \in Nat \ {0}
  BY <1>1, FirstOf, PoolAssumption DEF Block
<1> HIDE DEF size
<1>4. n \in Nat \ {0}
  BY <1>2, NeededBytes
<1>5. ASSUME NEW k \in Block
      PROVE  k * BlockSize < o + size /\ (k + 1) * BlockSize > o <=> k \in Cells(o, size)
  <2>1. k \in Nat
    BY PoolAssumption DEF Block
  <2>2. (k - b) * BlockSize < size <=> k - b < n
    BY <1>2, <1>3, <2>1, NeededBytes
  <2>3. (k - b) * BlockSize = k * BlockSize - b * BlockSize
    BY <1>3, <2>1
  <2>4. k * BlockSize \in Nat /\ b * BlockSize \in Nat
    BY <1>3, <2>1
  <2>5. k * BlockSize < o + size <=> k < b + n
    BY <1>1, <1>2, <1>3, <1>4, <2>1, <2>2, <2>3, <2>4
  <2>6. (k + 1) * BlockSize > b * BlockSize <=> k + 1 > b
    BY <1>3, <2>1
  <2> HIDE DEF n
  <2> QED BY <1>1, <1>3, <1>4, <2>1, <2>5, <2>6 DEF Cells, n
<1> QED BY <1>2, <1>5 DEF Held, size

(* Whatever is obtained, freed and reallocated, on a table that held       *)
(* anything at the start: every block is marked with the length of the     *)
(* allocation it is in, so that freeing takes back all of it and nothing   *)
(* else, and my_mem_perused reports the blocks held.                       *)
THEOREM MapAlwaysAgrees == Spec => []MapAgrees
<1>1. Inv => MapAgrees
  <2> SUFFICES ASSUME Inv, memrdy PROVE MapAgrees
    BY DEF MapAgrees
  <2>1. Map = memmap /\ Sound(memmap, live)
    BY DEF Map, Inv
  <2>2. \A o \in DOMAIN live : Held(o) = Cells(o, live[o])
    BY <2>1, HeldCells
  <2>3. ASSUME NEW o \in DOMAIN live, NEW b \in Held(o) PROVE memmap[b] = Cardinality(Held(o))
    <3> DEFINE s == First(o)
               n == Needed(live[o])
    <3>1. n \in Nat \ {0} /\ s \in Nat /\ memmap[b] = n
      <4>1. /\ Needed(live[o]) \in Nat \ {0} /\ First(o) \in Block
            /\ \A k \in Cells(o, live[o]) : memmap[k] = Needed(live[o])
        BY <2>1, FirstHeld DEF Sound, Marked
      <4>2. b \in Cells(o, live[o])
        BY <2>2, <2>3
      <4> QED BY <4>1, <4>2, PoolAssumption DEF Block
    <3>2. Held(o) = s..(s + n - 1)
      BY <2>2 DEF Cells
    <3> HIDE DEF s, n
    <3>3. Cardinality(s..(s + n - 1)) = n
      <4> DEFINE e == s + n - 1
      <4>1. e \in Int /\ ~(s > e) /\ e - s + 1 = n
        BY <3>1
      <4> HIDE DEF e
      <4>2. Cardinality(s..e) = n
        <5>1. s \in Int
          BY <3>1
        <5>2. Cardinality(s..e) = IF s > e THEN 0 ELSE e - s + 1
          BY <4>1, <5>1, FS_Interval
        <5> QED BY <4>1, <5>2
      <4> QED BY <4>2 DEF e
    <3> QED BY <3>1, <3>2, <3>3
  <2>4. \A b \in Block : memmap[b] # 0 => \E o \in DOMAIN live : b \in Held(o)
    BY <2>1, <2>2 DEF Sound, Accounted
  <2>5. {b \in Block : Map[b] # 0} = UNION {Held(o) : o \in DOMAIN live}
    <3>1. \A o \in DOMAIN live : \A b \in Held(o) : b \in Block /\ memmap[b] # 0
      BY <2>1, <2>2, FirstHeld DEF Sound, Marked
    <3> QED BY <2>1, <2>4, <3>1
  <2> QED BY <2>3, <2>4, <2>5 DEF MapAgrees, my_mem_perused
<1> QED BY <1>1, InvCorrect, PTL

-----------------------------------------------------------------------------
(* The allocations as Allocator sees them: cells by their first cell.      *)
Share(lv) == [b \in {First(o) : o \in DOMAIN lv} |-> Cells(b * BlockSize, lv[b * BlockSize])]
Owned == [b \in {o \div BlockSize : o \in DOMAIN live} |-> Held(b * BlockSize)]

LEMMA ShareOf ==
  ASSUME NEW map, NEW lv, Sound(map, lv)
  PROVE  /\ \A o \in DOMAIN lv : First(o) * BlockSize = o
         /\ DOMAIN Share(lv) = {First(o) : o \in DOMAIN lv}
         /\ \A o \in DOMAIN lv : Share(lv)[First(o)] = Cells(o, lv[o])
<1>1. \A o \in DOMAIN lv : First(o) * BlockSize = o
  BY FirstHeld
<1> QED BY <1>1 DEF Share

LEMMA ShareAdd ==
  ASSUME NEW map, NEW lv, Sound(map, lv), NEW b \in Block, NEW size,
         b * BlockSize \notin DOMAIN lv
  PROVE  Share(Add(lv, b * BlockSize, size)) =
           [a \in DOMAIN Share(lv) \cup {b} |->
              IF a = b THEN Cells(b * BlockSize, size) ELSE Share(lv)[a]]
<1> DEFINE offset == b * BlockSize
           more == Add(lv, offset, size)
<1>1. First(offset) = b
  BY FirstOf, PoolAssumption DEF Block
<1>2. /\ DOMAIN more = DOMAIN lv \cup {offset} /\ more[offset] = size
      /\ \A o \in DOMAIN lv : more[o] = lv[o]
  BY DEF Add
<1>3. /\ \A o \in DOMAIN lv : First(o) * BlockSize = o
      /\ DOMAIN Share(lv) = {First(o) : o \in DOMAIN lv}
      /\ \A o \in DOMAIN lv : Share(lv)[First(o)] = Cells(o, lv[o])
  BY ShareOf
<1> HIDE DEF more
<1>4. {First(o) : o \in DOMAIN more} = DOMAIN Share(lv) \cup {b}
  <2> HIDE DEF offset
  <2> QED BY <1>1, <1>2, <1>3
<1>5. ASSUME NEW a \in DOMAIN Share(lv) \cup {b}
      PROVE  Cells(a * BlockSize, more[a * BlockSize]) =
               IF a = b THEN Cells(offset, size) ELSE Share(lv)[a]
  <2>1. CASE a = b
    BY <2>1, <1>2
  <2>2. CASE a # b
    <3>1. PICK o \in DOMAIN lv : a = First(o)
      BY <1>3, <2>2
    <3> HIDE DEF offset
    <3> QED BY <2>2, <3>1, <1>2, <1>3
  <2> QED BY <2>1, <2>2
<1>6. Share(more) = [a \in DOMAIN Share(lv) \cup {b} |->
                       Cells(a * BlockSize, more[a * BlockSize])]
  BY <1>4 DEF Share
<1> QED BY <1>5, <1>6 DEF more

LEMMA ShareDrop ==
  ASSUME NEW map, NEW lv, Sound(map, lv), NEW offset \in DOMAIN lv
  PROVE  Share(Drop(lv, offset)) = [a \in DOMAIN Share(lv) \ {First(offset)} |-> Share(lv)[a]]
<1> DEFINE less == Drop(lv, offset)
<1>1. DOMAIN less = DOMAIN lv \ {offset} /\ \A o \in DOMAIN less : less[o] = lv[o]
  BY DEF Drop
<1>2. /\ \A o \in DOMAIN lv : First(o) * BlockSize = o
      /\ DOMAIN Share(lv) = {First(o) : o \in DOMAIN lv}
      /\ \A o \in DOMAIN lv : Share(lv)[First(o)] = Cells(o, lv[o])
  BY ShareOf
<1> HIDE DEF less
<1>3. \A o, p \in DOMAIN lv : First(o) = First(p) => o = p
  BY <1>2
<1>4. {First(o) : o \in DOMAIN less} = DOMAIN Share(lv) \ {First(offset)}
  BY <1>1, <1>2, <1>3
<1>5. ASSUME NEW a \in DOMAIN Share(lv) \ {First(offset)}
      PROVE  Cells(a * BlockSize, less[a * BlockSize]) = Share(lv)[a]
  <2>1. PICK o \in DOMAIN lv : a = First(o)
    BY <1>2
  <2> QED BY <2>1, <1>1, <1>2
<1>6. Share(less) = [a \in DOMAIN Share(lv) \ {First(offset)} |->
                       Cells(a * BlockSize, less[a * BlockSize])]
  BY <1>4 DEF Share
<1> QED BY <1>5, <1>6 DEF less

LEMMA OwnedIs == Inv => Owned = Share(live)
<1> SUFFICES ASSUME Inv PROVE Owned = Share(live)
  OBVIOUS
<1>1. Sound(Map, live)
  BY DEF Inv
<1>2. \A o \in DOMAIN live : /\ First(o) * BlockSize = o
                             /\ Held(o) = Cells(o, live[o])
  BY <1>1, ShareOf, HeldCells
<1>3. \A b \in {First(o) : o \in DOMAIN live} :
        Held(b * BlockSize) = Cells(b * BlockSize, live[b * BlockSize])
  BY <1>2
<1>4. Owned = [b \in {First(o) : o \in DOMAIN live} |-> Held(b * BlockSize)]
  BY DEF Owned, First
<1> QED BY <1>3, <1>4 DEF Share

LEMMA OwnedIsNext == Inv' => Owned' = Share(live')
<1>1. Inv' => (Owned = Share(live))'
  BY OwnedIs, PTL
<1> QED BY <1>1 DEF Share, Cells, First, Needed

(* A run of blocks is free in the table just when it fits for Allocator.   *)
LEMMA FreeFits ==
  ASSUME NEW lv, Sound(Map, lv), Owned = Share(lv), NEW size \in Nat, NEW b \in Block
  PROVE  A!Fits(Needed(size), b) <=>
           /\ size # 0
           /\ Cells(b * BlockSize, size) \subseteq Block
           /\ \A k \in Cells(b * BlockSize, size) : Map[k] = 0
<1>1. A!Taken = UNION {Share(lv)[a] : a \in DOMAIN Share(lv)}
  BY DEF A!Taken, Owned
<1>2. \A k \in Block : k \in A!Taken <=> \E o \in DOMAIN lv : k \in Cells(o, lv[o])
  <2>1. /\ DOMAIN Share(lv) = {First(o) : o \in DOMAIN lv}
        /\ \A o \in DOMAIN lv : Share(lv)[First(o)] = Cells(o, lv[o])
    BY ShareOf
  <2>2. \A k : k \in A!Taken <=> \E a \in DOMAIN Share(lv) : k \in Share(lv)[a]
    BY <1>1
  <2> QED BY <2>1, <2>2
<1>3. \A k \in Block : k \notin A!Taken <=> Map[k] = 0
  <2>1. \A o \in DOMAIN lv : \A k \in Cells(o, lv[o]) : Map[k] # 0
    BY FirstHeld DEF Sound, Marked
  <2> QED BY <1>2, <2>1 DEF Sound, Accounted
<1>4. A!Run(b, Needed(size)) = Cells(b * BlockSize, size)
  BY FirstOf, PoolAssumption DEF A!Run, Cells, Block
<1>5. Needed(size) > 0 <=> size # 0
  <2>1. size = 0 => Needed(size) = 0
    BY PoolAssumption DEF Needed
  <2> QED BY <2>1, NeededBytes
<1> QED BY <1>3, <1>4, <1>5 DEF A!Fits

(* A request is refused or served as Allocator says; what it does to the   *)
(* shares is With.                                                         *)
LEMMA RequestFits ==
  ASSUME Inv, NEW size \in Nat, NEW offset, offset = my_mem_malloc(Map, size)
  PROVE  IF offset = NULL THEN \A b \in Block : ~A!Fits(Needed(size), b)
         ELSE \E b \in Block :
                /\ offset = b * BlockSize /\ offset \div BlockSize = b
                /\ offset \notin DOMAIN live
                /\ A!Fits(Needed(size), b)
                /\ Share(Add(live, offset, size)) = A!With(b, Needed(size))
<1>1. Sound(Map, live) /\ Owned = Share(live)
  BY OwnedIs DEF Inv
<1>2. CASE offset = NULL
  BY <1>1, <1>2, MallocFinds, FreeFits
<1>3. CASE offset # NULL
  <2>1. PICK b \in Block : /\ offset = b * BlockSize /\ size # 0
                           /\ Cells(b * BlockSize, size) \subseteq Block
                           /\ \A k \in Cells(b * BlockSize, size) : Map[k] = 0
    BY <1>3, MallocFinds
  <2>2. A!Fits(Needed(size), b)
    BY <1>1, <2>1, FreeFits
  <2>3. offset \notin DOMAIN live
    BY <1>1, <1>3, Requested
  <2>4. offset \div BlockSize = b
    <3>1. First(b * BlockSize) = b
      BY FirstOf, PoolAssumption DEF Block
    <3> QED BY <2>1, <3>1 DEF First
  <2>5. Share(Add(live, b * BlockSize, size)) =
          [a \in DOMAIN Share(live) \cup {b} |->
             IF a = b THEN Cells(b * BlockSize, size) ELSE Share(live)[a]]
    BY <1>1, <2>1, <2>3, ShareAdd
  <2>6. Cells(b * BlockSize, size) = A!Run(b, Needed(size))
    BY <2>1, <2>4 DEF A!Run, Cells, First
  <2>7. Share(Add(live, offset, size)) = A!With(b, Needed(size))
    BY <1>1, <2>1, <2>5, <2>6 DEF A!With, Owned
  <2> QED BY <1>3, <2>1, <2>2, <2>3, <2>4, <2>7
<1> QED BY <1>2, <1>3

(* What Allocator sees of the last request.                                *)
Answer == IF result = NULL THEN NULL ELSE result \div BlockSize

LEMMA AllocatorStep ==
  ASSUME Inv, Inv', [Next]_vars
  PROVE  \/ A!AllocatorNext
         \/ UNCHANGED <<Owned, Needed(asked), Answer>>
<1>1. Sound(Map, live) /\ Owned = Share(live) /\ Owned' = Share(live')
  BY OwnedIs, OwnedIsNext DEF Inv
<1>2. CASE my_mem_init
  BY <1>2 DEF my_mem_init, Owned, Held, Answer, Needed
<1>3. ASSUME NEW size \in Bytes, mymalloc(size) PROVE A!AllocatorNext
  <2>1. /\ size \in Nat /\ result' = my_mem_malloc(Map, size) /\ asked' = size
        /\ live' = IF result' = NULL THEN live ELSE Add(live, result', size)
    BY <1>3, BytesNat, MallocEffect DEF mymalloc
  <2>2. CASE result' = NULL
    <3>1. \A b \in Block : ~A!Fits(Needed(size), b)
      BY <2>1, <2>2, RequestFits
    <3>2. A!Refuse
      BY <1>1, <2>1, <2>2, <3>1 DEF A!Refuse, Owned, Answer
    <3> QED BY <3>2 DEF A!AllocatorNext, A!Allocate
  <2>3. CASE result' # NULL
    <3>1. PICK b \in Block : /\ result' \div BlockSize = b
                             /\ A!Fits(Needed(size), b)
                             /\ Share(Add(live, result', size)) = A!With(b, Needed(size))
      BY <2>1, <2>3, RequestFits
    <3>2. Owned' = A!With(b, Needed(size))
      BY <1>1, <2>1, <2>3, <3>1
    <3>3. A!Allocate
      BY <2>1, <2>3, <3>1, <3>2 DEF A!Allocate, Owned, Answer
    <3> QED BY <3>3 DEF A!AllocatorNext
  <2> QED BY <2>2, <2>3
<1>4. ASSUME NEW offset \in DOMAIN live, myfree(offset) PROVE A!AllocatorNext
  <2>1. live' = Drop(live, offset)
    BY <1>4, FreeEffect
  <2>2. First(offset) \in DOMAIN Owned
    BY <1>1, ShareOf
  <2>3. Owned' = A!Without(Owned, First(offset))
    <3>1. Share(Drop(live, offset)) =
            [a \in DOMAIN Share(live) \ {First(offset)} |-> Share(live)[a]]
      BY <1>1, ShareDrop
    <3>2. Owned' = Share(Drop(live, offset))
      BY <1>1, <2>1
    <3>3. A!Without(Share(live), First(offset)) = Share(Drop(live, offset))
      BY <3>1 DEF A!Without
    <3>4. Owned = Share(live)
      BY <1>1
    <3> QED BY ONLY <3>2, <3>3, <3>4
  <2>4. UNCHANGED <<Needed(asked), Answer>>
    BY <1>4 DEF myfree, Needed, Answer
  <2>5. A!Release(First(offset))
    BY <2>3, <2>4 DEF A!Release, Owned, Answer
  <2> QED BY <2>2, <2>5 DEF A!AllocatorNext, Owned
<1>5. ASSUME NEW offset \in DOMAIN live, NEW size \in Bytes, myrealloc(offset, size)
      PROVE  A!AllocatorNext
  <2>1. First(offset) \in DOMAIN Owned
    BY <1>1, ShareOf
  <2>2. size \in Nat /\ result' = my_mem_malloc(Map, size) /\ asked' = size
    BY <1>5, BytesNat, Ready DEF myrealloc
  <2>3. CASE result' = NULL
    <3>1. live' = live
      BY <1>5, <2>2, <2>3, ReallocEffect
    <3>2. \A b \in Block : ~A!Fits(Needed(size), b)
      BY <2>2, <2>3, RequestFits
    <3>3. A!Refuse
      BY <1>1, <2>2, <2>3, <3>1, <3>2 DEF A!Refuse, Owned, Answer
    <3> QED BY <3>3 DEF A!AllocatorNext, A!Allocate
  <2>4. CASE result' # NULL
    <3>1. live' = Drop(Add(live, result', size), offset)
      BY <1>5, <2>2, <2>4, ReallocEffect
    <3>2. PICK b \in Block : /\ result' \div BlockSize = b
                             /\ A!Fits(Needed(size), b)
                             /\ Share(Add(live, result', size)) = A!With(b, Needed(size))
      BY <2>2, <2>4, RequestFits
    <3>3. /\ Sound(Obtain(Map, size), Add(live, result', size))
          /\ offset \in DOMAIN Add(live, result', size)
      BY <1>1, <2>2, <2>4, Requested DEF Add
    <3>4. Owned' = A!Without(A!With(b, Needed(size)), First(offset))
      <4> DEFINE more == Add(live, result', size)
      <4>1. Sound(Obtain(Map, size), more) /\ offset \in DOMAIN more
        BY <3>3
      <4> HIDE DEF more
      <4>2. Share(Drop(more, offset)) =
              [a \in DOMAIN Share(more) \ {First(offset)} |-> Share(more)[a]]
        BY <4>1, ShareDrop
      <4>3. A!Without(Share(more), First(offset)) = Share(Drop(more, offset))
        BY <4>2 DEF A!Without
      <4>4. Owned' = Share(Drop(more, offset)) /\ Share(more) = A!With(b, Needed(size))
        BY <1>1, <3>1, <3>2 DEF more
      <4> QED BY <4>3, <4>4
    <3>5. A!Reallocate(First(offset))
      BY <2>2, <2>4, <3>2, <3>4 DEF A!Reallocate, Owned, Answer
    <3> QED BY <2>1, <3>5 DEF A!AllocatorNext, Owned
  <2> QED BY <2>3, <2>4
<1>6. CASE UNCHANGED vars
  BY <1>6 DEF vars, Owned, Held, Answer, Needed
<1> QED BY <1>2, <1>3, <1>4, <1>5, <1>6 DEF Next

(* The pool hands out free blocks only, enough for the bytes asked for,    *)
(* takes back what it handed out, and refuses only when no run of free     *)
(* blocks will do.                                                         *)
THEOREM Refinement == Spec => ImplementsAllocator
<1>1. Init => A!AllocatorInit
  BY PoolAssumption DEF Init, A!AllocatorInit, Needed
<1>2. Inv /\ Inv' /\ [Next]_vars => A!AllocatorNext \/ UNCHANGED <<Owned, Needed(asked), Answer>>
  BY AllocatorStep
<1>3. Inv /\ Inv' /\ [Next]_vars => [A!AllocatorNext]_(A!allocator)
  BY <1>2 DEF A!allocator, Owned, Answer
<1> QED BY <1>1, <1>3, InvCorrect, PTL DEF Spec, ImplementsAllocator, A!AllocatorSpec
=============================================================================
