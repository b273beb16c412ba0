------------------------------- MODULE MemPool -------------------------------
(***************************************************************************)
(* The memory pool of Others/malloc.c, one of its two banks.  The pool is  *)
(* cut into blocks; memmap holds for every block 0, or the length in       *)
(* blocks of the allocation it is part of.  The callers (GUI/gui.c,        *)
(* Others/font_update.c) free only what they were given, once.             *)
(***************************************************************************)
EXTENDS Integers, FiniteSets, FiniteSetsExt

CONSTANTS
  Blocks,     \* memtblsize
  BlockSize,  \* memblksize
  NULL

ASSUME PoolAssumption == /\ Blocks \in 1..65535     \* memmap is u16
                         /\ BlockSize \in Nat \ {0}
                         /\ NULL \notin Int

VARIABLES
  memrdy,
  memmap,
  live,      \* the sizes the callers asked for, by the offset they were given
  asked,     \* the size the last mymalloc or myrealloc was called with
  result     \* what it returned

vars == <<memrdy, memmap, live, asked, result>>

Block == 0..(Blocks - 1)
Empty == [b \in Block |-> 0]
Bytes == 0..(Blocks * BlockSize + 1)

(* Before my_mem_init the table holds what the memory held.                *)
Init ==
  /\ memrdy = FALSE
  /\ memmap \in {Empty, [b \in Block |-> 1]}
  /\ live = [o \in {} |-> 0]
  /\ asked = 0 /\ result = NULL

my_mem_init ==
  /\ ~memrdy
  /\ memrdy' = TRUE
  /\ memmap' = Empty
  /\ UNCHANGED <<live, asked, result>>

(* The table an operation works on: not ready, it is initialised first.    *)
Map == IF memrdy THEN memmap ELSE Empty

(* Mutant: the last, partly used block is not counted.                     *)
NeededRoundedDown(size) == size \div BlockSize

Needed(size) == size \div BlockSize + IF size % BlockSize # 0 THEN 1 ELSE 0

(* Mutant: the lowest block of the run is not looked at.                   *)
CandidatesOffByOne(map, n) ==
  {b \in Block : b + n <= Blocks /\ \A k \in (b + 1)..(b + n - 1) : map[k] = 0}

(* The search goes down from the last block and takes the first run.       *)
Candidates(map, n) ==
  {b \in Block : b + n <= Blocks /\ \A k \in b..(b + n - 1) : map[k] = 0}

my_mem_malloc(map, size) ==
  IF size = 0 \/ Candidates(map, Needed(size)) = {} THEN NULL
  ELSE Max(Candidates(map, Needed(size))) * BlockSize

Mark(map, offset, n, with) ==
  [b \in Block |-> IF b \in (offset \div BlockSize)..(offset \div BlockSize + n - 1)
                   THEN with ELSE map[b]]

my_mem_free(map, offset) == Mark(map, offset, map[offset \div BlockSize], 0)

Obtain(map, size) ==
  LET offset == my_mem_malloc(map, size)
  IN  IF offset = NULL THEN map ELSE Mark(map, offset, Needed(size), Needed(size))

mymalloc(size) ==
  /\ memrdy' = TRUE
  /\ asked' = size
  /\ result' = my_mem_malloc(Map, size)
  /\ memmap' = Obtain(Map, size)
  /\ live' = IF result' = NULL THEN live
             ELSE [o \in DOMAIN live \cup {result'} |->
                     IF o = result' THEN size ELSE live[o]]

myfree(offset) ==
  /\ memmap' = my_mem_free(memmap, offset)
  /\ live' = [o \in DOMAIN live \ {offset} |-> live[o]]
  /\ UNCHANGED <<memrdy, asked, result>>

(* The new memory is taken before the old is freed.                        *)
myrealloc(offset, size) ==
  /\ asked' = size
  /\ result' = my_mem_malloc(memmap, size)
  /\ IF result' = NULL THEN UNCHANGED <<memmap, live>>
     ELSE /\ memmap' = my_mem_free(Obtain(memmap, size), offset)
          /\ live' = [o \in (DOMAIN live \ {offset}) \cup {result'} |->
                        IF o = result' THEN size ELSE live[o]]
  /\ UNCHANGED memrdy

Next ==
  \/ my_mem_init
  \/ \E size \in Bytes : mymalloc(size)
  \/ \E offset \in DOMAIN live : \/ myfree(offset)
                                 \/ \E size \in Bytes : myrealloc(offset, size)

Spec == Init /\ [][Next]_vars

(* my_mem_perused                                                          *)
my_mem_perused == (Cardinality({b \in Block : Map[b] # 0}) * 100) \div Blocks

-----------------------------------------------------------------------------

Held(o) == {b \in Block : b * BlockSize < o + live[o] /\ (b + 1) * BlockSize > o}

(* The table says of every block what its holder needs to free all of it   *)
(* and nothing else: a block is marked with the length of the allocation   *)
(* it is in, a block in none is marked free, and the rate of use is that   *)
(* of the blocks held.                                                     *)
MapAgrees == memrdy =>
  /\ \A o \in DOMAIN live : \A b \in Held(o) : memmap[b] = Cardinality(Held(o))
  /\ \A b \in Block : memmap[b] # 0 => \E o \in DOMAIN live : b \in Held(o)
  /\ my_mem_perused = (Cardinality(UNION {Held(o) : o \in DOMAIN live}) * 100) \div Blocks

A == INSTANCE Allocator WITH
  Cell <- Block,
  owned <- [b \in {o \div BlockSize : o \in DOMAIN live} |-> Held(b * BlockSize)],
  asked <- Needed(asked),
  result <- IF result = NULL THEN NULL ELSE result \div BlockSize

(* The pool keeps what Allocator promises, to the byte asked for: it hands *)
(* out free blocks only, and it refuses only when no run of them will do.  *)
ImplementsAllocator == A!AllocatorSpec
=============================================================================
