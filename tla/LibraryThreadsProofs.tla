------------------------ MODULE LibraryThreadsProofs ------------------------
(***************************************************************************)
(* Proofs about the threads of main.c on RT-Thread, for any pages, any     *)
(* priorities at which the LCD thread is above main(), and any other       *)
(* threads' priorities above the idle thread's.                            *)
(*                                                                         *)
(* What the kernel calls do to the ready lists is in RtKernelProofs. Here  *)
(* are the threads: Asleep says who is suspended and why, Booted in which  *)
(* order they come to exist, and Baton that the screen is with one thread  *)
(* or on its way to one. Then what follows, and the refinement of Handoff. *)
(***************************************************************************)
EXTENDS LibraryThreads, RtKernelProofs, FiniteSetTheorems, SequenceTheorems, TLAPS

-----------------------------------------------------------------------------
(* The invariant of the threads                                            *)

Places == {"boot", "wait", "took", "lock", "locked", "draw", "unlock", "serve", "poll", "give"}

Typed ==
  /\ pc \in [Workers -> Places]
  /\ sem \in [Workers -> [value : Nat, waiters : Seq(Thread)]]
  /\ started \in 0..Len(StartOrder)
  /\ book_head \in BOOLEAN
  /\ lcd_index \in PageSet \cup {Nobody}
  /\ screen \in Workers \cup {Nobody}

(* Nothing is lent through lcd_mutex: the priorities never change.         *)
Kernel ==
  /\ Fit(sched)
  /\ Picked(sched)
  /\ sched.prio = InitPriority
  /\ sched.nest \in {0, 1}

(* Whoever is suspended waits for its own semaphore, and then its timer is *)
(* off, or sleeps with its timer on.                                       *)
Waits(t) == sched.stat[t] = "SUSPEND" /\ pc[t] = "took"

Asleep ==
  /\ sched.stat[Main] \in {"READY", "CLOSE"}
  /\ sched.armed = {t \in Workers : sched.stat[t] = "SUSPEND" /\ pc[t] # "took"}
  /\ \A t \in Workers :
       /\ sched.stat[t] # "CLOSE"
       /\ sched.stat[t] = "SUSPEND" => pc[t] \in {"took", "serve", "poll"}
       /\ sched.stat[t] = "INIT" => pc[t] = IF t = Lcd THEN "boot" ELSE "wait"
       /\ sem[t].waiters = IF Waits(t) THEN <<t>> ELSE <<>>

(* The threads are started in order, and the LCD thread has built the list *)
(* of books before a page's thread exists.                                 *)
Booted ==
  /\ \A i \in 1..Len(StartOrder) : i <= started <=> sched.stat[StartOrder[i]] # "INIT"
  /\ sched.stat[Main] = "CLOSE" => started = Len(StartOrder)
  /\ book_head <=> pc[Lcd] # "boot"
  /\ BooksBeforePages
  /\ \A p \in PageSet : pc[p] # "boot"

Free == [value |-> 1, hold |-> 0, owner |-> Nobody, original |-> 255, waiters |-> <<>>]
Held(t) == [value |-> 0, hold |-> 1, owner |-> t, original |-> InitPriority[t], waiters |-> <<>>]

(* h has the screen, or it was released to h: h is past its semaphore, was *)
(* woken by a release, or will find the unit of one when it gets there.    *)
BatonAt(h) ==
  /\ \A t \in Workers \ {h} : pc[t] \in {"wait", "took"} /\ sem[t].value = 0 /\ ~Handed(t)
  /\ \/ pc[h] \notin {"wait", "took"} /\ sem[h].value = 0
     \/ Handed(h) /\ sem[h].value = 0
     \/ pc[h] = "wait" /\ sem[h].value = 1
  /\ pc[h] # "locked"
  /\ mutex = [m \in Mutex |-> IF pc[h] \in {"draw", "unlock"} THEN Held(h) ELSE Free]

Baton == \E h \in Workers : BatonAt(h)

Chosen == pc[Lcd] = "give" => lcd_index \in PageSet

Inv == Typed /\ Kernel /\ Asleep /\ Booted /\ Baton /\ Chosen

LEMMA Names ==
  /\ Workers \subseteq Thread \ {Idle, Main, Nobody}
  /\ Lcd \in Workers /\ PageSet = Workers \ {Lcd}
  /\ Thread = Workers \cup {Main, Idle}
  /\ Sem = Workers
  /\ Main \in Thread \ {Idle, Nobody}
  BY ThreadsAssumption, KernelAssumption DEF Workers, PageSet

(* main() starts every thread once, the LCD thread first.                  *)
LEMMA Order ==
  /\ Len(StartOrder) \in Nat
  /\ \A i \in 1..Len(StartOrder) : StartOrder[i] \in Workers
  /\ \A t \in Workers : \E i \in 1..Len(StartOrder) : StartOrder[i] = t
  /\ \A i, j \in 1..Len(StartOrder) : StartOrder[i] = StartOrder[j] => i = j
  /\ 1 \in 1..Len(StartOrder) /\ StartOrder[1] = Lcd
<1> DEFINE n == Len(Pages)
<1>1. Pages \in Seq(Workers) /\ <<Lcd>> \in Seq(Workers) /\ Len(<<Lcd>>) = 1 /\ <<Lcd>>[1] = Lcd
  <2>1. PageSet \subseteq Workers /\ Pages \in Seq(PageSet) /\ Lcd \in Workers
    BY Names, ThreadsAssumption DEF PageSet
  <2>2. Pages \in Seq(Workers)
    BY <2>1, SeqMonotonic
  <2> QED BY <2>1, <2>2
<1>2. n \in Nat /\ DOMAIN Pages = 1..n
  BY <1>1, LenProperties
<1>3. Len(StartOrder) = n + 1 /\ StartOrder[1] = Lcd /\ \A i \in 2..(n + 1) : StartOrder[i] = Pages[i - 1]
  <2>1. /\ Len(<<Lcd>> \o Pages) = 1 + n
        /\ \A i \in 1..(1 + n) : (<<Lcd>> \o Pages)[i] =
              IF i <= 1 THEN <<Lcd>>[i] ELSE Pages[i - 1]
    <3> HIDE DEF n
    <3>1. n = Len(Pages)
      BY DEF n
    <3>2. /\ Len(<<Lcd>> \o Pages) = Len(<<Lcd>>) + Len(Pages)
          /\ \A i \in 1..(Len(<<Lcd>>) + Len(Pages)) : (<<Lcd>> \o Pages)[i] =
              IF i <= Len(<<Lcd>>) THEN <<Lcd>>[i] ELSE Pages[i - Len(<<Lcd>>)]
      BY <1>1, ConcatProperties
    <3> QED BY <3>1, <3>2, <1>1
  <2> HIDE DEF n
  <2>2. \A i \in 2..(n + 1) : i \in 1..(1 + n) /\ ~(i <= 1)
    BY <1>2
  <2>3. 1 \in 1..(1 + n)
    BY <1>2
  <2> QED BY <1>1, <1>2, <2>1, <2>2, <2>3 DEF StartOrder
<1>4. \A i \in 1..n : Pages[i] \in PageSet
  BY <1>2 DEF PageSet, ToSet
<1>5. \A t \in PageSet : \E i \in 1..n : Pages[i] = t
  BY <1>2 DEF PageSet, ToSet
<1>6. \A i, j \in 1..n : Pages[i] = Pages[j] => i = j
  BY <1>2, ThreadsAssumption
<1> HIDE DEF n
<1>7. \A i \in 2..(n + 1) : i - 1 \in 1..n
  BY <1>2
<1>8. \A i \in 1..(n + 1) : i = 1 \/ i \in 2..(n + 1)
  BY <1>2
<1>9. ASSUME NEW t \in Workers PROVE \E i \in 1..(n + 1) : StartOrder[i] = t
  <2>1. CASE t = Lcd
    <3>1. 1 \in 1..(n + 1)
      BY <1>2
    <3> QED BY <2>1, <3>1, <1>3
  <2>2. CASE t # Lcd
    <3>1. PICK i \in 1..n : Pages[i] = t
      BY <2>2, <1>5, Names
    <3>2. i + 1 \in 2..(n + 1) /\ i + 1 \in 1..(n + 1) /\ (i + 1) - 1 = i
      BY <1>2
    <3> QED BY <3>1, <3>2, <1>3
  <2> QED BY <2>1, <2>2
<1>10. ASSUME NEW i \in 1..(n + 1), NEW j \in 1..(n + 1), StartOrder[i] = StartOrder[j] PROVE i = j
  <2>1. CASE i = 1 /\ j = 1
    BY <2>1
  <2>2. CASE i \in 2..(n + 1) /\ j \in 2..(n + 1)
    <3>1. i - 1 = j - 1
      BY <2>2, <1>3, <1>6, <1>7, <1>10
    <3> QED BY <3>1, <1>2
  <2>3. CASE ~(i = 1 <=> j = 1)
    BY <2>3, <1>3, <1>4, <1>7, <1>8, <1>10, Names
  <2> QED BY <2>1, <2>2, <2>3, <1>8
<1>11. ASSUME NEW i \in 1..(n + 1) PROVE StartOrder[i] \in Workers
  BY <1>3, <1>4, <1>7, <1>8, Names
<1>12. n + 1 \in Nat /\ 1 \in 1..(n + 1)
  BY <1>2
<1> QED BY <1>3, <1>9, <1>10, <1>11, <1>12

LEMMA InitInv == Init => Inv
<1> SUFFICES ASSUME Init PROVE Inv
  OBVIOUS
<1> DEFINE Up == {Main, Idle}
<1>1. Typed
  <2>1. <<>> \in Seq(Thread)
    BY EmptySeq
  <2>2. sem \in [Workers -> [value : Nat, waiters : Seq(Thread)]]
    <3>1. sem = [o \in Workers |-> [value |-> 0, waiters |-> <<>>]]
      BY Names DEF Init, KernelInit
    <3>2. [value |-> 0, waiters |-> <<>>] \in [value : Nat, waiters : Seq(Thread)]
      BY <2>1
    <3> QED BY <3>1, <3>2
  <2>3. pc \in [Workers -> Places]
    BY DEF Init, Places
  <2>4. started \in 0..Len(StartOrder)
    BY Order DEF Init
  <2> QED BY <2>2, <2>3, <2>4 DEF Init, Typed
<1>2. Kernel
  <2>2. ASSUME NEW p \in Priorities
        PROVE  LET S == {t \in Up : InitPriority[t] = p}
               IN  SetToSeq(S) \in Seq(Thread) /\ Once(SetToSeq(S)) /\ ToSet(SetToSeq(S)) = S
    <3> DEFINE S == {t \in Up : InitPriority[t] = p}
    <3>1. IsFiniteSet(Up)
      <4>1. IsFiniteSet({Main}) /\ Up = {Main} \cup {Idle}
        BY FS_Singleton
      <4> QED BY <4>1, FS_AddElement
    <3>2. S \in SUBSET Thread /\ IsFiniteSet(S)
      BY <3>1, FS_Subset, Names, KernelAssumption
    <3> HIDE DEF S
    <3>3. SetToSeq(S) \in Seq(Thread) /\ Once(SetToSeq(S)) /\ ToSet(SetToSeq(S)) = S
      BY <3>2, Listed
    <3> QED BY <3>3 DEF S
  <2>3. Fit(sched)
    <3>1. /\ sched.stat = [t \in Thread |-> IF t \in Up THEN "READY" ELSE "INIT"]
          /\ sched.table = [p \in Priorities |-> SetToSeq({t \in Up : InitPriority[t] = p})]
          /\ sched \in [stat : [Thread -> Stats], prio : [Thread -> Priorities], table : {sched.table},
                       cur : Thread, nest : Nat, armed : SUBSET Thread]
      BY Names, KernelAssumption DEF Init, KernelInit, Stats, Priorities
    <3>2. sched.table \in [Priorities -> Seq(Thread)]
      BY <2>2, <3>1
    <3>3. Up \subseteq Thread
      BY Names, KernelAssumption
    <3>4. ASSUME NEW p \in Priorities
          PROVE  /\ Once(sched.table[p])
                 /\ ToSet(sched.table[p]) = {t \in Thread : sched.stat[t] = "READY" /\ InitPriority[t] = p}
      <4>1. sched.table[p] = SetToSeq({t \in Up : InitPriority[t] = p})
        BY <3>1
      <4>2. \A t \in Thread : sched.stat[t] = "READY" <=> t \in Up
        BY <3>1
      <4>3. {t \in Up : InitPriority[t] = p} = {t \in Thread : sched.stat[t] = "READY" /\ InitPriority[t] = p}
        BY <3>3, <4>2
      <4> QED BY <2>2, <4>1, <4>3
    <3>5. sched.stat[Idle] = "READY"
      BY <3>1, <3>3
    <3>6. sched \in [stat : [Thread -> Stats], prio : [Thread -> Priorities],
                    table : [Priorities -> Seq(Thread)],
                    cur : Thread, nest : Nat, armed : SUBSET Thread]
      BY <3>1, <3>2
    <3>7. sched.prio = InitPriority
      BY DEF Init, KernelInit
    <3> QED BY <3>4, <3>5, <3>6, <3>7 DEF Fit
  <2>4. Picked(sched)
    BY Names, KernelAssumption DEF Init, KernelInit, Picked
  <2>5. sched.nest = 0 /\ sched.prio = InitPriority
    BY DEF Init, KernelInit
  <2> QED BY <2>3, <2>4, <2>5 DEF Kernel
<1>3. Asleep
  BY Names DEF Init, KernelInit, Asleep, Waits
<1>4. Booted
  BY Names, Order DEF Init, KernelInit, Booted, BooksBeforePages
<1>5. BatonAt(Lcd)
  BY Names DEF Init, KernelInit, BatonAt, Handed, Free, Held
<1> QED BY <1>1, <1>2, <1>3, <1>4, <1>5, Names DEF Inv, Baton, Chosen, Init

-----------------------------------------------------------------------------
(* Steps that leave the scheduler alone                                    *)

(* What Go and Running say of a state in which Inv holds.                  *)
LEMMA Goes ==
  ASSUME Inv, NEW t \in Workers, NEW from, NEW to, Go(t, from, to)
  PROVE  /\ sched.cur = t /\ sched.nest = 0 /\ sched.stat[t] = "READY" /\ pc[t] = from
         /\ pc'[t] = to /\ \A u \in Workers : u # t => pc'[u] = pc[u]
         /\ to \in Places => pc' \in [Workers -> Places]
  BY DEF Inv, Typed, Kernel, Picked, Go, Running

LEMMA Moved ==
  ASSUME Inv, NEW t \in Workers, NEW from, NEW to \in Places, Go(t, from, to),
         from # "boot", to # "boot",
         UNCHANGED <<sched, started, book_head>>,
         \A o \in Workers : sem'[o].waiters = sem[o].waiters
  PROVE  Kernel' /\ Asleep' /\ Booted'
<1>1. /\ sched.stat[t] = "READY" /\ pc[t] = from
      /\ pc'[t] = to /\ \A u \in Workers : u # t => pc'[u] = pc[u]
  BY Goes
<1>2. Kernel'
  BY DEF Inv, Kernel
<1>3. Asleep'
  <2>1. sched'.armed = {u \in Workers : sched'.stat[u] = "SUSPEND" /\ pc'[u] # "took"}
    BY <1>1 DEF Inv, Asleep
  <2>2. ASSUME NEW u \in Workers
        PROVE  /\ sched'.stat[u] # "CLOSE"
               /\ sched'.stat[u] = "SUSPEND" => pc'[u] \in {"took", "serve", "poll"}
               /\ sched'.stat[u] = "INIT" => pc'[u] = IF u = Lcd THEN "boot" ELSE "wait"
               /\ sem'[u].waiters = IF Waits(u)' THEN <<u>> ELSE <<>>
    BY <1>1 DEF Inv, Asleep, Waits
  <2> QED BY <2>1, <2>2 DEF Inv, Asleep
<1>4. Booted'
  BY <1>1, Names DEF Inv, Booted, BooksBeforePages
<1> QED BY <1>2, <1>3, <1>4

(* The thread that runs is past its semaphore: it is the one that has the  *)
(* screen.                                                                 *)
LEMMA Carrier ==
  ASSUME Inv, NEW t \in Workers, sched.stat[t] = "READY", pc[t] # "wait"
  PROVE  BatonAt(t) /\ sem[t].value = 0 /\ pc[t] # "locked"
  BY DEF Inv, Baton, BatonAt, Handed

(* It keeps the screen while it moves on to another place behind its       *)
(* semaphore.                                                              *)
LEMMA Keeps ==
  ASSUME NEW t \in Workers, BatonAt(t), NEW from, NEW to \in Places \ {"wait", "took", "locked"},
         \A u \in Workers : u # t => pc'[u] = pc[u], pc'[t] = to, sem[t].value = 0,
         \A u \in Workers : u # t => sched'.stat[u] = sched.stat[u],
         UNCHANGED sem,
         mutex' = [m \in Mutex |-> IF to \in {"draw", "unlock"} THEN Held(t) ELSE Free]
  PROVE  BatonAt(t)'
  BY DEF BatonAt, Handed, Held, Free

LEMMA BookSystemInitInv == ASSUME Inv, BookSystemInit PROVE Inv'
<1>1. Lcd \in Workers /\ Go(Lcd, "boot", "lock") /\ book_head'
      /\ UNCHANGED <<sched, sem, mutex, started, lcd_index, screen>>
  BY Names DEF BookSystemInit, kernel
<1>2. /\ sched.stat[Lcd] = "READY" /\ pc[Lcd] = "boot" /\ pc'[Lcd] = "lock"
      /\ \A u \in Workers : u # Lcd => pc'[u] = pc[u]
      /\ pc' \in [Workers -> Places]
  BY <1>1, Goes DEF Places
<1>3. Typed'
  BY <1>1, <1>2 DEF Inv, Typed
<1>4. Kernel'
  BY <1>1 DEF Inv, Kernel
<1>5. Asleep'
  <2>1. sched'.armed = {u \in Workers : sched'.stat[u] = "SUSPEND" /\ pc'[u] # "took"}
    BY <1>1, <1>2 DEF Inv, Asleep
  <2>2. ASSUME NEW u \in Workers
        PROVE  /\ sched'.stat[u] # "CLOSE"
               /\ sched'.stat[u] = "SUSPEND" => pc'[u] \in {"took", "serve", "poll"}
               /\ sched'.stat[u] = "INIT" => pc'[u] = IF u = Lcd THEN "boot" ELSE "wait"
               /\ sem'[u].waiters = IF Waits(u)' THEN <<u>> ELSE <<>>
    BY <1>1, <1>2 DEF Inv, Asleep, Waits
  <2> QED BY <1>1, <2>1, <2>2 DEF Inv, Asleep
<1>6. Booted'
  BY <1>1, <1>2, Names DEF Inv, Booted, BooksBeforePages
<1>7. BatonAt(Lcd) /\ sem[Lcd].value = 0
  BY <1>1, <1>2, Carrier
<1>8. mutex' = [m \in Mutex |-> IF "lock" \in {"draw", "unlock"} THEN Held(Lcd) ELSE Free]
  BY <1>1, <1>2, <1>7 DEF BatonAt
<1>9. BatonAt(Lcd)'
  BY <1>1, <1>2, <1>7, <1>8, Keeps DEF Places
<1> QED BY <1>1, <1>2, <1>3, <1>4, <1>5, <1>6, <1>9 DEF Inv, Baton, Chosen

LEMMA DrawInv == ASSUME Inv, NEW t \in Workers, Draw(t) PROVE Inv'
<1>1. Go(t, "draw", "unlock") /\ screen' = t
      /\ UNCHANGED <<sched, sem, mutex, started, book_head, lcd_index>>
  BY DEF Draw, kernel
<1>2. /\ sched.stat[t] = "READY" /\ pc[t] = "draw" /\ pc'[t] = "unlock"
      /\ \A u \in Workers : u # t => pc'[u] = pc[u]
      /\ pc' \in [Workers -> Places]
  BY <1>1, Goes DEF Places
<1>3. Typed'
  BY <1>1, <1>2 DEF Inv, Typed
<1>4. Kernel' /\ Asleep' /\ Booted'
  BY <1>1, Moved DEF Places
<1>5. BatonAt(t) /\ sem[t].value = 0
  BY <1>2, Carrier
<1>6. mutex' = [m \in Mutex |-> IF "unlock" \in {"draw", "unlock"} THEN Held(t) ELSE Free]
  BY <1>1, <1>2, <1>5 DEF BatonAt
<1>7. BatonAt(t)'
  BY <1>1, <1>2, <1>5, <1>6, Keeps DEF Places
<1>10. Chosen'
  BY <1>1, <1>2, Names DEF Inv, Chosen
<1> QED BY <1>3, <1>4, <1>7, <1>10 DEF Inv, Baton

LEMMA ServeInv == ASSUME Inv, NEW t \in Workers, Serve(t) PROVE Inv'
<1>1. Go(t, "serve", "poll") /\ screen' = t
      /\ UNCHANGED <<sched, sem, mutex, started, book_head, lcd_index>>
  BY DEF Serve, kernel
<1>2. /\ sched.stat[t] = "READY" /\ pc[t] = "serve" /\ pc'[t] = "poll"
      /\ \A u \in Workers : u # t => pc'[u] = pc[u]
      /\ pc' \in [Workers -> Places]
  BY <1>1, Goes DEF Places
<1>3. Typed'
  BY <1>1, <1>2 DEF Inv, Typed
<1>4. Kernel' /\ Asleep' /\ Booted'
  BY <1>1, Moved DEF Places
<1>5. BatonAt(t) /\ sem[t].value = 0
  BY <1>2, Carrier
<1>6. mutex' = [m \in Mutex |-> IF "poll" \in {"draw", "unlock"} THEN Held(t) ELSE Free]
  BY <1>1, <1>2, <1>5 DEF BatonAt
<1>7. BatonAt(t)'
  BY <1>1, <1>2, <1>5, <1>6, Keeps DEF Places
<1>10. Chosen'
  BY <1>1, <1>2, Names DEF Inv, Chosen
<1> QED BY <1>3, <1>4, <1>7, <1>10 DEF Inv, Baton

LEMMA TouchInv == ASSUME Inv, NEW t \in Workers, Touch(t) PROVE Inv'
<1>1. Go(t, "poll", "give") /\ lcd_index' \in PageSet \cup {Nobody}
      /\ (IF t = Lcd THEN lcd_index' \in PageSet ELSE lcd_index' = lcd_index)
      /\ UNCHANGED <<sched, sem, mutex, started, book_head, screen>>
  BY DEF Touch, kernel, Inv, Typed
<1>2. /\ sched.stat[t] = "READY" /\ pc[t] = "poll" /\ pc'[t] = "give"
      /\ \A u \in Workers : u # t => pc'[u] = pc[u]
      /\ pc' \in [Workers -> Places]
  BY <1>1, Goes DEF Places
<1>3. Typed'
  BY <1>1, <1>2 DEF Inv, Typed
<1>4. Kernel' /\ Asleep' /\ Booted'
  BY <1>1, Moved DEF Places
<1>5. BatonAt(t) /\ sem[t].value = 0
  BY <1>2, Carrier
<1>6. mutex' = [m \in Mutex |-> IF "give" \in {"draw", "unlock"} THEN Held(t) ELSE Free]
  BY <1>1, <1>2, <1>5 DEF BatonAt
<1>7. BatonAt(t)'
  BY <1>1, <1>2, <1>5, <1>6, Keeps DEF Places
<1>8. Chosen'
  BY <1>1, <1>2, Names DEF Inv, Chosen
<1> QED BY <1>3, <1>4, <1>7, <1>8 DEF Inv, Baton

(* Behind the rt_schedule() of a take that had to wait, the unit is there. *)
LEMMA ContinueInv == ASSUME Inv, NEW t \in Workers, Continue(t) PROVE Inv'
<1>0. sched.stat[t] = "READY" /\ pc[t] = "took"
  <2>1. sched.stat[t] = "READY" /\ pc[t] \in {"took", "locked"}
    BY DEF Continue, Go, Running, Inv, Kernel, Picked
  <2>2. pc[t] # "locked"
    BY <2>1, Carrier
  <2> QED BY <2>1, <2>2
<1>1. Go(t, "took", "lock")
      /\ UNCHANGED <<sched, sem, mutex, started, book_head, lcd_index, screen>>
  BY <1>0 DEF Continue, kernel
<1>2. /\ pc'[t] = "lock"
      /\ \A u \in Workers : u # t => pc'[u] = pc[u]
      /\ pc' \in [Workers -> Places]
  BY <1>1, Goes DEF Places
<1>3. Typed'
  BY <1>1, <1>2 DEF Inv, Typed
<1>4. Kernel' /\ Asleep' /\ Booted'
  BY <1>1, Moved DEF Places
<1>5. BatonAt(t) /\ sem[t].value = 0
  BY <1>0, Carrier
<1>6. mutex' = [m \in Mutex |-> IF "lock" \in {"draw", "unlock"} THEN Held(t) ELSE Free]
  BY <1>0, <1>1, <1>5 DEF BatonAt
<1>7. BatonAt(t)'
  BY <1>1, <1>2, <1>5, <1>6, Keeps DEF Places
<1>10. Chosen'
  BY <1>0, <1>1, <1>2, Names DEF Inv, Chosen
<1> QED BY <1>3, <1>4, <1>7, <1>10 DEF Inv, Baton

LEMMA MutexTypes == Free \in MutexType /\ \A t \in Thread : Held(t) \in MutexType
<1>1. <<>> \in Seq(Thread)
  BY EmptySeq
<1>2. \A t \in Thread : InitPriority[t] \in Nat
  BY KernelAssumption
<1> QED BY <1>1, <1>2 DEF Free, Held, MutexType

LEMMA SameMutex ==
  ASSUME NEW r \in MutexType, NEW q \in MutexType,
         r.value = q.value, r.hold = q.hold, r.owner = q.owner,
         r.original = q.original, r.waiters = q.waiters
  PROVE  r = q
  BY DEF MutexType

(* lcd_mutex is always free when it is taken.                              *)
LEMMA TakeMutexInv == ASSUME Inv, NEW t \in Workers, TakeMutex(t) PROVE Inv'
<1>0. sched.stat[t] = "READY" /\ pc[t] = "lock"
  BY DEF TakeMutex, Go, Running, Inv, Kernel, Picked
<1>5. BatonAt(t) /\ sem[t].value = 0
  BY <1>0, Carrier
<1>8. mutex[LcdMutex] = Free /\ mutex = [m \in Mutex |-> Free] /\ Mutex = {LcdMutex} /\ t # Nobody
  BY <1>0, <1>5, ThreadsAssumption, Names DEF BatonAt, LcdMutex
<1>1. Go(t, "lock", "draw")
      /\ UNCHANGED <<sched, sem, started, book_head, lcd_index, screen>>
      /\ mutex' = [m \in Mutex |-> Held(t)]
  <2>1. Go(t, "lock", "draw") /\ UNCHANGED <<sem, started, book_head, lcd_index, screen>>
        /\ rt_mutex_take(t, LcdMutex, RT_WAITING_FOREVER)
    BY <1>8 DEF TakeMutex, Free
  <2>2. /\ mutex' = [mutex EXCEPT ![LcdMutex].value = @ - 1, ![LcdMutex].hold = @ + 1,
                               ![LcdMutex].owner = t, ![LcdMutex].original = sched.prio[t]]
        /\ UNCHANGED sched
    BY <2>1, <1>8 DEF rt_mutex_take, Free
  <2>3. sched.prio[t] = InitPriority[t]
    BY DEF Inv, Kernel, Fit
  <2>4. mutex'[LcdMutex] = Held(t) /\ mutex' \in [Mutex -> MutexType]
    <3>1. mutex \in [Mutex -> MutexType] /\ InitPriority[t] \in Nat /\ Held(t) \in MutexType
      BY <1>8, MutexTypes, KernelAssumption, Names
    <3>6. mutex' = [mutex EXCEPT ![LcdMutex].value = 0, ![LcdMutex].hold = 1,
                                 ![LcdMutex].owner = t, ![LcdMutex].original = InitPriority[t]]
      BY <2>2, <2>3, <3>1, <1>8 DEF Free
    <3>7. LcdMutex \in Mutex /\ t \in Thread \cup {Nobody} /\ mutex[LcdMutex].waiters = <<>>
      BY <1>8, Names DEF Free
    <3>2. /\ mutex' \in [Mutex -> MutexType]
          /\ mutex'[LcdMutex].value = 0 /\ mutex'[LcdMutex].hold = 1
          /\ mutex'[LcdMutex].owner = t /\ mutex'[LcdMutex].original = InitPriority[t]
          /\ mutex'[LcdMutex].waiters = mutex[LcdMutex].waiters
      <4>1. 0 \in Nat /\ 1 \in Nat /\ 255 \in Nat /\ Nobody \in Thread \cup {Nobody}
        OBVIOUS
      <4>2. MutexHas(mutex', LcdMutex, 0, 1, t, InitPriority[t], mutex[LcdMutex].waiters)
        BY <3>1, <3>6, <3>7, <4>1, MutexUpdated
      <4> QED BY <4>2 DEF MutexHas
    <3>3. /\ mutex'[LcdMutex].value = 0 /\ mutex'[LcdMutex].hold = 1
          /\ mutex'[LcdMutex].owner = t /\ mutex'[LcdMutex].original = InitPriority[t]
          /\ mutex'[LcdMutex].waiters = <<>>
      BY <3>2, <3>7
    <3>4. mutex'[LcdMutex] \in MutexType
      BY <3>2, <1>8
    <3>5. mutex'[LcdMutex] = Held(t)
      BY <3>1, <3>3, <3>4, SameMutex DEF Held
    <3> QED BY <3>2, <3>5
  <2>5. mutex' = [m \in Mutex |-> mutex'[LcdMutex]]
    BY <2>4, <1>8
  <2> QED BY <2>1, <2>2, <2>4, <2>5
<1>2. /\ pc'[t] = "draw"
      /\ \A u \in Workers : u # t => pc'[u] = pc[u]
      /\ pc' \in [Workers -> Places]
  BY <1>1, Goes DEF Places
<1>3. Typed'
  BY <1>1, <1>2 DEF Inv, Typed
<1>4. Kernel' /\ Asleep' /\ Booted'
  BY <1>1, Moved DEF Places
<1>6. mutex' = [m \in Mutex |-> IF "draw" \in {"draw", "unlock"} THEN Held(t) ELSE Free]
  BY <1>1, <1>8
<1>7. BatonAt(t)'
  BY <1>1, <1>2, <1>5, <1>6, Keeps DEF Places
<1>10. Chosen'
  BY <1>0, <1>1, <1>2, Names DEF Inv, Chosen
<1> QED BY <1>3, <1>4, <1>7, <1>10 DEF Inv, Baton

(* Nobody waits for it when it is released, and nothing was lent.          *)
LEMMA ReleaseMutexInv == ASSUME Inv, NEW t \in Workers, ReleaseMutex(t) PROVE Inv'
<1> DEFINE to == IF t = Lcd THEN "poll" ELSE "serve"
<1>0. sched.stat[t] = "READY" /\ pc[t] = "unlock"
  BY DEF ReleaseMutex, Go, Running, Inv, Kernel, Picked
<1>5. BatonAt(t) /\ sem[t].value = 0
  BY <1>0, Carrier
<1>8. mutex[LcdMutex] = Held(t) /\ mutex = [m \in Mutex |-> Held(t)] /\ Mutex = {LcdMutex} /\ t # Nobody
  BY <1>0, <1>5, ThreadsAssumption, Names DEF BatonAt, LcdMutex
<1>1. Go(t, "unlock", to)
      /\ UNCHANGED <<sched, sem, started, book_head, lcd_index, screen>>
      /\ mutex' = [m \in Mutex |-> Free]
  <2>1. Go(t, "unlock", to) /\ UNCHANGED <<sem, started, book_head, lcd_index, screen>>
        /\ rt_mutex_release(t, LcdMutex)
    BY DEF ReleaseMutex
  <2>3. Restore(t, LcdMutex) = sched
    BY <1>8 DEF Inv, Kernel, Fit, Restore, Held
  <2>2. /\ mutex' = [mutex EXCEPT ![LcdMutex].value = @ + 1, ![LcdMutex].hold = 0,
                               ![LcdMutex].owner = Nobody, ![LcdMutex].original = 255]
        /\ UNCHANGED sched
    BY <2>1, <2>3, <1>8 DEF rt_mutex_release, Held
  <2>4. mutex'[LcdMutex] = Free /\ mutex' \in [Mutex -> MutexType]
    <3>1. mutex \in [Mutex -> MutexType] /\ Free \in MutexType
      BY <1>8, MutexTypes, Names
    <3>6. mutex' = [mutex EXCEPT ![LcdMutex].value = 1, ![LcdMutex].hold = 0,
                                 ![LcdMutex].owner = Nobody, ![LcdMutex].original = 255]
      BY <2>2, <3>1, <1>8 DEF Held
    <3>7. LcdMutex \in Mutex /\ mutex[LcdMutex].waiters = <<>>
      BY <1>8 DEF Held
    <3>2. /\ mutex' \in [Mutex -> MutexType]
          /\ mutex'[LcdMutex].value = 1 /\ mutex'[LcdMutex].hold = 0
          /\ mutex'[LcdMutex].owner = Nobody /\ mutex'[LcdMutex].original = 255
          /\ mutex'[LcdMutex].waiters = mutex[LcdMutex].waiters
      <4>1. 0 \in Nat /\ 1 \in Nat /\ 255 \in Nat /\ Nobody \in Thread \cup {Nobody}
        OBVIOUS
      <4>2. MutexHas(mutex', LcdMutex, 1, 0, Nobody, 255, mutex[LcdMutex].waiters)
        BY <3>1, <3>6, <3>7, <4>1, MutexUpdated
      <4> QED BY <4>2 DEF MutexHas
    <3>3. /\ mutex'[LcdMutex].value = 1 /\ mutex'[LcdMutex].hold = 0
          /\ mutex'[LcdMutex].owner = Nobody /\ mutex'[LcdMutex].original = 255
          /\ mutex'[LcdMutex].waiters = <<>>
      BY <3>2, <3>7
    <3>4. mutex'[LcdMutex] \in MutexType
      BY <3>2, <1>8
    <3>5. mutex'[LcdMutex] = Free
      BY <3>1, <3>3, <3>4, SameMutex DEF Free
    <3> QED BY <3>2, <3>5
  <2>5. mutex' = [m \in Mutex |-> mutex'[LcdMutex]]
    BY <2>4, <1>8
  <2> QED BY <2>1, <2>2, <2>4, <2>5
<1>9. to \in Places \ {"boot", "wait", "took", "locked", "draw", "unlock", "give"}
  BY DEF Places
<1> HIDE DEF to
<1>2. /\ pc'[t] = to
      /\ \A u \in Workers : u # t => pc'[u] = pc[u]
      /\ pc' \in [Workers -> Places]
  BY <1>1, <1>9, Goes
<1>3. Typed'
  BY <1>1, <1>2 DEF Inv, Typed
<1>4. Kernel' /\ Asleep' /\ Booted'
  BY <1>1, <1>9, Moved
<1>6. mutex' = [m \in Mutex |-> IF to \in {"draw", "unlock"} THEN Held(t) ELSE Free]
  BY <1>1, <1>8, <1>9
<1>7. BatonAt(t)'
  BY <1>1, <1>2, <1>5, <1>6, <1>9, Keeps
<1>10. Chosen'
  BY <1>1, <1>2, <1>9, Names DEF Inv, Chosen
<1> QED BY <1>3, <1>4, <1>7, <1>10 DEF Inv, Baton

-----------------------------------------------------------------------------
(* Steps that schedule                                                     *)

(* The step gave t the status x, and changed no other.                     *)
Status(t, x) == sched'.stat = [sched.stat EXCEPT ![t] = x]

(* The right thread runs after it, and nobody's status has changed.        *)
LEMMA Rescheduled ==
  ASSUME Inv, Fit(sched'), Picked(sched'), sched'.nest \in {0, 1},
         sched'.stat = sched.stat, sched'.prio = sched.prio, sched'.armed = sched.armed,
         UNCHANGED <<sem, mutex, pc, started, book_head, lcd_index, screen>>
  PROVE  Inv'
<1>1. Typed' /\ Kernel' /\ Chosen'
  BY DEF Inv, Typed, Kernel, Chosen
<1>2. Asleep' /\ Booted'
  BY DEF Inv, Asleep, Waits, Booted, BooksBeforePages
<1>3. Baton'
  BY DEF Inv, Baton, BatonAt, Handed
<1> QED BY <1>1, <1>2, <1>3 DEF Inv

LEMMA TimeSliceInv == ASSUME Inv, TimeSlice PROVE Inv' /\ sched'.stat = sched.stat
<1>1. rt_thread_yield(sched) = sched \/ Dispatched(sched, rt_thread_yield(sched))
  BY Yielded DEF Inv, Kernel, Picked
<1>2. /\ sched' = rt_thread_yield(sched)
      /\ UNCHANGED <<sem, mutex, pc, started, book_head, lcd_index, screen>>
  BY DEF TimeSlice
<1>3. /\ Fit(sched') /\ Picked(sched') /\ sched'.stat = sched.stat
      /\ sched'.prio = sched.prio /\ sched'.armed = sched.armed /\ sched'.nest = sched.nest
  BY <1>1, <1>2 DEF Dispatched, Inv, Kernel
<1>4. sched'.nest \in {0, 1}
  BY <1>3 DEF Inv, Kernel
<1> QED BY <1>2, <1>3, <1>4, Rescheduled

LEMMA BusyWaitInv == ASSUME Inv, NEW t \in Workers, BusyWait(t) PROVE Inv' /\ sched'.stat = sched.stat
<1>1. /\ sched' = [sched EXCEPT !.nest = 1] /\ sched.nest = 0
      /\ UNCHANGED <<sem, mutex, pc, started, book_head, lcd_index, screen>>
  BY DEF BusyWait, Running, rt_enter_critical
<1>2. /\ sched'.stat = sched.stat /\ sched'.prio = sched.prio /\ sched'.armed = sched.armed
      /\ sched'.nest = 1 /\ Fit(sched') /\ sched'.cur = sched.cur
  BY <1>1 DEF Inv, Kernel, Fit
<1>3. Picked(sched')
  BY <1>2 DEF Inv, Kernel, Picked
<1> QED BY <1>1, <1>2, <1>3, Rescheduled

LEMMA BusyWaitEndsInv == ASSUME Inv, BusyWaitEnds PROVE Inv' /\ sched'.stat = sched.stat
<1>1. /\ sched' = rt_exit_critical(sched) /\ sched.nest = 1
      /\ UNCHANGED <<sem, mutex, pc, started, book_head, lcd_index, screen>>
  BY DEF BusyWaitEnds, Inv, Kernel
<1>2. LET r == rt_exit_critical(sched)
      IN  /\ Fit(r) /\ Picked(r) /\ r.stat = sched.stat /\ r.prio = sched.prio
          /\ r.armed = sched.armed /\ r.nest = 0
  BY <1>1, Unlocked DEF Inv, Kernel
<1> QED BY <1>1, <1>2, Rescheduled

(* The timer of a sleep makes its thread ready.                            *)
LEMMA WakeInv == ASSUME Inv, NEW t \in Workers, Wake(t) PROVE Inv' /\ Status(t, "READY")
<1>1. /\ sched.stat[t] = "SUSPEND" /\ pc[t] # "took" /\ t \in Thread
      /\ sched' = rt_thread_timeout(sched, t)
      /\ UNCHANGED <<sem, mutex, pc, started, book_head, lcd_index, screen>>
  BY Names DEF Wake, Inv, Asleep
<1>2. Effect(sched, rt_thread_timeout(sched, t), t, "READY", sched.armed \ {t})
  BY <1>1, Woken DEF Inv, Kernel, Picked
<1>3. /\ Fit(sched') /\ Picked(sched')
      /\ sched'.nest = sched.nest /\ sched'.prio = sched.prio
      /\ sched'.stat = [sched.stat EXCEPT ![t] = "READY"]
      /\ sched'.armed = sched.armed \ {t}
  BY <1>1, <1>2 DEF Effect
<1>4. sched'.stat[t] = "READY" /\ \A u \in Thread : u # t => sched'.stat[u] = sched.stat[u]
  BY <1>1, <1>3 DEF Inv, Kernel, Fit
<1>5. Typed' /\ Chosen' /\ Kernel'
  BY <1>1, <1>3 DEF Inv, Typed, Kernel, Chosen
<1>6. Asleep'
  <2>1. sched'.armed = {u \in Workers : sched'.stat[u] = "SUSPEND" /\ pc'[u] # "took"}
    BY <1>1, <1>3, <1>4, Names DEF Inv, Asleep
  <2>2. ASSUME NEW u \in Workers
        PROVE  /\ sched'.stat[u] # "CLOSE"
               /\ sched'.stat[u] = "SUSPEND" => pc'[u] \in {"took", "serve", "poll"}
               /\ sched'.stat[u] = "INIT" => pc'[u] = IF u = Lcd THEN "boot" ELSE "wait"
               /\ sem'[u].waiters = IF Waits(u)' THEN <<u>> ELSE <<>>
    BY <1>1, <1>4, Names DEF Inv, Asleep, Waits
  <2> QED BY <1>4, <2>1, <2>2, Names DEF Inv, Asleep
<1>7. Booted'
  BY <1>1, <1>4, Names, Order DEF Inv, Booted, BooksBeforePages
<1>8. Baton'
  BY <1>1, <1>4, Names DEF Inv, Baton, BatonAt, Handed
<1> QED BY <1>3, <1>5, <1>6, <1>7, <1>8 DEF Inv, Status

LEMMA NapInv == ASSUME Inv, NEW t \in Workers, Nap(t) PROVE Inv' /\ Status(t, "SUSPEND")
<1> DEFINE to == IF t = Lcd THEN "poll" ELSE "serve"
<1>1. /\ Go(t, "poll", to)
      /\ sched' = rt_thread_delay(sched, t)
      /\ UNCHANGED <<sem, mutex, started, book_head, lcd_index, screen>>
  BY DEF Nap
<1>2. to \in {"poll", "serve"} /\ to \in Places
  BY DEF Places
<1> HIDE DEF to
<1>3. /\ sched.stat[t] = "READY" /\ sched.nest = 0 /\ pc[t] = "poll" /\ pc'[t] = to
      /\ \A u \in Workers : u # t => pc'[u] = pc[u]
      /\ pc' \in [Workers -> Places]
  BY <1>1, <1>2, Goes
<1>4. t \in Thread \ {Idle}
  BY Names
<1>5. Effect(sched, rt_thread_delay(sched, t), t, "SUSPEND", sched.armed \cup {t})
  BY <1>3, <1>4, Delayed DEF Inv, Kernel
<1>6. /\ Fit(sched') /\ Picked(sched')
      /\ sched'.nest = sched.nest /\ sched'.prio = sched.prio
      /\ sched'.stat = [sched.stat EXCEPT ![t] = "SUSPEND"]
      /\ sched'.armed = sched.armed \cup {t}
  BY <1>1, <1>5 DEF Effect
<1>7. sched'.stat[t] = "SUSPEND" /\ \A u \in Thread : u # t => sched'.stat[u] = sched.stat[u]
  BY <1>4, <1>6 DEF Inv, Kernel, Fit
<1>8. Typed' /\ Kernel'
  BY <1>1, <1>3, <1>6 DEF Inv, Typed, Kernel
<1>9. Chosen'
  BY <1>1, <1>2, <1>3, Names DEF Inv, Chosen
<1>10. Asleep'
  <2>1. sched'.armed = {u \in Workers : sched'.stat[u] = "SUSPEND" /\ pc'[u] # "took"}
    BY <1>1, <1>2, <1>3, <1>6, <1>7, Names DEF Inv, Asleep
  <2>2. ASSUME NEW u \in Workers
        PROVE  /\ sched'.stat[u] # "CLOSE"
               /\ sched'.stat[u] = "SUSPEND" => pc'[u] \in {"took", "serve", "poll"}
               /\ sched'.stat[u] = "INIT" => pc'[u] = IF u = Lcd THEN "boot" ELSE "wait"
               /\ sem'[u].waiters = IF Waits(u)' THEN <<u>> ELSE <<>>
    BY <1>1, <1>2, <1>3, <1>7, Names DEF Inv, Asleep, Waits
  <2> QED BY <1>7, <2>1, <2>2, Names DEF Inv, Asleep
<1>11. Booted'
  BY <1>1, <1>2, <1>3, <1>7, Names, Order DEF Inv, Booted, BooksBeforePages
<1>12. BatonAt(t) /\ sem[t].value = 0
  BY <1>3, Carrier
<1>13. mutex' = [m \in Mutex |-> IF to \in {"draw", "unlock"} THEN Held(t) ELSE Free]
  BY <1>1, <1>2, <1>3, <1>12 DEF BatonAt
<1>14. BatonAt(t)'
  <2>1. \A u \in Workers : u # t => sched'.stat[u] = sched.stat[u]
    BY <1>7, Names
  <2>2. to \in Places \ {"wait", "took", "locked"}
    BY <1>2
  <2> QED BY <1>1, <1>3, <1>12, <1>13, <2>1, <2>2, Keeps
<1> QED BY <1>6, <1>8, <1>9, <1>10, <1>11, <1>14 DEF Inv, Baton, Status

(* main() starts the next thread.  If that is a page's, main() would not   *)
(* run if the LCD thread, which is more urgent, were still to build the    *)
(* list of books.                                                          *)
LEMMA StartNextInv == ASSUME Inv, StartNext PROVE Inv' /\ Status(StartOrder[started + 1], "READY")
<1> DEFINE t == StartOrder[started + 1]
<1>1. /\ sched.cur = Main /\ sched.nest = 0 /\ started < Len(StartOrder)
      /\ started' = started + 1
      /\ sched' = rt_thread_startup(sched, t)
      /\ UNCHANGED <<sem, mutex, pc, book_head, lcd_index, screen>>
  BY DEF StartNext, Running
<1>2. started \in Nat /\ started + 1 \in 1..Len(StartOrder)
  BY <1>1, Order DEF Inv, Typed
<1>3. t \in Workers /\ t \in Thread /\ sched.stat[t] = "INIT"
  <2>1. ~(started + 1 <= started)
    BY <1>2
  <2>2. t \in Workers
    BY <1>2, Order
  <2> QED BY <1>2, <2>1, <2>2, Names DEF Inv, Booted
<1>4. t # Lcd => book_head
  <2> SUFFICES ASSUME t # Lcd PROVE book_head
    OBVIOUS
  <2>1. 1 \in 1..Len(StartOrder) /\ StartOrder[1] = Lcd /\ 1 <= started
    <3>1. started + 1 # 1
      BY Order
    <3> QED BY <3>1, <1>2, Order
  <2>2. sched.stat[Lcd] # "INIT"
    BY <2>1 DEF Inv, Booted
  <2>3. sched.stat[Lcd] # "READY"
    <3>1. InitPriority[Lcd] < InitPriority[Main] /\ InitPriority[Lcd] \in Nat /\ InitPriority[Main] \in Nat
      BY ThreadsAssumption, KernelAssumption, Names
    <3>2. sched.stat[Lcd] = "READY" => InitPriority[Main] <= InitPriority[Lcd]
      BY <1>1, Names DEF Inv, Kernel, Picked
    <3> QED BY <3>1, <3>2
  <2>4. sched.stat[Lcd] \in Stats
    BY Names DEF Inv, Kernel, Fit
  <2>5. sched.stat[Lcd] = "SUSPEND"
    BY <2>2, <2>3, <2>4, Names DEF Inv, Asleep, Stats
  <2> QED BY <2>5, Names DEF Inv, Asleep, Booted
<1> HIDE DEF t
<1>5. Effect(sched, rt_thread_startup(sched, t), t, "READY", sched.armed \ {t})
  BY <1>1, <1>3, StartUp DEF Inv, Kernel
<1>6. /\ Fit(sched') /\ Picked(sched')
      /\ sched'.nest = sched.nest /\ sched'.prio = sched.prio
      /\ sched'.stat = [sched.stat EXCEPT ![t] = "READY"]
      /\ sched'.armed = sched.armed \ {t}
  BY <1>1, <1>5 DEF Effect
<1>7. sched'.stat[t] = "READY" /\ \A u \in Thread : u # t => sched'.stat[u] = sched.stat[u]
  BY <1>3, <1>6 DEF Inv, Kernel, Fit
<1>8. Typed' /\ Kernel' /\ Chosen'
  BY <1>1, <1>2, <1>6 DEF Inv, Typed, Kernel, Chosen
<1>9. Asleep'
  <2>1. sched'.armed = {u \in Workers : sched'.stat[u] = "SUSPEND" /\ pc'[u] # "took"}
    BY <1>1, <1>3, <1>6, <1>7, Names DEF Inv, Asleep
  <2>2. ASSUME NEW u \in Workers
        PROVE  /\ sched'.stat[u] # "CLOSE"
               /\ sched'.stat[u] = "SUSPEND" => pc'[u] \in {"took", "serve", "poll"}
               /\ sched'.stat[u] = "INIT" => pc'[u] = IF u = Lcd THEN "boot" ELSE "wait"
               /\ sem'[u].waiters = IF Waits(u)' THEN <<u>> ELSE <<>>
    BY <1>1, <1>3, <1>7, Names DEF Inv, Asleep, Waits
  <2> QED BY <1>3, <1>7, <2>1, <2>2, Names DEF Inv, Asleep
<1>10. Booted'
  <2>1. \A i \in 1..Len(StartOrder) : i <= started' <=> sched'.stat[StartOrder[i]] # "INIT"
    <3>1. ASSUME NEW i \in 1..Len(StartOrder)
          PROVE  i <= started' <=> sched'.stat[StartOrder[i]] # "INIT"
      <4>1. StartOrder[i] \in Thread /\ (i <= started <=> sched.stat[StartOrder[i]] # "INIT")
        BY Order, Names DEF Inv, Booted
      <4>2. CASE i = started + 1
        BY <4>2, <1>1, <1>2, <1>7 DEF t
      <4>3. CASE i # started + 1
        <5>1. StartOrder[i] # t
          BY <4>3, <1>2, Order DEF t
        <5>2. i <= started + 1 <=> i <= started
          BY <4>3, <1>2
        <5> QED BY <1>1, <1>7, <4>1, <5>1, <5>2
      <4> QED BY <4>2, <4>3
    <3> QED BY <3>1
  <2>2. sched'.stat[Main] = "READY"
    BY <1>1, <1>3, <1>7, Names DEF Inv, Kernel, Picked
  <2>3. \A p \in PageSet : sched'.stat[p] # "INIT" => book_head'
    BY <1>1, <1>4, <1>7, Names DEF Inv, Booted, BooksBeforePages
  <2> QED BY <1>1, <2>1, <2>2, <2>3 DEF Inv, Booted, BooksBeforePages
<1>11. Baton'
  <2>1. pc[t] # "took"
    BY <1>3, Names DEF Inv, Asleep
  <2>2. PICK h \in Workers : BatonAt(h)
    BY DEF Inv, Baton
  <2>3. \A u \in Workers : Handed(u)' = Handed(u)
    BY <1>1, <1>7, <2>1, Names DEF Handed
  <2>4. BatonAt(h)'
    BY <1>1, <2>2, <2>3 DEF BatonAt, Held, Free
  <2> QED BY <2>4 DEF Baton
<1> QED BY <1>6, <1>8, <1>9, <1>10, <1>11 DEF Inv, Status, t

LEMMA MainReturnsInv == ASSUME Inv, MainReturns PROVE Inv' /\ Status(Main, "CLOSE")
<1>1. /\ sched.cur = Main /\ sched.nest = 0 /\ started = Len(StartOrder)
      /\ sched' = rt_thread_exit(sched, Main)
      /\ UNCHANGED <<sem, mutex, pc, started, book_head, lcd_index, screen>>
  BY DEF MainReturns, Running
<1>2. sched.stat[Main] = "READY" /\ Main \in Thread \ {Idle}
  BY <1>1, Names DEF Inv, Kernel, Picked
<1>5. Effect(sched, rt_thread_exit(sched, Main), Main, "CLOSE", sched.armed \ {Main})
  BY <1>1, <1>2, Exited DEF Inv, Kernel
<1>6. /\ Fit(sched') /\ Picked(sched')
      /\ sched'.nest = sched.nest /\ sched'.prio = sched.prio
      /\ sched'.stat = [sched.stat EXCEPT ![Main] = "CLOSE"]
      /\ sched'.armed = sched.armed \ {Main}
  BY <1>1, <1>5 DEF Effect
<1>7. sched'.stat[Main] = "CLOSE" /\ \A u \in Workers : sched'.stat[u] = sched.stat[u]
  BY <1>2, <1>6, Names DEF Inv, Kernel, Fit
<1>8. Typed' /\ Kernel' /\ Chosen'
  BY <1>1, <1>6 DEF Inv, Typed, Kernel, Chosen
<1>9. Asleep'
  <2>1. sched'.armed = {u \in Workers : sched'.stat[u] = "SUSPEND" /\ pc'[u] # "took"}
    BY <1>1, <1>6, <1>7, Names DEF Inv, Asleep
  <2>2. ASSUME NEW u \in Workers
        PROVE  /\ sched'.stat[u] # "CLOSE"
               /\ sched'.stat[u] = "SUSPEND" => pc'[u] \in {"took", "serve", "poll"}
               /\ sched'.stat[u] = "INIT" => pc'[u] = IF u = Lcd THEN "boot" ELSE "wait"
               /\ sem'[u].waiters = IF Waits(u)' THEN <<u>> ELSE <<>>
    BY <1>1, <1>7 DEF Inv, Asleep, Waits
  <2> QED BY <1>7, <2>1, <2>2 DEF Asleep
<1>10. Booted'
  BY <1>1, <1>7, Order, Names DEF Inv, Booted, BooksBeforePages
<1>11. Baton'
  <2>1. PICK h \in Workers : BatonAt(h)
    BY DEF Inv, Baton
  <2>2. BatonAt(h)'
    BY <1>1, <1>7, <2>1 DEF BatonAt, Handed, Held, Free
  <2> QED BY <2>2 DEF Baton
<1> QED BY <1>6, <1>8, <1>9, <1>10, <1>11 DEF Inv, Status

-----------------------------------------------------------------------------
(* Semaphores                                                              *)

LEMMA TakeSemInv == ASSUME Inv, NEW t \in Workers, TakeSem(t) PROVE Inv' /\ (sem[t].value = 0 => Status(t, "SUSPEND"))
<1>1. /\ Go(t, "wait", IF sem[t].value > 0 THEN "lock" ELSE "took")
      /\ rt_sem_take(t, t)
      /\ UNCHANGED <<mutex, started, book_head, lcd_index, screen>>
  BY DEF TakeSem
<1>2. /\ sched.stat[t] = "READY" /\ sched.nest = 0 /\ pc[t] = "wait"
      /\ \A u \in Workers : u # t => pc'[u] = pc[u]
  BY <1>1, Goes
<1>3. /\ sem[t].value \in Nat /\ sem[t].waiters = <<>>
      /\ sem \in [Workers -> [value : Nat, waiters : Seq(Thread)]]
  BY <1>2 DEF Inv, Typed, Asleep, Waits
<1>4. CASE sem[t].value > 0
  \* The unit is the screen.
  <2>1. Go(t, "wait", "lock") /\ sem' = [sem EXCEPT ![t].value = @ - 1] /\ UNCHANGED sched
    BY <1>1, <1>3, <1>4 DEF rt_sem_take
  <2>2. BatonAt(t) /\ sem[t].value = 1
    BY <1>2, <1>4 DEF Inv, Baton, BatonAt, Handed
  <2>3. /\ sem' \in [Workers -> [value : Nat, waiters : Seq(Thread)]]
        /\ sem'[t].value = 0
        /\ \A u \in Workers : u # t => sem'[u] = sem[u]
        /\ \A u \in Workers : sem'[u].waiters = sem[u].waiters
    <3>1. sem' = [sem EXCEPT ![t].value = 0]
      BY <1>3, <2>1, <2>2
    <3> QED BY <1>3, <3>1
  <2>4. pc'[t] = "lock" /\ pc' \in [Workers -> Places]
    BY <2>1, Goes DEF Places
  <2>5. Kernel' /\ Asleep' /\ Booted'
    BY <1>1, <2>1, <2>3, Moved DEF Places
  <2>6. Typed' /\ Chosen'
    BY <1>1, <1>2, <2>3, <2>4, Names DEF Inv, Typed, Chosen
  <2>7. BatonAt(t)'
    BY <1>1, <1>2, <2>1, <2>2, <2>3, <2>4 DEF BatonAt, Handed, Held, Free
  <2> QED BY <1>4, <2>5, <2>6, <2>7 DEF Inv, Baton
<1>5. CASE sem[t].value = 0
  \* Another thread has it, and keeps it.
  <2>1. /\ Go(t, "wait", "took")
        /\ sem' = [sem EXCEPT ![t].waiters = Enqueue(sched, @, t)]
        /\ sched' = rt_schedule(rt_thread_suspend(sched, t))
    BY <1>1, <1>5 DEF rt_sem_take
  <2>2. Enqueue(sched, <<>>, t) = <<t>>
    BY DEF Enqueue
  <2>3. t \in Thread \ {Idle}
    BY Names
  <2>4. /\ sem' \in [Workers -> [value : Nat, waiters : Seq(Thread)]]
        /\ sem'[t].waiters = <<t>>
        /\ \A u \in Workers : u # t => sem'[u] = sem[u]
        /\ \A u \in Workers : sem'[u].value = sem[u].value
    <3>1. <<t>> \in Seq(Thread)
      BY <2>3
    <3>2. sem' = [sem EXCEPT ![t].waiters = <<t>>]
      BY <1>3, <2>1, <2>2
    <3> QED BY <1>3, <3>1, <3>2
  <2>5. pc'[t] = "took" /\ pc' \in [Workers -> Places]
    BY <2>1, Goes DEF Places
  <2>6. Effect(sched, rt_schedule(rt_thread_suspend(sched, t)), t, "SUSPEND", sched.armed \ {t})
    BY <1>2, <2>3, Blocked DEF Inv, Kernel
  <2>7. /\ Fit(sched') /\ Picked(sched')
        /\ sched'.nest = sched.nest /\ sched'.prio = sched.prio
        /\ sched'.stat = [sched.stat EXCEPT ![t] = "SUSPEND"]
        /\ sched'.armed = sched.armed \ {t}
    BY <2>1, <2>6 DEF Effect
  <2>8. sched'.stat[t] = "SUSPEND" /\ \A u \in Thread : u # t => sched'.stat[u] = sched.stat[u]
    BY <2>3, <2>7 DEF Inv, Kernel, Fit
  <2>9. Typed' /\ Kernel' /\ Chosen'
    BY <1>1, <1>2, <2>4, <2>5, <2>7, Names DEF Inv, Typed, Kernel, Chosen
  <2>10. Asleep'
    <3>1. sched'.armed = {u \in Workers : sched'.stat[u] = "SUSPEND" /\ pc'[u] # "took"}
      BY <1>2, <2>5, <2>7, <2>8, Names DEF Inv, Asleep
    <3>2. ASSUME NEW u \in Workers
          PROVE  /\ sched'.stat[u] # "CLOSE"
                 /\ sched'.stat[u] = "SUSPEND" => pc'[u] \in {"took", "serve", "poll"}
                 /\ sched'.stat[u] = "INIT" => pc'[u] = IF u = Lcd THEN "boot" ELSE "wait"
                 /\ sem'[u].waiters = IF Waits(u)' THEN <<u>> ELSE <<>>
      BY <1>2, <2>4, <2>5, <2>8, Names DEF Inv, Asleep, Waits
    <3> QED BY <2>3, <2>8, <3>1, <3>2, Names DEF Inv, Asleep
  <2>11. Booted'
    BY <1>1, <1>2, <2>3, <2>5, <2>8, Names, Order DEF Inv, Booted, BooksBeforePages
  <2>12. PICK h \in Workers : BatonAt(h)
    BY DEF Inv, Baton
  <2>13. h # t
    BY <1>2, <1>5, <2>12 DEF BatonAt, Handed
  <2>14. BatonAt(h)'
    <3>1. \A u \in Workers : u # t => (Handed(u)' <=> Handed(u))
      BY <1>2, <2>3, <2>8, Names DEF Handed
    <3>2. ~Handed(t)'
      BY <2>8 DEF Handed
    <3>3. \A u \in Workers \ {h} : pc'[u] \in {"wait", "took"} /\ sem'[u].value = 0 /\ ~Handed(u)'
      BY <1>2, <2>4, <2>5, <2>12, <3>1, <3>2 DEF BatonAt
    <3>4. pc'[h] = pc[h] /\ sem'[h].value = sem[h].value /\ (Handed(h)' <=> Handed(h))
      BY <1>2, <2>4, <2>13, <3>1
    <3> QED BY <1>1, <2>12, <3>3, <3>4 DEF BatonAt, Held, Free
  <2> QED BY <2>7, <2>9, <2>10, <2>11, <2>14 DEF Inv, Baton, Status
<1> QED BY <1>3, <1>4, <1>5

(* Whose semaphore t releases.                                             *)
Receiver(t) == IF t = Lcd THEN lcd_index ELSE Lcd

(* The screen leaves t for the thread whose semaphore it releases: that    *)
(* one is woken, or finds the unit when it gets there.                     *)
LEMMA ReleaseSemInv == ASSUME Inv, NEW t \in Workers, ReleaseSem(t) PROVE Inv' /\ (Waits(Receiver(t)) => Status(Receiver(t), "READY"))
<1>0. PICK o : o = IF t = Lcd THEN lcd_index ELSE Lcd
  OBVIOUS
<1>1. /\ Go(t, "give", "wait")
      /\ rt_sem_release(o)
      /\ UNCHANGED <<mutex, started, book_head, lcd_index, screen>>
  BY <1>0 DEF ReleaseSem
<1>2. /\ sched.stat[t] = "READY" /\ sched.nest = 0 /\ pc[t] = "give" /\ pc'[t] = "wait"
      /\ \A u \in Workers : u # t => pc'[u] = pc[u]
      /\ pc' \in [Workers -> Places]
  BY <1>1, Goes DEF Places
<1>3. o \in Workers /\ o # t
  BY <1>0, <1>2, Names DEF Inv, Chosen
<1>4. BatonAt(t) /\ sem[t].value = 0
  BY <1>2, Carrier
<1>5. /\ \A u \in Workers : sem[u].value = 0
      /\ \A u \in Workers \ {t} : pc[u] \in {"wait", "took"} /\ ~Handed(u)
      /\ mutex = [m \in Mutex |-> Free]
  BY <1>2, <1>4 DEF BatonAt
<1>6. /\ sem \in [Workers -> [value : Nat, waiters : Seq(Thread)]]
      /\ sem[o].waiters = IF Waits(o) THEN <<o>> ELSE <<>>
  BY <1>3 DEF Inv, Typed, Asleep
<1>7. CASE Waits(o)
  <2>1. /\ sem' = [sem EXCEPT ![o].waiters = Tail(@)]
        /\ sched' = rt_schedule(rt_thread_resume(sched, o))
    <3>1. <<o>> # <<>> /\ Head(<<o>>) = o
      OBVIOUS
    <3> QED BY <1>1, <1>6, <1>7, <3>1 DEF rt_sem_release
  <2>2. o \in Thread
    BY <1>3, Names
  <2>3. /\ sem' \in [Workers -> [value : Nat, waiters : Seq(Thread)]]
        /\ sem'[o].waiters = <<>>
        /\ \A u \in Workers : u # o => sem'[u] = sem[u]
        /\ \A u \in Workers : sem'[u].value = 0
    <3>1. sem' = [sem EXCEPT ![o].waiters = <<>>]
      <4>1. sem[o].waiters = <<o>> /\ Tail(<<o>>) = <<>>
        BY <1>6, <1>7
      <4>2. sem' = [sem EXCEPT ![o].waiters = Tail(sem[o].waiters)]
        BY <2>1
      <4> QED BY <4>1, <4>2
    <3>2. <<>> \in Seq(Thread)
      BY EmptySeq
    <3> QED BY <1>3, <1>5, <1>6, <3>1, <3>2
  <2>4. Effect(sched, rt_schedule(rt_thread_resume(sched, o)), o, "READY", sched.armed \ {o})
    BY <1>7, <2>2, Resumed DEF Inv, Kernel, Picked, Waits
  <2>5. /\ Fit(sched') /\ Picked(sched')
        /\ sched'.nest = sched.nest /\ sched'.prio = sched.prio
        /\ sched'.stat = [sched.stat EXCEPT ![o] = "READY"]
        /\ sched'.armed = sched.armed \ {o}
    BY <2>1, <2>4 DEF Effect
  <2>6. sched'.stat[o] = "READY" /\ \A u \in Thread : u # o => sched'.stat[u] = sched.stat[u]
    BY <2>2, <2>5 DEF Inv, Kernel, Fit
  <2>7. Typed' /\ Kernel' /\ Chosen'
    BY <1>1, <1>2, <2>3, <2>5, Names DEF Inv, Typed, Kernel, Chosen
  <2>8. pc'[o] = "took"
    BY <1>2, <1>3, <1>7 DEF Waits
  <2>9. Asleep'
    <3>1. sched'.armed = {u \in Workers : sched'.stat[u] = "SUSPEND" /\ pc'[u] # "took"}
      BY <1>2, <1>3, <2>5, <2>6, <2>8, Names DEF Inv, Asleep
    <3>2. ASSUME NEW u \in Workers
          PROVE  /\ sched'.stat[u] # "CLOSE"
                 /\ sched'.stat[u] = "SUSPEND" => pc'[u] \in {"took", "serve", "poll"}
                 /\ sched'.stat[u] = "INIT" => pc'[u] = IF u = Lcd THEN "boot" ELSE "wait"
                 /\ sem'[u].waiters = IF Waits(u)' THEN <<u>> ELSE <<>>
      BY <1>2, <1>3, <2>3, <2>6, <2>8, Names DEF Inv, Asleep, Waits
    <3> QED BY <1>3, <2>6, <3>1, <3>2, Names DEF Inv, Asleep
  <2>10. Booted'
    BY <1>1, <1>2, <1>7, <2>2, <2>6, Names, Order DEF Inv, Booted, BooksBeforePages, Waits
  <2>11. BatonAt(o)'
    <3>1. \A u \in Workers \ {o} : pc'[u] \in {"wait", "took"}
      BY <1>2, <1>5
    <3>2. \A u \in Workers \ {o} : ~Handed(u)'
      BY <1>2, <1>5, <2>6, Names DEF Handed
    <3>3. Handed(o)'
      BY <2>6, <2>8 DEF Handed
    <3> QED BY <1>1, <1>3, <1>5, <2>3, <2>8, <3>1, <3>2, <3>3 DEF BatonAt, Held, Free
  <2> QED BY <1>0, <1>3, <2>5, <2>7, <2>9, <2>10, <2>11 DEF Inv, Baton, Status, Receiver
<1>8. CASE ~Waits(o)
  <2>1. sem' = [sem EXCEPT ![o].value = @ + 1] /\ UNCHANGED sched
    BY <1>1, <1>6, <1>8 DEF rt_sem_release
  <2>2. /\ sem' \in [Workers -> [value : Nat, waiters : Seq(Thread)]]
        /\ sem'[o].value = 1
        /\ \A u \in Workers : u # o => sem'[u] = sem[u]
        /\ \A u \in Workers : sem'[u].waiters = sem[u].waiters
    <3>1. sem' = [sem EXCEPT ![o].value = 1]
      <4>1. sem[o].value = 0 /\ 0 + 1 = 1
        BY <1>3, <1>5
      <4>2. sem' = [sem EXCEPT ![o].value = sem[o].value + 1]
        BY <2>1
      <4> QED BY <4>1, <4>2
    <3> QED BY <1>3, <1>6, <3>1
  <2>3. Kernel' /\ Asleep' /\ Booted'
    BY <1>1, <2>1, <2>2, Moved DEF Places
  <2>4. Typed' /\ Chosen'
    BY <1>1, <1>2, <2>2, Names DEF Inv, Typed, Chosen
  <2>5. pc[o] = "wait"
    <3>1. sched.stat[o] \in Stats /\ sched.stat[o] # "CLOSE"
      BY <1>3, Names DEF Inv, Kernel, Fit, Asleep
    <3>2. sched.stat[o] = "INIT" => pc[o] # "took"
      BY <1>3 DEF Inv, Asleep
    <3> QED BY <1>3, <1>5, <1>8, <3>1, <3>2 DEF Stats, Handed, Waits
  <2>6. BatonAt(o)'
    <3>1. \A u \in Workers \ {o} : pc'[u] \in {"wait", "took"} /\ sem'[u].value = 0
      BY <1>2, <1>5, <2>2
    <3>2. \A u \in Workers \ {o} : ~Handed(u)'
      BY <1>2, <1>5, <2>1 DEF Handed
    <3>3. pc'[o] = "wait"
      BY <1>2, <1>3, <2>5
    <3> QED BY <1>1, <1>5, <2>2, <3>1, <3>2, <3>3 DEF BatonAt, Held, Free
  <2> QED BY <1>0, <1>3, <1>8, <2>3, <2>4, <2>6 DEF Inv, Baton, Receiver
<1> QED BY <1>7, <1>8

LEMMA InvStep == Inv /\ [Next]_vars => Inv'
<1> SUFFICES ASSUME Inv, [Next]_vars PROVE Inv'
  OBVIOUS
<1>1. ASSUME NEW t \in Workers, WorkerStep(t) PROVE Inv'
  BY <1>1, TakeSemInv, TakeMutexInv, ContinueInv, DrawInv, ReleaseMutexInv, TouchInv, NapInv,
     ReleaseSemInv DEF WorkerStep
<1>2. CASE MainStep
  BY <1>2, StartNextInv, MainReturnsInv DEF MainStep
<1>3. CASE BookSystemInit
  BY <1>3, BookSystemInitInv
<1>4. ASSUME NEW t \in Workers, BusyWait(t) \/ Wake(t) PROVE Inv'
  BY <1>4, BusyWaitInv, WakeInv
<1>5. ASSUME NEW p \in PageSet, Serve(p) PROVE Inv'
  BY <1>5, ServeInv, Names
<1>6. CASE BusyWaitEnds
  BY <1>6, BusyWaitEndsInv
<1>7. CASE TimeSlice
  BY <1>7, TimeSliceInv
<1>8. CASE UNCHANGED vars
  <2>1. UNCHANGED <<sched, sem, mutex, pc, started, book_head, lcd_index, screen>>
    BY <1>8 DEF vars, kernel
  <2> QED BY <2>1, Rescheduled DEF Inv, Kernel
<1> QED BY <1>1, <1>2, <1>3, <1>4, <1>5, <1>6, <1>7, <1>8 DEF Next

LEMMA InvHolds == Spec => []Inv
  BY InitInv, InvStep, PTL DEF Spec

(* Every variable keeps the range its C declaration is used with.          *)
THEOREM TypeCorrect == Spec => []TypeOK
<1>1. Inv => TypeOK
  <2> SUFFICES ASSUME Inv PROVE TypeOK
    OBVIOUS
  <2>1. Baton => \A m \in Mutex : mutex[m].value \in {0, 1} /\ mutex[m].hold \in Nat
    BY DEF Baton, BatonAt, Free, Held
  <2>2. \A o \in Sem : sem[o].value \in Nat
    BY Names DEF Inv, Typed
  <2>3. InitPriority \in [Thread -> Priorities]
    BY KernelAssumption DEF Priorities
  <2>4. KernelTypeOK
    BY <2>1, <2>2, <2>3 DEF Inv, Kernel, Fit, Stats, KernelTypeOK
  <2> QED BY <2>4 DEF Inv, Typed, Places, TypeOK
<1> QED BY <1>1, InvHolds, PTL

(* A page's thread exists only after the list of books does, although      *)
(* only the LCD thread's priority over main() puts book_system_init()      *)
(* before the rt_thread_startup of the pages.                              *)
THEOREM BooksFirst == Spec => []BooksBeforePages
<1>1. Inv => BooksBeforePages
  BY DEF Inv, Booted
<1> QED BY <1>1, InvHolds, PTL

(* No thread ever waits for lcd_mutex: of the threads between an           *)
(* rt_sem_take and the release that ends the turn there is one only, so    *)
(* the mutex is free whenever rt_mutex_take is called.                     *)
THEOREM MutexFree == Spec => []MutexNeverContended
<1>1. Inv => MutexNeverContended
  <2>1. LcdMutex \in Mutex
    BY ThreadsAssumption DEF LcdMutex
  <2> QED BY <2>1 DEF Inv, Baton, BatonAt, Free, Held, MutexNeverContended
<1> QED BY <1>1, InvHolds, PTL

(* No thread waits for a semaphore or a mutex that is there.               *)
THEOREM WakeupsKept == Spec => []NoLostWakeup
<1>1. Inv => NoLostWakeup
  <2> SUFFICES ASSUME Inv PROVE NoLostWakeup
    OBVIOUS
  <2>1. ASSUME NEW o \in Sem, sem[o].value > 0 PROVE sem[o].waiters = <<>>
    <3>1. pc[o] = "wait"
      BY <2>1, Names DEF Inv, Baton, BatonAt
    <3> QED BY <2>1, <3>1, Names DEF Inv, Asleep, Waits
  <2>2. ASSUME NEW m \in Mutex
        PROVE  /\ mutex[m].value > 0 => mutex[m].waiters = <<>>
               /\ (mutex[m].owner = Nobody) <=> (mutex[m].value = 1)
    BY <2>2, Names DEF Inv, Baton, BatonAt, Free, Held
  <2> QED BY <2>1, <2>2 DEF NoLostWakeup
<1> QED BY <1>1, InvHolds, PTL

(* Every thread is on the one list its status says: a ready list, its      *)
(* semaphore's, or none while it only sleeps, with its timer on.           *)
THEOREM ListedOnce == Spec => []OneList
<1>1. Inv => OneList
  <2> SUFFICES ASSUME Inv, NEW t \in Thread
               PROVE  /\ ReadyLists(t) = IF sched.stat[t] = "READY" THEN {sched.prio[t]} ELSE {}
                      /\ CASE sched.stat[t] = "SUSPEND" ->
                                \/ Cardinality(WaitLists(t)) = 1
                                \/ WaitLists(t) = {} /\ t \in sched.armed
                           [] OTHER -> WaitLists(t) = {} /\ t \notin sched.armed
    BY DEF OneList
  <2>1. ReadyLists(t) = IF sched.stat[t] = "READY" THEN {sched.prio[t]} ELSE {}
    <3>1. InitPriority[t] \in Priorities /\ sched.prio = InitPriority
      BY DEF Priorities, Inv, Kernel, Fit
    <3>2. \A p \in Priorities : t \in ToSet(sched.table[p]) <=> sched.stat[t] = "READY" /\ InitPriority[t] = p
      BY DEF Inv, Kernel, Fit
    <3> QED BY <3>1, <3>2 DEF ReadyLists
  <2>2. \A m \in Mutex : mutex[m].waiters = <<>>
    BY DEF Inv, Baton, BatonAt, Free, Held
  <2>3. \A m \in Mutex : t \notin ToSet(mutex[m].waiters)
    BY <2>2 DEF ToSet
  <2>4. \A o \in Sem : t \in ToSet(sem[o].waiters) <=> o = t /\ Waits(t)
    <3>1. ASSUME NEW o \in Sem PROVE t \in ToSet(sem[o].waiters) <=> o = t /\ Waits(t)
      <4>1. sem[o].waiters = IF Waits(o) THEN <<o>> ELSE <<>>
        BY Names DEF Inv, Asleep
      <4>2. ToSet(<<o>>) = {o} /\ ToSet(<<>>) = {}
        BY DEF ToSet
      <4> QED BY <4>1, <4>2
    <3> QED BY <3>1
  <2>5. WaitLists(t) = {o \in Sem : o = t /\ Waits(t)}
    BY <2>3, <2>4 DEF WaitLists
  <2>6. CASE t \in Workers
    <3>1. CASE Waits(t)
      <4>1. WaitLists(t) = {t}
        BY <2>5, <2>6, <3>1, Names
      <4>2. Cardinality(WaitLists(t)) = 1
        BY <4>1, FS_Singleton
      <4> QED BY <2>1, <3>1, <4>2 DEF Waits
    <3>2. CASE ~Waits(t)
      <4>1. WaitLists(t) = {}
        BY <2>5, <3>2
      <4>2. t \in sched.armed <=> sched.stat[t] = "SUSPEND"
        BY <2>6, <3>2 DEF Inv, Asleep, Waits
      <4> QED BY <2>1, <4>1, <4>2
    <3> QED BY <3>1, <3>2
  <2>7. CASE t \notin Workers
    <3>1. WaitLists(t) = {}
      BY <2>5, <2>7, Names
    <3>2. t \notin sched.armed /\ sched.stat[t] # "SUSPEND"
      BY <2>7, Names DEF Inv, Asleep, Kernel, Fit
    <3> QED BY <2>1, <3>1, <3>2
  <2> QED BY <2>6, <2>7
<1> QED BY <1>1, InvHolds, PTL

-----------------------------------------------------------------------------
(* The hand-off                                                            *)

PC == [t \in Workers |-> AbstractPlace(t)]
Units(t) == sem[t].value + IF Handed(t) THEN 1 ELSE 0
SEM == [t \in Workers |-> Units(t)]
OWNER == IF \E t \in Workers : mutex[LcdMutex].owner = t /\ pc[t] = "locked"
         THEN Nobody ELSE mutex[LcdMutex].owner

LEMMA Owner == Inv => OWNER = mutex[LcdMutex].owner
  BY DEF Inv, Baton, BatonAt, OWNER, Held, Free

LEMMA OwnerStays == ASSUME Inv, Inv', UNCHANGED mutex PROVE OWNER' = OWNER
<1>1. \A t \in Workers : pc[t] # "locked"
  BY DEF Inv, Baton, BatonAt
<1>2. \A t \in Workers : pc'[t] # "locked"
  BY DEF Inv, Baton, BatonAt
<1> QED BY <1>1, <1>2 DEF OWNER

(* Who has started stays started, so a place is seen to change only where  *)
(* pc changes.                                                             *)
LEMMA SamePlace ==
  ASSUME NEW t, pc'[t] = pc[t], (sched'.stat[t] = "INIT") <=> (sched.stat[t] = "INIT")
  PROVE  AbstractPlace(t)' = AbstractPlace(t)
  BY DEF AbstractPlace

LEMMA Stutters ==
  ASSUME \A t \in Workers : AbstractPlace(t)' = AbstractPlace(t) /\ Units(t)' = Units(t),
         OWNER' = OWNER, UNCHANGED <<lcd_index, screen>>
  PROVE  UNCHANGED H!vars
<1>1. PC' = PC /\ SEM' = SEM
  BY DEF PC, SEM
<1> QED BY <1>1 DEF H!vars, PC, SEM, OWNER, Units

LEMMA AbstractGoes ==
  ASSUME NEW t \in Workers, NEW a, NEW b, AbstractPlace(t) = a, AbstractPlace(t)' = b,
         \A u \in Workers : u # t => AbstractPlace(u)' = AbstractPlace(u)
  PROVE  H!Go(t, a, b)
<1>1. PC[t] = a /\ PC' = [PC EXCEPT ![t] = b]
  BY DEF PC
<1> QED BY <1>1 DEF H!Go, PC

LEMMA AbstractInit == Init => H!Init
<1> SUFFICES ASSUME Init PROVE H!Init
  OBVIOUS
<1>1. Inv
  BY InitInv
<1>2. \A t \in Workers : AbstractPlace(t) = "off" /\ Units(t) = 0
  BY Names DEF Init, KernelInit, AbstractPlace, Units, Handed
<1>3. OWNER = Nobody
  BY <1>1, Owner, ThreadsAssumption DEF Init, KernelInit, LcdMutex
<1> QED BY <1>2, <1>3 DEF H!Init, H!Threads, Workers, Units, OWNER, Init

(* A step of t that neither waits nor wakes: what Handoff sees of it.      *)
LEMMA Seen ==
  ASSUME Inv, Inv', NEW t \in Workers, NEW from, NEW to \in Places, Go(t, from, to),
         sched'.stat = sched.stat \/ Status(t, "SUSPEND")
  PROVE  /\ sched.stat[t] = "READY" /\ pc[t] = from /\ pc'[t] = to
         /\ \A u \in Workers : sched'.stat[u] = "INIT" <=> sched.stat[u] = "INIT"
         /\ \A u \in Workers : u # t => pc'[u] = pc[u] /\ sched'.stat[u] = sched.stat[u]
         /\ \A u \in Workers : u # t => AbstractPlace(u)' = AbstractPlace(u)
         /\ \A u \in Workers : u # t => (Handed(u)' <=> Handed(u))
<1>1. /\ sched.stat[t] = "READY" /\ pc[t] = from /\ pc'[t] = to
      /\ \A u \in Workers : u # t => pc'[u] = pc[u]
  BY Goes
<1>2. /\ \A u \in Workers : sched'.stat[u] = "INIT" <=> sched.stat[u] = "INIT"
      /\ \A u \in Workers : u # t => sched'.stat[u] = sched.stat[u]
  <2>1. sched.stat \in [Thread -> Stats] /\ Workers \subseteq Thread
    BY Names DEF Inv, Kernel, Fit
  <2> QED BY <1>1, <2>1 DEF Status
<1>3. \A u \in Workers : u # t => AbstractPlace(u)' = AbstractPlace(u)
  BY <1>1, <1>2, SamePlace
<1>4. \A u \in Workers : u # t => (Handed(u)' <=> Handed(u))
  BY <1>1, <1>2 DEF Handed
<1> QED BY <1>1, <1>2, <1>3, <1>4

AbstractStep == H!Next \/ UNCHANGED H!vars

LEMMA BookSystemInitStep == ASSUME Inv, Inv', BookSystemInit PROVE AbstractStep
<1>1. Lcd \in Workers /\ Go(Lcd, "boot", "lock") /\ "lock" \in Places
      /\ UNCHANGED <<sched, sem, mutex, lcd_index, screen>>
  BY Names DEF BookSystemInit, kernel, Places
<1>2. /\ sched.stat[Lcd] = "READY" /\ pc[Lcd] = "boot" /\ pc'[Lcd] = "lock"
      /\ \A u \in Workers : u # Lcd => AbstractPlace(u)' = AbstractPlace(u)
      /\ \A u \in Workers : u # Lcd => (Handed(u)' <=> Handed(u))
  BY <1>1, Seen
<1>3. AbstractPlace(Lcd) = "boot" /\ AbstractPlace(Lcd)' = "lock"
  BY <1>1, <1>2 DEF AbstractPlace
<1>4. H!Go(Lcd, "boot", "lock")
  BY <1>1, <1>2, <1>3, AbstractGoes
<1>5. SEM' = SEM
  BY <1>1, <1>2 DEF SEM, Units, Handed
<1>6. OWNER' = OWNER
  BY <1>1, OwnerStays
<1>7. H!BookSystemInit
  BY <1>1, <1>4, <1>5, <1>6 DEF H!BookSystemInit, SEM, Units, OWNER
<1> QED BY <1>7 DEF AbstractStep, H!Next

LEMMA ThreadStep == ASSUME NEW t \in Workers, H!Step(t) PROVE AbstractStep
  BY DEF AbstractStep, H!Next, H!Threads, Workers

LEMMA DrawStep == ASSUME Inv, Inv', NEW t \in Workers, Draw(t) PROVE AbstractStep
<1>1. Go(t, "draw", "unlock") /\ "unlock" \in Places /\ screen' = t
      /\ UNCHANGED <<sched, sem, mutex, lcd_index>>
  BY DEF Draw, kernel, Places
<1>2. /\ sched.stat[t] = "READY" /\ pc[t] = "draw" /\ pc'[t] = "unlock"
      /\ \A u \in Workers : u # t => AbstractPlace(u)' = AbstractPlace(u)
      /\ \A u \in Workers : u # t => (Handed(u)' <=> Handed(u))
  BY <1>1, Seen
<1>3. AbstractPlace(t) = "draw" /\ AbstractPlace(t)' = "unlock"
  BY <1>1, <1>2 DEF AbstractPlace
<1>4. H!Go(t, "draw", "unlock")
  BY <1>2, <1>3, AbstractGoes
<1>5. SEM' = SEM
  BY <1>1, <1>2 DEF SEM, Units, Handed
<1>6. OWNER' = OWNER
  BY <1>1, OwnerStays
<1>7. H!Draw(t)
  BY <1>1, <1>4, <1>5, <1>6 DEF H!Draw, SEM, Units, OWNER
<1> QED BY <1>7, ThreadStep DEF H!Step

LEMMA ContinueStep == ASSUME Inv, Inv', NEW t \in Workers, Continue(t) PROVE AbstractStep
<1>0. sched.stat[t] = "READY" /\ pc[t] = "took"
  <2>1. sched.stat[t] = "READY" /\ pc[t] \in {"took", "locked"}
    BY DEF Continue, Go, Running, Inv, Kernel, Picked
  <2>2. pc[t] # "locked"
    BY <2>1, Carrier
  <2> QED BY <2>1, <2>2
<1>1. Go(t, "took", "lock") /\ "lock" \in Places
      /\ UNCHANGED <<sched, sem, mutex, lcd_index, screen>>
  BY <1>0 DEF Continue, kernel, Places
<1>2. /\ pc'[t] = "lock"
      /\ \A u \in Workers : u # t => AbstractPlace(u)' = AbstractPlace(u)
      /\ \A u \in Workers : u # t => (Handed(u)' <=> Handed(u))
  BY <1>1, Seen
<1>3. AbstractPlace(t) = "wait" /\ AbstractPlace(t)' = "lock"
  BY <1>0, <1>1, <1>2 DEF AbstractPlace
<1>4. H!Go(t, "wait", "lock")
  BY <1>2, <1>3, AbstractGoes
<1>5. SEM[t] = 1 /\ SEM' = [SEM EXCEPT ![t] = @ - 1]
  <2>1. sem[t].value = 0
    BY <1>0, Carrier
  <2>2. Units(t) = 1 /\ Units(t)' = 0
    BY <1>0, <1>1, <1>2, <2>1 DEF Units, Handed
  <2>3. \A u \in Workers : u # t => Units(u)' = Units(u)
    BY <1>1, <1>2 DEF Units
  <2>4. SEM[t] = 1 /\ SEM' = [SEM EXCEPT ![t] = 0]
    BY <2>2, <2>3 DEF SEM
  <2>5. 0 = 1 - 1
    OBVIOUS
  <2> QED BY <2>4, <2>5
<1>6. OWNER' = OWNER
  BY <1>1, OwnerStays
<1>7. H!TakeSem(t)
  <2>1. SEM[t] > 0
    BY <1>5
  <2> QED BY <1>1, <1>4, <1>5, <1>6, <2>1 DEF H!TakeSem, SEM, Units, OWNER
<1> QED BY <1>7, ThreadStep DEF H!Step

LEMMA TakeMutexStep == ASSUME Inv, Inv', NEW t \in Workers, TakeMutex(t) PROVE AbstractStep
<1>0. sched.stat[t] = "READY" /\ pc[t] = "lock"
  BY DEF TakeMutex, Go, Running, Inv, Kernel, Picked
<1>8. mutex[LcdMutex] = Free /\ LcdMutex \in Mutex /\ t # Nobody
  <2>1. BatonAt(t)
    BY <1>0, Carrier
  <2> QED BY <1>0, <2>1, ThreadsAssumption, Names DEF BatonAt, LcdMutex
<1>1. Go(t, "lock", "draw") /\ "draw" \in Places
      /\ UNCHANGED <<sched, sem, lcd_index, screen>>
  BY <1>8 DEF TakeMutex, rt_mutex_take, Free, Places
<1>2. /\ pc'[t] = "draw"
      /\ \A u \in Workers : u # t => AbstractPlace(u)' = AbstractPlace(u)
      /\ \A u \in Workers : u # t => (Handed(u)' <=> Handed(u))
  BY <1>1, Seen
<1>3. AbstractPlace(t) = "lock" /\ AbstractPlace(t)' = "draw"
  BY <1>0, <1>1, <1>2 DEF AbstractPlace
<1>4. H!Go(t, "lock", "draw")
  BY <1>2, <1>3, AbstractGoes
<1>5. SEM' = SEM
  BY <1>0, <1>1, <1>2 DEF SEM, Units, Handed
<1>6. OWNER = Nobody /\ OWNER' = t
  <2>1. mutex'[LcdMutex] = Held(t)
    <3>1. PICK h \in Workers : BatonAt(h)'
      BY DEF Inv, Baton
    <3>2. h = t
      BY <1>2, <3>1 DEF BatonAt
    <3> QED BY <1>2, <1>8, <3>1, <3>2 DEF BatonAt, Held
  <2> QED BY <1>8, <2>1, Owner DEF Free, Held, OWNER, Inv, Baton, BatonAt
<1>7. H!TakeMutex(t)
  BY <1>1, <1>4, <1>5, <1>6 DEF H!TakeMutex, SEM, Units, OWNER
<1> QED BY <1>7, ThreadStep DEF H!Step

LEMMA ReleaseMutexStep == ASSUME Inv, Inv', NEW t \in Workers, ReleaseMutex(t) PROVE AbstractStep
<1>q. PICK to \in {"poll", "serve"} : to = IF t = Lcd THEN "poll" ELSE "serve"
  OBVIOUS
<1>0. sched.stat[t] = "READY" /\ pc[t] = "unlock"
  BY DEF ReleaseMutex, Go, Running, Inv, Kernel, Picked
<1>8. mutex[LcdMutex] = Held(t) /\ LcdMutex \in Mutex
  <2>1. BatonAt(t)
    BY <1>0, Carrier
  <2> QED BY <1>0, <2>1, ThreadsAssumption DEF BatonAt, LcdMutex
<1>1. Go(t, "unlock", to) /\ to \in Places
      /\ UNCHANGED <<sched, sem, lcd_index, screen>>
  <2>1. Restore(t, LcdMutex) = sched
    BY <1>8 DEF Inv, Kernel, Fit, Restore, Held
  <2> QED BY <1>q, <1>8, <2>1 DEF ReleaseMutex, rt_mutex_release, Held, Places
<1>2. /\ pc'[t] = to
      /\ \A u \in Workers : u # t => AbstractPlace(u)' = AbstractPlace(u)
      /\ \A u \in Workers : u # t => (Handed(u)' <=> Handed(u))
  BY <1>1, Seen
<1>3. AbstractPlace(t) = "unlock" /\ AbstractPlace(t)' = "serve"
  BY <1>0, <1>1, <1>2 DEF AbstractPlace
<1>4. H!Go(t, "unlock", "serve")
  BY <1>2, <1>3, AbstractGoes
<1>5. SEM' = SEM
  BY <1>0, <1>1, <1>2 DEF SEM, Units, Handed
<1>6. OWNER' = Nobody
  <2>1. mutex'[LcdMutex] = Free
    <3>1. PICK h \in Workers : BatonAt(h)'
      BY DEF Inv, Baton
    <3>2. h = t
      BY <1>2, <3>1 DEF BatonAt
    <3> QED BY <1>2, <1>8, <3>1, <3>2 DEF BatonAt, Free
  <2> QED BY <2>1, Owner DEF Free, OWNER, Inv, Baton, BatonAt
<1>7. H!ReleaseMutex(t)
  BY <1>1, <1>4, <1>5, <1>6 DEF H!ReleaseMutex, SEM, Units, OWNER
<1> QED BY <1>7, ThreadStep DEF H!Step

LEMMA ServeStep == ASSUME Inv, Inv', NEW p \in PageSet, Serve(p) PROVE AbstractStep
<1>1. p \in Workers /\ Go(p, "serve", "poll") /\ "poll" \in Places /\ screen' = p
      /\ UNCHANGED <<sched, sem, mutex, lcd_index>>
  BY Names DEF Serve, kernel, Places
<1>2. /\ sched.stat[p] = "READY" /\ pc[p] = "serve" /\ pc'[p] = "poll"
      /\ \A u \in Workers : u # p => AbstractPlace(u)' = AbstractPlace(u)
      /\ \A u \in Workers : u # p => (Handed(u)' <=> Handed(u))
  BY <1>1, Seen
<1>3. AbstractPlace(p) = "serve" /\ AbstractPlace(p)' = "serve"
  BY <1>1, <1>2 DEF AbstractPlace
<1>4. PC[p] = "serve" /\ PC' = PC
  BY <1>1, <1>2, <1>3 DEF PC
<1>5. SEM' = SEM
  BY <1>1, <1>2 DEF SEM, Units, Handed
<1>6. OWNER' = OWNER
  BY <1>1, OwnerStays
<1>7. H!Serve(p)
  BY <1>1, <1>4, <1>5, <1>6 DEF H!Serve, PC, SEM, Units, OWNER
<1> QED BY <1>7 DEF AbstractStep, H!Next, H!UserStep

LEMMA TouchStep == ASSUME Inv, Inv', NEW t \in Workers, Touch(t) PROVE AbstractStep
<1>1. Go(t, "poll", "give") /\ "give" \in Places
      /\ (IF t = Lcd THEN lcd_index' \in PageSet ELSE lcd_index' = lcd_index)
      /\ UNCHANGED <<sched, sem, mutex, screen>>
  BY DEF Touch, kernel, Places
<1>2. /\ sched.stat[t] = "READY" /\ pc[t] = "poll" /\ pc'[t] = "give"
      /\ \A u \in Workers : u # t => AbstractPlace(u)' = AbstractPlace(u)
      /\ \A u \in Workers : u # t => (Handed(u)' <=> Handed(u))
  BY <1>1, Seen
<1>3. AbstractPlace(t) = "serve" /\ AbstractPlace(t)' = "give"
  BY <1>1, <1>2 DEF AbstractPlace
<1>4. H!Go(t, "serve", "give")
  BY <1>2, <1>3, AbstractGoes
<1>5. SEM' = SEM
  BY <1>1, <1>2 DEF SEM, Units, Handed
<1>6. OWNER' = OWNER
  BY <1>1, OwnerStays
<1>7. CASE t = Lcd
  <2>1. PICK p \in PageSet : lcd_index' = p
    BY <1>1, <1>7
  <2>2. H!Choose(p)
    BY <1>1, <1>4, <1>5, <1>6, <1>7, <2>1 DEF H!Choose, SEM, Units, OWNER
  <2> QED BY <2>2 DEF AbstractStep, H!Next, H!UserStep
<1>8. CASE t # Lcd
  <2>1. t \in PageSet
    BY <1>8, Names
  <2>2. H!Return(t)
    BY <1>1, <1>4, <1>5, <1>6, <1>8 DEF H!Return, SEM, Units, OWNER
  <2> QED BY <2>1, <2>2 DEF AbstractStep, H!Next, H!UserStep
<1> QED BY <1>7, <1>8

LEMMA NapStep == ASSUME Inv, NEW t \in Workers, Nap(t) PROVE AbstractStep
<1>q. PICK to \in {"poll", "serve"} : to = IF t = Lcd THEN "poll" ELSE "serve"
  OBVIOUS
<1>0. Inv' /\ Status(t, "SUSPEND")
  BY NapInv
<1>1. Go(t, "poll", to) /\ to \in Places /\ UNCHANGED <<sem, mutex, lcd_index, screen>>
  BY <1>q DEF Nap, Places
<1>2. /\ sched.stat[t] = "READY" /\ pc[t] = "poll" /\ pc'[t] = to
      /\ \A u \in Workers : sched'.stat[u] = "INIT" <=> sched.stat[u] = "INIT"
      /\ \A u \in Workers : u # t => AbstractPlace(u)' = AbstractPlace(u)
      /\ \A u \in Workers : u # t => (Handed(u)' <=> Handed(u))
  BY <1>0, <1>1, Seen
<1>3. AbstractPlace(t) = "serve" /\ AbstractPlace(t)' = "serve"
  BY <1>2 DEF AbstractPlace
<1>4. \A u \in Workers : AbstractPlace(u)' = AbstractPlace(u) /\ Units(u)' = Units(u)
  BY <1>1, <1>2, <1>3 DEF Units, Handed
<1>5. OWNER' = OWNER
  BY <1>0, <1>1, OwnerStays
<1> QED BY <1>1, <1>4, <1>5, Stutters DEF AbstractStep

LEMMA TakeSemStep == ASSUME Inv, NEW t \in Workers, TakeSem(t) PROVE AbstractStep
<1>0. Inv' /\ (sem[t].value = 0 => Status(t, "SUSPEND"))
  BY TakeSemInv
<1>1. /\ Go(t, "wait", IF sem[t].value > 0 THEN "lock" ELSE "took")
      /\ rt_sem_take(t, t)
      /\ UNCHANGED <<mutex, lcd_index, screen>>
  BY DEF TakeSem
<1>2. sem[t].value \in Nat /\ sem \in [Workers -> [value : Nat, waiters : Seq(Thread)]]
  BY DEF Inv, Typed
<1>3. OWNER' = OWNER
  BY <1>0, <1>1, OwnerStays
<1>4. CASE sem[t].value > 0
  <2>1. /\ Go(t, "wait", "lock") /\ "lock" \in Places
        /\ sem' = [sem EXCEPT ![t].value = @ - 1] /\ sched' = sched
    BY <1>1, <1>2, <1>4 DEF rt_sem_take, Places
  <2>2. /\ sched.stat[t] = "READY" /\ pc[t] = "wait" /\ pc'[t] = "lock"
        /\ \A u \in Workers : u # t => AbstractPlace(u)' = AbstractPlace(u)
        /\ \A u \in Workers : u # t => (Handed(u)' <=> Handed(u))
    BY <1>0, <2>1, Seen
  <2>3. AbstractPlace(t) = "wait" /\ AbstractPlace(t)' = "lock"
    BY <2>1, <2>2 DEF AbstractPlace
  <2>4. H!Go(t, "wait", "lock")
    BY <2>2, <2>3, AbstractGoes
  <2>5. SEM[t] = sem[t].value /\ SEM' = [SEM EXCEPT ![t] = @ - 1]
    <3>1. /\ sem'[t].value = sem[t].value - 1
          /\ \A u \in Workers : u # t => sem'[u] = sem[u]
      BY <1>2, <2>1
    <3>2. Units(t) = sem[t].value /\ Units(t)' = sem[t].value - 1
      BY <1>2, <2>2, <3>1 DEF Units, Handed
    <3>3. \A u \in Workers : u # t => Units(u)' = Units(u)
      BY <2>2, <3>1 DEF Units
    <3> QED BY <3>2, <3>3 DEF SEM
  <2>6. H!TakeSem(t)
    <3>1. SEM[t] > 0
      BY <1>4, <2>5
    <3> QED BY <1>1, <1>3, <2>4, <2>5, <3>1 DEF H!TakeSem, SEM, Units, OWNER
  <2> QED BY <2>6, ThreadStep DEF H!Step
<1>5. CASE sem[t].value = 0
  \* In Handoff it has not moved.
  <2>1. /\ Go(t, "wait", "took") /\ "took" \in Places
        /\ sem' = [sem EXCEPT ![t].waiters = Enqueue(sched, @, t)]
    BY <1>1, <1>5 DEF rt_sem_take, Places
  <2>2. /\ sched.stat[t] = "READY" /\ pc[t] = "wait" /\ pc'[t] = "took"
        /\ \A u \in Workers : u # t => AbstractPlace(u)' = AbstractPlace(u)
        /\ \A u \in Workers : u # t => (Handed(u)' <=> Handed(u))
    BY <1>0, <1>5, <2>1, Seen
  <2>3. sched'.stat[t] = "SUSPEND"
    BY <1>0, <1>5, Names DEF Inv, Kernel, Fit, Status
  <2>4. AbstractPlace(t) = "wait" /\ AbstractPlace(t)' = "wait"
    BY <2>2, <2>3 DEF AbstractPlace
  <2>5. \A u \in Workers : sem'[u].value = sem[u].value
    BY <1>2, <2>1
  <2>6. ~Handed(t) /\ ~Handed(t)'
    BY <2>2, <2>3 DEF Handed
  <2>7. \A u \in Workers : AbstractPlace(u)' = AbstractPlace(u) /\ Units(u)' = Units(u)
    BY <2>2, <2>4, <2>5, <2>6 DEF Units
  <2> QED BY <1>1, <1>3, <2>7, Stutters DEF AbstractStep
<1> QED BY <1>2, <1>4, <1>5

(* A unit handed to a waiter or left in the count: one unit more.          *)
LEMMA ReleaseSemStep == ASSUME Inv, NEW t \in Workers, ReleaseSem(t) PROVE AbstractStep
<1>0. PICK o : o = Receiver(t)
  OBVIOUS
<1>1. /\ Go(t, "give", "wait")
      /\ rt_sem_release(o)
      /\ UNCHANGED <<mutex, lcd_index, screen>>
  BY <1>0 DEF ReleaseSem, Receiver
<1>2. Inv' /\ (Waits(o) => Status(o, "READY"))
  BY <1>0, ReleaseSemInv
<1>3. /\ sched.stat[t] = "READY" /\ pc[t] = "give" /\ pc'[t] = "wait"
      /\ \A u \in Workers : u # t => pc'[u] = pc[u]
  BY <1>1, Goes
<1>4. o \in Workers /\ o # t /\ o \in Thread
  BY <1>0, <1>3, Names DEF Inv, Chosen, Receiver
<1>5. /\ sem \in [Workers -> [value : Nat, waiters : Seq(Thread)]]
      /\ sem[o].waiters = IF Waits(o) THEN <<o>> ELSE <<>>
      /\ sched.stat \in [Thread -> Stats] /\ Workers \subseteq Thread
  BY <1>4, Names DEF Inv, Typed, Asleep, Kernel, Fit
<1>6. /\ \A u \in Workers : sched'.stat[u] = "INIT" <=> sched.stat[u] = "INIT"
      /\ \A u \in Workers : u # o => sched'.stat[u] = sched.stat[u] /\ sem'[u] = sem[u]
      /\ Units(o)' = Units(o) + 1
  <2>1. CASE Waits(o)
    <3>1. sem' = [sem EXCEPT ![o].waiters = Tail(@)] /\ Status(o, "READY")
      BY <1>1, <1>2, <1>5, <2>1 DEF rt_sem_release
    <3>2. sched.stat[o] = "SUSPEND" /\ pc[o] = "took" /\ pc'[o] = "took"
      BY <1>3, <1>4, <2>1 DEF Waits
    <3>3. sched'.stat[o] = "READY" /\ \A u \in Workers : u # o => sched'.stat[u] = sched.stat[u]
      BY <1>4, <1>5, <3>1 DEF Status
    <3>4. sem'[o].value = sem[o].value /\ \A u \in Workers : u # o => sem'[u] = sem[u]
      BY <1>4, <1>5, <3>1
    <3>5. ~Handed(o) /\ Handed(o)'
      BY <3>2, <3>3 DEF Handed
    <3>6. Units(o)' = Units(o) + 1
      BY <1>4, <1>5, <3>4, <3>5 DEF Units
    <3> QED BY <3>2, <3>3, <3>4, <3>6
  <2>2. CASE ~Waits(o)
    <3>1. sem' = [sem EXCEPT ![o].value = @ + 1] /\ sched' = sched
      BY <1>1, <1>5, <2>2 DEF rt_sem_release
    <3>2. sem'[o].value = sem[o].value + 1 /\ \A u \in Workers : u # o => sem'[u] = sem[u]
      BY <1>4, <1>5, <3>1
    <3>3. Handed(o)' <=> Handed(o)
      BY <1>3, <1>4, <3>1 DEF Handed
    <3>4. Units(o)' = Units(o) + 1
      <4>1. sem[o].value \in Nat
        BY <1>4, <1>5
      <4> QED BY <3>2, <3>3, <4>1 DEF Units
    <3> QED BY <3>1, <3>2, <3>4
  <2> QED BY <2>1, <2>2
<1>7. \A u \in Workers : u # t => AbstractPlace(u)' = AbstractPlace(u)
  BY <1>3, <1>6, SamePlace
<1>8. AbstractPlace(t) = "give" /\ AbstractPlace(t)' = "wait"
  BY <1>3, <1>6 DEF AbstractPlace
<1>9. H!Go(t, "give", "wait")
  BY <1>7, <1>8, AbstractGoes
<1>10. SEM' = [SEM EXCEPT ![o] = @ + 1]
  <2>1. \A u \in Workers : u # o => (Handed(u)' <=> Handed(u))
    BY <1>3, <1>4, <1>6 DEF Handed
  <2>2. \A u \in Workers : u # o => Units(u)' = Units(u)
    BY <1>6, <2>1 DEF Units
  <2> QED BY <1>4, <1>6, <2>2 DEF SEM
<1>11. OWNER' = OWNER
  BY <1>1, <1>2, OwnerStays
<1>12. H!ReleaseSem(t)
  <2>1. H!Successor(t) = o
    BY <1>0 DEF H!Successor, Receiver
  <2> QED BY <1>1, <1>9, <1>10, <1>11, <2>1 DEF H!ReleaseSem, SEM, Units, OWNER
<1> QED BY <1>12, ThreadStep DEF H!Step

(* main() starts the LCD thread, and then the pages when that one exists.  *)
LEMMA StartNextStep == ASSUME Inv, StartNext PROVE AbstractStep
<1>0. PICK t : t = StartOrder[started + 1]
  OBVIOUS
<1>1. Inv' /\ Status(t, "READY") /\ UNCHANGED <<sem, mutex, pc, lcd_index, screen>>
  BY <1>0, StartNextInv DEF StartNext
<1>2. /\ started \in Nat /\ started + 1 \in 1..Len(StartOrder) /\ ~(started + 1 <= started)
      /\ 1 <= started + 1
  BY Order DEF Inv, Typed, StartNext
<1>3. t \in Workers /\ t \in Thread /\ sched.stat[t] = "INIT"
  <2>1. t \in Workers
    BY <1>0, <1>2, Order
  <2> QED BY <1>0, <1>2, <2>1, Names DEF Inv, Booted
<1>4. t # Lcd => AbstractPlace(Lcd) # "off"
  <2> SUFFICES ASSUME t # Lcd PROVE AbstractPlace(Lcd) # "off"
    OBVIOUS
  <2>1. 1 \in 1..Len(StartOrder) /\ StartOrder[1] = Lcd /\ 1 <= started
    <3>1. started + 1 # 1
      BY <1>0, Order
    <3> QED BY <3>1, <1>2, Order
  <2>2. sched.stat[Lcd] # "INIT"
    BY <2>1 DEF Inv, Booted
  <2>3. pc[Lcd] \in Places
    BY Names DEF Inv, Typed
  <2> QED BY <2>2, <2>3 DEF AbstractPlace, Places
<1>5. /\ sched'.stat[t] = "READY"
      /\ \A u \in Workers : u # t => sched'.stat[u] = sched.stat[u]
  BY <1>1, <1>3, Names DEF Inv, Kernel, Fit, Status
<1>6. pc[t] = IF t = Lcd THEN "boot" ELSE "wait"
  BY <1>3 DEF Inv, Asleep
<1>7. AbstractPlace(t) = "off" /\ AbstractPlace(t)' = IF t = Lcd THEN "boot" ELSE "wait"
  BY <1>1, <1>3, <1>5, <1>6 DEF AbstractPlace
<1>8. \A u \in Workers : u # t => AbstractPlace(u)' = AbstractPlace(u)
  BY <1>1, <1>5, SamePlace
<1>9. H!Go(t, "off", IF t = Lcd THEN "boot" ELSE "wait")
  BY <1>3, <1>7, <1>8, AbstractGoes
<1>10. SEM' = SEM
  <2>1. \A u \in Workers : Handed(u)' <=> Handed(u)
    BY <1>1, <1>5, <1>6 DEF Handed
  <2> QED BY <1>1, <2>1 DEF SEM, Units
<1>11. OWNER' = OWNER
  BY <1>1, OwnerStays
<1>12. H!Start(t)
  <2>1. t # Lcd => PC[Lcd] # "off"
    BY <1>4, Names DEF PC
  <2> QED BY <1>1, <1>9, <1>10, <1>11, <2>1 DEF H!Start, PC, SEM, Units, OWNER
<1> QED BY <1>3, <1>12, ThreadStep DEF H!Step

(* What the scheduler and the clock do is not seen in Handoff: who sleeps  *)
(* there does not wait for a semaphore.                                    *)
LEMMA UnseenStep ==
  ASSUME Inv, Inv', UNCHANGED <<sem, mutex, pc, lcd_index, screen>>,
         \/ sched'.stat = sched.stat
         \/ Status(Main, "CLOSE")
         \/ \E t \in sched.armed : Status(t, "READY")
  PROVE  AbstractStep
<1>1. \A u \in Workers : AbstractPlace(u)' = AbstractPlace(u) /\ (Handed(u)' <=> Handed(u))
  <2>1. sched.stat \in [Thread -> Stats] /\ Workers \subseteq Thread /\ Main \notin Workers
    BY Names DEF Inv, Kernel, Fit
  <2>2. CASE sched'.stat = sched.stat
    BY <2>2 DEF Handed, AbstractPlace
  <2>3. CASE Status(Main, "CLOSE")
    <3>1. \A u \in Workers : sched'.stat[u] = sched.stat[u]
      BY <2>1, <2>3 DEF Status
    <3> QED BY <3>1 DEF Handed, AbstractPlace
  <2>4. ASSUME NEW t \in sched.armed, Status(t, "READY")
        PROVE  \A u \in Workers : AbstractPlace(u)' = AbstractPlace(u) /\ (Handed(u)' <=> Handed(u))
    <3>1. t \in Workers /\ sched.stat[t] = "SUSPEND" /\ pc[t] # "took"
      BY DEF Inv, Asleep
    <3>2. sched'.stat[t] = "READY" /\ \A u \in Workers : u # t => sched'.stat[u] = sched.stat[u]
      BY <2>1, <2>4, <3>1 DEF Status
    <3> QED BY <3>1, <3>2 DEF Handed, AbstractPlace
  <2> QED BY <2>2, <2>3, <2>4
<1>2. OWNER' = OWNER
  BY OwnerStays
<1> QED BY <1>1, <1>2, Stutters DEF AbstractStep, Units

LEMMA StepStep == Inv /\ [Next]_vars => AbstractStep
<1> SUFFICES ASSUME Inv, [Next]_vars PROVE AbstractStep
  OBVIOUS
<1>1. Inv'
  BY InvStep
<1>2. ASSUME NEW t \in Workers, WorkerStep(t) PROVE AbstractStep
  BY <1>1, <1>2, TakeSemStep, TakeMutexStep, ContinueStep, DrawStep, ReleaseMutexStep, TouchStep,
     NapStep, ReleaseSemStep DEF WorkerStep
<1>3. CASE StartNext
  BY <1>3, StartNextStep
<1>4. CASE MainReturns
  <2>1. UNCHANGED <<sem, mutex, pc, lcd_index, screen>> /\ Status(Main, "CLOSE")
    BY <1>4, MainReturnsInv DEF MainReturns
  <2> QED BY <1>1, <2>1, UnseenStep
<1>5. CASE BookSystemInit
  BY <1>1, <1>5, BookSystemInitStep
<1>6. ASSUME NEW t \in Workers, BusyWait(t) PROVE AbstractStep
  <2>1. UNCHANGED <<sem, mutex, pc, lcd_index, screen>> /\ sched'.stat = sched.stat
    BY <1>6, BusyWaitInv DEF BusyWait
  <2> QED BY <1>1, <2>1, UnseenStep
<1>7. ASSUME NEW t \in Workers, Wake(t) PROVE AbstractStep
  <2>1. t \in sched.armed /\ UNCHANGED <<sem, mutex, pc, lcd_index, screen>> /\ Status(t, "READY")
    BY <1>7, WakeInv DEF Wake
  <2> QED BY <1>1, <2>1, UnseenStep
<1>8. ASSUME NEW p \in PageSet, Serve(p) PROVE AbstractStep
  BY <1>1, <1>8, ServeStep
<1>9. CASE BusyWaitEnds
  <2>1. UNCHANGED <<sem, mutex, pc, lcd_index, screen>> /\ sched'.stat = sched.stat
    BY <1>9, BusyWaitEndsInv DEF BusyWaitEnds
  <2> QED BY <1>1, <2>1, UnseenStep
<1>10. CASE TimeSlice
  <2>1. UNCHANGED <<sem, mutex, pc, lcd_index, screen>> /\ sched'.stat = sched.stat
    BY <1>10, TimeSliceInv DEF TimeSlice
  <2> QED BY <1>1, <2>1, UnseenStep
<1>11. CASE UNCHANGED vars
  <2>1. UNCHANGED <<sem, mutex, pc, lcd_index, screen>> /\ sched'.stat = sched.stat
    BY <1>11 DEF vars, kernel
  <2> QED BY <1>1, <2>1, UnseenStep
<1> QED BY <1>2, <1>3, <1>4, <1>5, <1>6, <1>7, <1>8, <1>9, <1>10, <1>11 DEF Next, MainStep

(* On RT-Thread, with its ready lists, waiting queues, timers and          *)
(* priorities, the threads of main.c pass the screen on as counting        *)
(* semaphores promise: every step of the program is a step of Handoff or   *)
(* unseen there, so OneOwner, NeverLost and ShownWhileServing hold of the  *)
(* program whatever the number of pages.                                   *)
THEOREM Refinement == Spec => ImplementsHandoff
<1>1. Init => H!Init
  BY AbstractInit
<1>2. Inv /\ [Next]_vars => [H!Next]_H!vars
  BY StepStep DEF AbstractStep
<1> QED BY <1>1, <1>2, InvHolds, PTL DEF Spec, ImplementsHandoff, H!Spec
=============================================================================
