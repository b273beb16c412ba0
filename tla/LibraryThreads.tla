--------------------------- MODULE LibraryThreads ---------------------------
(***************************************************************************)
(* The threads of User/main.c on RT-Thread: main() at priority 10 creates  *)
(* and starts the LCD thread (priority 1) and the four page threads        *)
(* (priority 3), which then run only when the scheduler picks them.  A     *)
(* thread's step is taken by rt_current_thread alone; between two steps    *)
(* the SysTick interrupt may end a sleep or a time slice.                  *)
(***************************************************************************)
EXTENDS RtKernel

CONSTANTS
  Main,    \* the thread main() runs in
  Lcd,     \* the LCD thread
  Pages    \* find, borrow, giveback and change, in the order they are started

ASSUME ThreadsAssumption ==
  /\ Thread = {Main, Idle, Lcd} \cup ToSet(Pages)
  /\ Sem = {Lcd} \cup ToSet(Pages)
  /\ Mutex = {"lcd_mutex"}
  /\ Main # Idle /\ Lcd \notin {Main, Idle} /\ {Main, Idle, Lcd} \cap ToSet(Pages) = {}
  /\ \A i, j \in DOMAIN Pages : Pages[i] = Pages[j] => i = j
  /\ Pages \in Seq(ToSet(Pages))
  /\ InitPriority[Lcd] < InitPriority[Main]

PageSet == ToSet(Pages)
Workers == PageSet \cup {Lcd}
LcdMutex == "lcd_mutex"

VARIABLES
  pc,         \* where each thread of main.c stands
  started,    \* how many threads main() has started
  book_head,  \* whether the list of books exists
  lcd_index,  \* the icon the LCD thread saw touched
  screen      \* whose drawing is on the LCD

vars == <<kernel, pc, started, book_head, lcd_index, screen>>

Init ==
  /\ KernelInit({Main, Idle}, Main)
  /\ pc = [t \in Workers |-> IF t = Lcd THEN "boot" ELSE "wait"]
  /\ started = 0
  /\ book_head = FALSE
  /\ lcd_index = Nobody
  /\ screen = Nobody

Running(t) == sched.cur = t /\ sched.nest = 0

Go(t, from, to) == /\ Running(t)
                   /\ pc[t] = from
                   /\ pc' = [pc EXCEPT ![t] = to]

-----------------------------------------------------------------------------
(* main() *)

(* Mutant: the pages are started first.                                    *)
PagesFirst == Pages \o <<Lcd>>

StartOrder == <<Lcd>> \o Pages

StartNext ==
  /\ Running(Main)
  /\ started < Len(StartOrder)
  /\ started' = started + 1
  /\ sched' = rt_thread_startup(sched, StartOrder[started + 1])
  /\ UNCHANGED <<sem, mutex, pc, book_head, lcd_index, screen>>

MainReturns ==
  /\ Running(Main)
  /\ started = Len(StartOrder)
  /\ sched' = rt_thread_exit(sched, Main)
  /\ UNCHANGED <<sem, mutex, pc, started, book_head, lcd_index, screen>>

-----------------------------------------------------------------------------
(* The entry functions.  "took" and "locked" are inside rt_sem_take and    *)
(* rt_mutex_take, behind the rt_schedule() of a caller that had to wait.   *)

BookSystemInit ==
  /\ Go(Lcd, "boot", "lock")
  /\ book_head' = TRUE
  /\ UNCHANGED <<kernel, started, lcd_index, screen>>

TakeSem(t) ==
  /\ Go(t, "wait", IF sem[t].value > 0 THEN "lock" ELSE "took")
  /\ rt_sem_take(t, t)
  /\ UNCHANGED <<mutex, started, book_head, lcd_index, screen>>

TakeMutex(t) ==
  /\ Go(t, "lock", IF mutex[LcdMutex].value > 0 THEN "draw" ELSE "locked")
  /\ rt_mutex_take(t, LcdMutex, RT_WAITING_FOREVER)
  /\ UNCHANGED <<sem, started, book_head, lcd_index, screen>>

Continue(t) ==
  /\ pc[t] \in {"took", "locked"}
  /\ Go(t, pc[t], IF pc[t] = "took" THEN "lock" ELSE "draw")
  /\ UNCHANGED <<kernel, started, book_head, lcd_index, screen>>

Draw(t) ==
  /\ Go(t, "draw", "unlock")
  /\ screen' = t
  /\ UNCHANGED <<kernel, started, book_head, lcd_index>>

(* Mutant: the mutex is kept.                                              *)
ReleaseMutexForgotten(t) ==
  /\ Go(t, "unlock", IF t = Lcd THEN "poll" ELSE "serve")
  /\ UNCHANGED <<kernel, started, book_head, lcd_index, screen>>

ReleaseMutex(t) ==
  /\ Go(t, "unlock", IF t = Lcd THEN "poll" ELSE "serve")
  /\ rt_mutex_release(t, LcdMutex)
  /\ UNCHANGED <<sem, started, book_head, lcd_index, screen>>

(* One round of a page's loop, which draws without lcd_mutex.              *)
Serve(p) ==
  /\ Go(p, "serve", "poll")
  /\ screen' = p
  /\ UNCHANGED <<kernel, started, book_head, lcd_index>>

(* The touch panel and the card reader wait with delay_us, which locks the *)
(* scheduler until the time is over.                                       *)
BusyWait(t) ==
  /\ Running(t)
  /\ pc[t] \in {"serve", "poll"}
  /\ sched' = rt_enter_critical(sched)
  /\ UNCHANGED <<sem, mutex, pc, started, book_head, lcd_index, screen>>

BusyWaitEnds ==
  /\ sched.nest > 0
  /\ sched' = rt_exit_critical(sched)
  /\ UNCHANGED <<sem, mutex, pc, started, book_head, lcd_index, screen>>

(* get_icon_app_table() # 0xff on the cover, get_return_table() on a page. *)
Touch(t) ==
  /\ Go(t, "poll", "give")
  /\ IF t = Lcd THEN lcd_index' \in PageSet ELSE UNCHANGED lcd_index
  /\ UNCHANGED <<kernel, started, book_head, screen>>

(* No touch: rt_thread_delay(20) and round again.                          *)
Nap(t) ==
  /\ Go(t, "poll", IF t = Lcd THEN "poll" ELSE "serve")
  /\ sched' = rt_thread_delay(sched, t)
  /\ UNCHANGED <<sem, mutex, started, book_head, lcd_index, screen>>

(* Mutant: the LCD thread does not wait for lcd_sem.                       *)
ReleaseSemWithoutWaiting(t) ==
  /\ Go(t, "give", IF t = Lcd THEN "lock" ELSE "wait")
  /\ rt_sem_release(IF t = Lcd THEN lcd_index ELSE Lcd)
  /\ UNCHANGED <<mutex, started, book_head, lcd_index, screen>>

ReleaseSem(t) ==
  /\ Go(t, "give", "wait")
  /\ rt_sem_release(IF t = Lcd THEN lcd_index ELSE Lcd)
  /\ UNCHANGED <<mutex, started, book_head, lcd_index, screen>>

-----------------------------------------------------------------------------
(* SysTick_Handler *)

Wake(t) ==
  /\ t \in sched.armed
  /\ sched' = rt_thread_timeout(sched, t)
  /\ UNCHANGED <<sem, mutex, pc, started, book_head, lcd_index, screen>>

TimeSlice ==
  /\ sched' = rt_thread_yield(sched)
  /\ UNCHANGED <<sem, mutex, pc, started, book_head, lcd_index, screen>>

-----------------------------------------------------------------------------

WorkerStep(t) ==
  \/ TakeSem(t)
  \/ TakeMutex(t)
  \/ Continue(t)
  \/ Draw(t)
  \/ ReleaseMutex(t)
  \/ Touch(t)
  \/ Nap(t)
  \/ ReleaseSem(t)

MainStep == StartNext \/ MainReturns

Next ==
  \/ MainStep
  \/ BookSystemInit
  \/ \E t \in Workers : WorkerStep(t) \/ BusyWait(t) \/ Wake(t)
  \/ \E p \in PageSet : Serve(p)
  \/ BusyWaitEnds
  \/ TimeSlice

Spec == Init /\ [][Next]_vars

(* A thread that is picked again and again runs, for the others sleep 20   *)
(* ticks at a time; delays end and timers fire.  No touch is assumed.      *)
Fairness ==
  /\ SF_vars(MainStep)
  /\ WF_vars(BookSystemInit)
  /\ \A t \in Workers : SF_vars(WorkerStep(t)) /\ WF_vars(Wake(t))
  /\ \A p \in PageSet : SF_vars(Serve(p))
  /\ WF_vars(BusyWaitEnds)

FairSpec == Spec /\ Fairness

-----------------------------------------------------------------------------

TypeOK ==
  /\ KernelTypeOK
  /\ pc \in [Workers -> {"boot", "wait", "took", "lock", "locked", "draw",
                         "unlock", "serve", "poll", "give"}]
  /\ started \in 0..Len(StartOrder)
  /\ book_head \in BOOLEAN
  /\ lcd_index \in PageSet \cup {Nobody}
  /\ screen \in Workers \cup {Nobody}

(* No page thread runs before the list of books exists, although nothing   *)
(* but the priorities orders book_system_init() in the LCD thread before   *)
(* the rt_thread_startup of the threads that read book_head.               *)
BooksBeforePages == \A p \in PageSet : sched.stat[p] # "INIT" => book_head

(* The hand-off makes lcd_mutex redundant: no thread ever waits for it.    *)
MutexNeverContended == mutex[LcdMutex].waiters = <<>>

(* Touching an icon brings up that page; touching RETURN the cover.        *)
ChoiceServed == \A p \in PageSet :
  (pc[Lcd] = "give" /\ lcd_index = p) ~> (sched.cur = p /\ pc[p] = "serve")
ReturnReachesCover == \A p \in PageSet :
  pc[p] = "give" ~> (sched.cur = Lcd /\ pc[Lcd] = "poll")

-----------------------------------------------------------------------------
(* A thread that was resumed by a release but has not run since still      *)
(* stands in front of its semaphore in Handoff, with the unit handed to it *)
(* counted there.                                                          *)

AbstractPlace(t) ==
  IF sched.stat[t] = "INIT" THEN "off"
  ELSE CASE pc[t] = "took"   -> "wait"
         [] pc[t] = "locked" -> "lock"
         [] pc[t] = "poll"   -> "serve"
         [] OTHER            -> pc[t]

Handed(t) == pc[t] = "took" /\ sched.stat[t] = "READY"

H == INSTANCE Handoff WITH
  Pages <- PageSet,
  None <- Nobody,
  pc <- [t \in Workers |-> AbstractPlace(t)],
  sem <- [t \in Workers |-> sem[t].value + IF Handed(t) THEN 1 ELSE 0],
  lcd_mutex <- IF \E t \in Workers : mutex[LcdMutex].owner = t /\ pc[t] = "locked"
               THEN Nobody ELSE mutex[LcdMutex].owner

(* On RT-Thread the threads pass the screen on as Handoff says.            *)
ImplementsHandoff == H!Spec
=============================================================================
