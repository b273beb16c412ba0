------------------------------- MODULE Handoff -------------------------------
(***************************************************************************)
(* The threads of User/main.c and the semaphores by which they pass the    *)
(* screen to one another, at the level of what a semaphore promises: a     *)
(* take waits until the count is positive.  The LCD thread shows the cover *)
(* and, when an icon is touched, releases the semaphore of that page; the  *)
(* page's thread draws itself, serves the user and, when RETURN is         *)
(* touched, releases lcd_sem.  lcd_mutex guards only the first drawing of  *)
(* each screen: everything a page draws while it serves the user is        *)
(* protected by the hand-off alone.                                        *)
(*                                                                         *)
(* Any thread that can move may move here.  LibraryThreads refines this    *)
(* module with RT-Thread's queues, priorities and scheduler.               *)
(***************************************************************************)
EXTENDS Naturals

CONSTANTS
  Lcd,     \* the thread of lcd_thread_entry
  Pages,   \* the threads of find, borrow, giveback and change
  None     \* no thread

ASSUME ThreadAssumption == /\ Lcd \notin Pages
                           /\ None \notin Pages
                           /\ None # Lcd

Threads == Pages \cup {Lcd}

VARIABLES
  pc,         \* where each thread stands
  sem,        \* the count of the semaphore each thread takes
  lcd_mutex,  \* the owner of lcd_mutex
  lcd_index,  \* the icon the LCD thread saw touched
  screen      \* whose drawing is on the LCD

vars == <<pc, sem, lcd_mutex, lcd_index, screen>>

Places == {"off", "boot", "wait", "lock", "draw", "unlock", "serve", "give"}

Init ==
  /\ pc = [t \in Threads |-> "off"]
  /\ sem = [t \in Threads |-> 0]
  /\ lcd_mutex = None
  /\ lcd_index = None
  /\ screen = None

Go(t, from, to) == /\ pc[t] = from
                   /\ pc' = [pc EXCEPT ![t] = to]

(* main(): rt_thread_startup of the LCD thread, then of the pages.         *)
Start(t) ==
  /\ IF t = Lcd THEN Go(t, "off", "boot")
                ELSE pc[Lcd] # "off" /\ Go(t, "off", "wait")
  /\ UNCHANGED <<sem, lcd_mutex, lcd_index, screen>>

(* The LCD thread first builds the list of books.                          *)
BookSystemInit ==
  /\ Go(Lcd, "boot", "lock")
  /\ UNCHANGED <<sem, lcd_mutex, lcd_index, screen>>

(* Mutant: the semaphore does not block.                                   *)
TakeSemUnchecked(t) ==
  /\ Go(t, "wait", "lock")
  /\ sem' = [sem EXCEPT ![t] = @ - 1]
  /\ UNCHANGED <<lcd_mutex, lcd_index, screen>>

(* rt_sem_take of the thread's own semaphore, RT_WAITING_FOREVER.          *)
TakeSem(t) ==
  /\ sem[t] > 0
  /\ Go(t, "wait", "lock")
  /\ sem' = [sem EXCEPT ![t] = @ - 1]
  /\ UNCHANGED <<lcd_mutex, lcd_index, screen>>

TakeMutex(t) ==
  /\ lcd_mutex = None
  /\ Go(t, "lock", "draw")
  /\ lcd_mutex' = t
  /\ UNCHANGED <<sem, lcd_index, screen>>

(* Mutant: a page serves the user without having drawn itself.             *)
DrawCoverOnly(t) ==
  /\ Go(t, "draw", "unlock")
  /\ screen' = IF t = Lcd THEN t ELSE screen
  /\ UNCHANGED <<sem, lcd_mutex, lcd_index>>

(* ICON_UI_Init, Change_ICON_Init or the LCD_Clear of a page.              *)
Draw(t) ==
  /\ Go(t, "draw", "unlock")
  /\ screen' = t
  /\ UNCHANGED <<sem, lcd_mutex, lcd_index>>

ReleaseMutex(t) ==
  /\ Go(t, "unlock", "serve")
  /\ lcd_mutex' = None
  /\ UNCHANGED <<sem, lcd_index, screen>>

(* get_icon_app_table() # 0xff: an icon of the cover was touched.          *)
Choose(p) ==
  /\ Go(Lcd, "serve", "give")
  /\ lcd_index' = p
  /\ UNCHANGED <<sem, lcd_mutex, screen>>

(* One round of a page's loop: it draws on the LCD without the mutex.      *)
Serve(p) ==
  /\ pc[p] = "serve"
  /\ screen' = p
  /\ UNCHANGED <<pc, sem, lcd_mutex, lcd_index>>

(* Mutant: a page leaves its loop without the release of lcd_sem.          *)
ReturnForgetsRelease(p) ==
  /\ Go(p, "serve", "wait")
  /\ UNCHANGED <<sem, lcd_mutex, lcd_index, screen>>

(* get_return_table() # 0: RETURN was touched.                             *)
Return(p) ==
  /\ Go(p, "serve", "give")
  /\ UNCHANGED <<sem, lcd_mutex, lcd_index, screen>>

(* Mutant: a case of the switch releases another page's semaphore.         *)
SuccessorSwapped(t) ==
  IF t = Lcd THEN CHOOSE p \in Pages : p # lcd_index ELSE Lcd

(* The semaphore a thread releases: the chosen page's, or lcd_sem.         *)
Successor(t) == IF t = Lcd THEN lcd_index ELSE Lcd

(* Mutant: the LCD thread does not wait for lcd_sem.                       *)
ReleaseSemWithoutWaiting(t) ==
  /\ Go(t, "give", IF t = Lcd THEN "lock" ELSE "wait")
  /\ sem' = [sem EXCEPT ![Successor(t)] = @ + 1]
  /\ UNCHANGED <<lcd_mutex, lcd_index, screen>>

ReleaseSem(t) ==
  /\ Go(t, "give", "wait")
  /\ sem' = [sem EXCEPT ![Successor(t)] = @ + 1]
  /\ UNCHANGED <<lcd_mutex, lcd_index, screen>>

Step(t) ==
  \/ Start(t)
  \/ TakeSem(t)
  \/ TakeMutex(t)
  \/ Draw(t)
  \/ ReleaseMutex(t)
  \/ ReleaseSem(t)

UserStep(p) == Choose(p) \/ Serve(p) \/ Return(p)

Next ==
  \/ BookSystemInit
  \/ \E t \in Threads : Step(t)
  \/ \E p \in Pages : UserStep(p)

Spec == Init /\ [][Next]_vars

-----------------------------------------------------------------------------

TypeOK ==
  /\ pc \in [Threads -> Places]
  /\ sem \in [Threads -> Nat]
  /\ lcd_mutex \in Threads \cup {None}
  /\ lcd_index \in Pages \cup {None}
  /\ screen \in Threads \cup {None}

(* The thread is past its semaphore and has not passed the screen on.      *)
Active(t) == pc[t] \in {"boot", "lock", "draw", "unlock", "serve", "give"}

(* The screen is this thread's: it has it, or it was released to it.       *)
Holds(t) == Active(t) \/ sem[t] > 0

(* A screen is never handed to two threads, and no release is counted      *)
(* twice: at most one thread is between its rt_sem_take and the release    *)
(* that ends its turn, and nothing is pending for another one meanwhile.   *)
OneOwner ==
  /\ \A t, u \in Threads : Holds(t) /\ Holds(u) => t = u
  /\ \A t \in Threads : sem[t] <= 1 /\ ~(Active(t) /\ sem[t] > 0)

(* The hand-off is never lost: once the LCD thread runs, the screen is     *)
(* always somebody's, so the console cannot fall silent for good.          *)
NeverLost == pc[Lcd] # "off" => \E t \in Threads : Holds(t)

(* What a thread serves the user with is what the user sees: while a       *)
(* thread serves, its own drawing is on the LCD, although the drawing of   *)
(* the loops of main.c is done without lcd_mutex.                          *)
ShownWhileServing == \A t \in Threads : pc[t] = "serve" => screen = t

(* A page serves only while the cover's choice still names it.             *)
ChosenPageServes == \A p \in Pages : Active(p) => lcd_index = p
=============================================================================
