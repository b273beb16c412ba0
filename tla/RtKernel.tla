------------------------------ MODULE RtKernel ------------------------------
(***************************************************************************)
(* The part of RT-Thread 3.0.3 the application runs on: the ready lists    *)
(* and the scheduler (scheduler.c), suspending, resuming, sleeping and     *)
(* leaving (thread.c), and semaphores and mutexes with RT_IPC_FLAG_PRIO    *)
(* (ipc.c), mutexes with a time to wait, semaphores taken with             *)
(* RT_WAITING_FOREVER.  A kernel call runs with interrupts disabled, so    *)
(* each is one operator on the kernel's state.                             *)
(*                                                                         *)
(* sched is the scheduler's state:                                         *)
(*   stat   RT_THREAD_INIT, READY, SUSPEND or CLOSE of each thread         *)
(*   prio   current_priority of each thread, 0 the most urgent             *)
(*   table  rt_thread_priority_table: the ready threads of each priority   *)
(*   cur    rt_current_thread                                              *)
(*   nest   rt_scheduler_lock_nest                                         *)
(*   armed  the threads whose thread_timer is running                      *)
(***************************************************************************)
EXTENDS Integers, FiniteSets, Sequences, SequencesExt

CONSTANTS
  Thread,        \* every thread, the idle thread included
  InitPriority,  \* init_priority of each thread
  Idle,          \* the idle thread
  Sem, Mutex,    \* the IPC objects
  Nobody         \* RT_NULL for a thread

ASSUME KernelAssumption ==
  /\ InitPriority \in [Thread -> Nat]
  /\ Idle \in Thread
  /\ \A t \in Thread \ {Idle} : InitPriority[t] < InitPriority[Idle]
  /\ Nobody \notin Thread

VARIABLES sched, sem, mutex

kernel == <<sched, sem, mutex>>

RT_WAITING_FOREVER == -1

Priorities == {InitPriority[t] : t \in Thread}

(* After rt_system_scheduler_start: the threads in Up are on their ready   *)
(* lists and the most urgent of them, first, runs.                         *)
KernelInit(Up, first) ==
  /\ sched = [stat  |-> [t \in Thread |-> IF t \in Up THEN "READY" ELSE "INIT"],
              prio  |-> InitPriority,
              table |-> [p \in Priorities |->
                           SetToSeq({t \in Up : InitPriority[t] = p})],
              cur   |-> first,
              nest  |-> 0,
              armed |-> {}]
  /\ sem = [o \in Sem |-> [value |-> 0, waiters |-> <<>>]]
  /\ mutex = [m \in Mutex |-> [value |-> 1, hold |-> 0, owner |-> Nobody,
                               original |-> 255, waiters |-> <<>>]]

-----------------------------------------------------------------------------
(* scheduler.c *)

MostUrgent(s) == CHOOSE p \in Priorities :
  /\ s.table[p] # <<>>
  /\ \A q \in Priorities : s.table[q] # <<>> => p <= q

rt_schedule(s) ==
  IF s.nest = 0 THEN [s EXCEPT !.cur = Head(s.table[MostUrgent(s)])] ELSE s

rt_schedule_insert_thread(s, t) ==
  [s EXCEPT !.stat[t] = "READY", !.table[s.prio[t]] = Append(@, t)]

rt_schedule_remove_thread(s, t) ==
  [s EXCEPT !.table[s.prio[t]] = RemoveFirst(@, t)]

rt_enter_critical(s) == [s EXCEPT !.nest = @ + 1]

(* Mutant: unlocking does not look for a more urgent thread.               *)
rt_exit_critical_keeps(s) == [s EXCEPT !.nest = @ - 1]

rt_exit_critical(s) ==
  IF s.nest <= 1 THEN rt_schedule([s EXCEPT !.nest = 0]) ELSE [s EXCEPT !.nest = @ - 1]

-----------------------------------------------------------------------------
(* thread.c *)

(* Mutant: the suspended thread stays on its ready list.                   *)
rt_thread_suspend_linked(s, t) ==
  IF s.stat[t] # "READY" THEN s ELSE [s EXCEPT !.stat[t] = "SUSPEND"]

rt_thread_suspend(s, t) ==
  IF s.stat[t] # "READY" THEN s
  ELSE [rt_schedule_remove_thread(s, t) EXCEPT !.stat[t] = "SUSPEND", !.armed = @ \ {t}]

rt_thread_resume(s, t) ==
  IF s.stat[t] # "SUSPEND" THEN s
  ELSE rt_schedule_insert_thread([s EXCEPT !.armed = @ \ {t}], t)

rt_thread_startup(s, t) ==
  rt_schedule(rt_thread_resume([s EXCEPT !.prio[t] = InitPriority[t],
                                         !.stat[t] = "SUSPEND"], t))

rt_thread_delay(s, t) ==
  LET suspended == rt_thread_suspend(s, t)
  IN  rt_schedule([suspended EXCEPT !.armed = @ \cup {t}])

rt_thread_exit(s, t) ==
  rt_schedule([rt_schedule_remove_thread(s, t) EXCEPT
                 !.stat[t] = "CLOSE", !.armed = @ \ {t}])

(* The time slice of the running thread is used up.                        *)
rt_thread_yield(s) ==
  LET p == s.prio[s.cur]
  IN  IF s.stat[s.cur] = "READY" /\ Len(s.table[p]) > 1
      THEN rt_schedule([s EXCEPT !.table[p] = Append(RemoveFirst(@, s.cur), s.cur)])
      ELSE s

(* The timer of a thread fires.  If the thread waits for a mutex, it also  *)
(* leaves the list of waiters, see GiveUp.                                 *)
rt_thread_timeout(s, t) ==
  rt_schedule(rt_schedule_insert_thread([s EXCEPT !.armed = @ \ {t}], t))

(* rt_thread_control, RT_THREAD_CTRL_CHANGE_PRIORITY                       *)
ChangePriority(s, t, p) ==
  IF s.stat[t] = "READY"
  THEN rt_schedule_insert_thread(
         [rt_schedule_remove_thread(s, t) EXCEPT !.prio[t] = p], t)
  ELSE [s EXCEPT !.prio[t] = p]

-----------------------------------------------------------------------------
(* ipc.c *)

(* Mutant: first come, first served.                                       *)
EnqueueLast(s, list, t) == Append(list, t)

(* rt_ipc_list_suspend: before the first waiter that is less urgent.       *)
Enqueue(s, list, t) ==
  LET later == {i \in DOMAIN list : s.prio[t] < s.prio[list[i]]}
  IN  IF later = {} THEN Append(list, t)
      ELSE InsertAt(list, CHOOSE i \in later : \A j \in later : i <= j, t)

(* Mutant: the count is not looked at.                                     *)
rt_sem_take_unchecked(t, o) ==
  /\ sem' = [sem EXCEPT ![o].value = @ - 1]
  /\ UNCHANGED sched

(* The caller goes on when the count was positive; otherwise it waits, and *)
(* when it runs again the unit was handed to it.                           *)
rt_sem_take(t, o) ==
  \/ /\ sem[o].value > 0
     /\ sem' = [sem EXCEPT ![o].value = @ - 1]
     /\ UNCHANGED sched
  \/ /\ sem[o].value = 0
     /\ sem' = [sem EXCEPT ![o].waiters = Enqueue(sched, @, t)]
     /\ sched' = rt_schedule(rt_thread_suspend(sched, t))

(* Mutant: the waiters are not looked at.                                  *)
rt_sem_release_wakes_nobody(o) ==
  /\ sem' = [sem EXCEPT ![o].value = @ + 1]
  /\ UNCHANGED sched

rt_sem_release(o) ==
  \/ /\ sem[o].waiters # <<>>
     /\ sem' = [sem EXCEPT ![o].waiters = Tail(@)]
     /\ sched' = rt_schedule(rt_thread_resume(sched, Head(sem[o].waiters)))
  \/ /\ sem[o].waiters = <<>>
     /\ sem' = [sem EXCEPT ![o].value = @ + 1]
     /\ UNCHANGED sched

(* Mutant: nothing is lent.                                                *)
LendNothing(t, m) == sched

(* A waiter more urgent than the owner lends it its priority.              *)
Lend(t, m) ==
  IF sched.prio[t] < sched.prio[mutex[m].owner]
  THEN ChangePriority(sched, mutex[m].owner, sched.prio[t])
  ELSE sched

(* Mutant: value is not looked at.                                         *)
rt_mutex_take_unchecked(t, m, time) ==
  /\ mutex' = [mutex EXCEPT ![m].value = 0, ![m].hold = @ + 1,
                            ![m].owner = t, ![m].original = sched.prio[t]]
  /\ UNCHANGED sched

(* Who waits only for some time also starts its timer; who does not wait   *)
(* at all gets -RT_ETIMEOUT and nothing has changed.                       *)
rt_mutex_take(t, m, time) ==
  \/ /\ mutex[m].owner = t
     /\ mutex' = [mutex EXCEPT ![m].hold = @ + 1]
     /\ UNCHANGED sched
  \/ /\ mutex[m].owner # t
     /\ mutex[m].value > 0
     /\ mutex' = [mutex EXCEPT ![m].value = @ - 1, ![m].hold = @ + 1,
                               ![m].owner = t, ![m].original = sched.prio[t]]
     /\ UNCHANGED sched
  \/ /\ mutex[m].owner # t
     /\ mutex[m].value = 0
     /\ time = 0
     /\ UNCHANGED <<mutex, sched>>
  \/ /\ mutex[m].owner # t
     /\ mutex[m].value = 0
     /\ time # 0
     /\ mutex' = [mutex EXCEPT ![m].waiters = Enqueue(Lend(t, m), @, t)]
     /\ sched' = rt_schedule([rt_thread_suspend(Lend(t, m), t) EXCEPT
                               !.armed = IF time > 0 THEN @ \cup {t} ELSE @])

(* Mutant: whose time is up stays on the list of waiters.                  *)
StayListed(waiters, t) == waiters

(* rt_list_remove(&(thread->tlist)) for a thread whose time is up.         *)
GiveUp(waiters, t) == RemoveFirst(waiters, t)

(* Mutant: the owner keeps what it was lent.                               *)
KeepPriority(t, m) == sched

(* The owner gets its own priority back.                                   *)
Restore(t, m) ==
  IF mutex[m].original # sched.prio[t]
  THEN ChangePriority(sched, t, mutex[m].original)
  ELSE sched

(* Mutant: the waiters are not looked at.                                  *)
rt_mutex_release_wakes_nobody(t, m) ==
  IF mutex[m].owner # t \/ mutex[m].hold > 1 THEN UNCHANGED <<mutex, sched>>
  ELSE /\ mutex' = [mutex EXCEPT ![m].value = 1, ![m].hold = 0,
                                 ![m].owner = Nobody, ![m].original = 255]
       /\ sched' = Restore(t, m)

(* The first waiter becomes the owner before it runs.                      *)
rt_mutex_release(t, m) ==
  LET restored == Restore(t, m)
      next == Head(mutex[m].waiters)
  IN  \/ /\ mutex[m].owner # t
         /\ UNCHANGED <<mutex, sched>>
      \/ /\ mutex[m].owner = t
         /\ mutex[m].hold > 1
         /\ mutex' = [mutex EXCEPT ![m].hold = @ - 1]
         /\ UNCHANGED sched
      \/ /\ mutex[m].owner = t
         /\ mutex[m].hold = 1
         /\ mutex[m].waiters # <<>>
         /\ mutex' = [mutex EXCEPT ![m].owner = next,
                                   ![m].original = restored.prio[next],
                                   ![m].waiters = Tail(@)]
         /\ sched' = rt_schedule(rt_thread_resume(restored, next))
      \/ /\ mutex[m].owner = t
         /\ mutex[m].hold = 1
         /\ mutex[m].waiters = <<>>
         /\ mutex' = [mutex EXCEPT ![m].value = @ + 1, ![m].hold = 0,
                                   ![m].owner = Nobody, ![m].original = 255]
         /\ sched' = restored

-----------------------------------------------------------------------------
(* What the kernel promises, whatever threads run on it.                   *)

KernelTypeOK ==
  /\ sched.stat \in [Thread -> {"INIT", "READY", "SUSPEND", "CLOSE"}]
  /\ sched.prio \in [Thread -> Priorities]
  /\ sched.cur \in Thread
  /\ sched.nest \in Nat
  /\ sched.armed \subseteq Thread
  /\ \A o \in Sem : sem[o].value \in Nat
  /\ \A m \in Mutex : mutex[m].value \in {0, 1} /\ mutex[m].hold \in Nat

(* The lists a thread is on by its tlist: that of its priority when it is  *)
(* ready, one list of waiters when it waits, and none when it only sleeps, *)
(* so no thread is ever linked into two lists or lost from all of them.    *)
(* A thread that does not wait for its timer has none that could wake it.  *)
ReadyLists(t) == {p \in Priorities : t \in ToSet(sched.table[p])}

WaitLists(t) == {o \in Sem : t \in ToSet(sem[o].waiters)} \cup
                {m \in Mutex : t \in ToSet(mutex[m].waiters)}

OneList == \A t \in Thread :
  /\ ReadyLists(t) = IF sched.stat[t] = "READY" THEN {sched.prio[t]} ELSE {}
  /\ CASE sched.stat[t] = "SUSPEND" ->
            \/ Cardinality(WaitLists(t)) = 1
            \/ WaitLists(t) = {} /\ t \in sched.armed
       [] OTHER -> WaitLists(t) = {} /\ t \notin sched.armed

(* No ready thread is more urgent than the one that runs, unless           *)
(* scheduling is locked.                                                   *)
Urgent == sched.nest = 0 =>
  /\ sched.stat[sched.cur] = "READY"
  /\ \A t \in Thread : sched.stat[t] = "READY" => sched.prio[sched.cur] <= sched.prio[t]

(* No wakeup is lost: nobody waits for what is there.                      *)
NoLostWakeup ==
  /\ \A o \in Sem : sem[o].value > 0 => sem[o].waiters = <<>>
  /\ \A m \in Mutex : /\ mutex[m].value > 0 => mutex[m].waiters = <<>>
                      /\ (mutex[m].owner = Nobody) <=> (mutex[m].value = 1)
=============================================================================
