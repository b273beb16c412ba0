---------------------------- MODULE MutexClients ----------------------------
(***************************************************************************)
(* Threads of different priorities that share one RT-Thread mutex the way  *)
(* the application's threads may use lcd_mutex: take it, perhaps again and *)
(* perhaps only for some time, sleep, lock the scheduler for a delay_us,   *)
(* release it.  Sleeps and waits end by the kernel's list of timers, which *)
(* the SysTick interrupt serves between any two steps.  The hand-off keeps *)
(* lcd_mutex free of contention (see Handoff), so the contended paths of   *)
(* rt_mutex_take and rt_mutex_release are exercised here.                  *)
(***************************************************************************)
EXTENDS RtKernel, TimerList

CONSTANTS
  M,        \* the mutex
  MaxHold,  \* bound: how often the owner takes the mutex again
  Ticks     \* bound: the times to sleep or to wait that are asked for

ASSUME ClientAssumption ==
  /\ IsFiniteSet(Thread)
  /\ Mutex = {M} /\ MaxHold \in Nat \ {0}
  /\ Ticks \subseteq 0..(Half - 1)

VARIABLES
  at,       \* per client: outside, waiting inside rt_mutex_take, or owner
  asleep,   \* the clients inside rt_thread_delay
  late,     \* the clients inside a call whose thread->error is -RT_ETIMEOUT
  rt_tick,  \* the ticks since the start, modulo TickMod
  timers    \* rt_timer_list

vars == <<kernel, at, asleep, late, rt_tick, timers>>

Clients == Thread \ {Idle}

Init ==
  \E first \in Clients :
    /\ \A t \in Thread : InitPriority[first] <= InitPriority[t]
    /\ KernelInit(Thread, first)
    /\ first = Head(sched.table[InitPriority[first]])
    /\ at = [t \in Clients |-> "out"]
    /\ asleep = {}
    /\ late = {}
    /\ rt_tick = 0
    /\ timers = rt_system_timer_init(Clients)

Running(t) == sched.cur = t /\ sched.nest = 0

(* A thread between two kernel calls.                                      *)
Free(t) == Running(t) /\ at[t] # "want" /\ t \notin asleep

Take(t, time) ==
  /\ Free(t)
  /\ at[t] = "out" \/ (at[t] = "in" /\ mutex[M].hold < MaxHold)
  /\ rt_mutex_take(t, M, time)
  /\ LET waits == sched'.stat[t] = "SUSPEND"
     IN  /\ at' = [at EXCEPT ![t] = CASE mutex'[M].owner = t -> "in"
                                      [] waits               -> "want"
                                      [] OTHER               -> "out"]
         /\ timers' = IF waits /\ time > 0
                      THEN rt_timer_start(rt_timer_stop(timers, t), t, rt_tick, time)
                      ELSE timers
  /\ UNCHANGED <<sem, asleep, late, rt_tick>>

(* Mutant: thread->error is not looked at.                                 *)
RunsOnUnchecked(t) ==
  /\ Running(t)
  /\ at[t] = "want"
  /\ at' = [at EXCEPT ![t] = "in"]
  /\ UNCHANGED <<kernel, asleep, late, rt_tick, timers>>

(* The waiter runs again behind the rt_schedule() of rt_mutex_take.        *)
RunsOn(t) ==
  /\ Running(t)
  /\ at[t] = "want"
  /\ at' = [at EXCEPT ![t] = IF t \in late THEN "out" ELSE "in"]
  /\ late' = late \ {t}
  /\ UNCHANGED <<kernel, asleep, rt_tick, timers>>

(* Resuming the new owner stops the timer it may have started.             *)
Release(t) ==
  /\ Free(t)
  /\ rt_mutex_release(t, M)
  /\ LET next == mutex'[M].owner
     IN  /\ at' = [at EXCEPT ![t] = IF next = t THEN "in" ELSE "out"]
         /\ timers' = IF next \in Clients \ {t, mutex[M].owner}
                      THEN rt_timer_stop(timers, next) ELSE timers
  /\ UNCHANGED <<sem, asleep, late, rt_tick>>

Sleep(t, time) ==
  /\ Free(t)
  /\ sched' = rt_thread_delay(sched, t)
  /\ timers' = rt_timer_start(rt_timer_stop(timers, t), t, rt_tick, time)
  /\ asleep' = asleep \cup {t}
  /\ UNCHANGED <<sem, mutex, at, late, rt_tick>>

(* The sleeper runs again behind the rt_schedule() of rt_thread_sleep.     *)
Awakes(t) ==
  /\ Running(t)
  /\ t \in asleep
  /\ asleep' = asleep \ {t}
  /\ late' = late \ {t}
  /\ UNCHANGED <<kernel, at, rt_tick, timers>>

(* delay_us locks the scheduler while it counts microseconds.              *)
BusyWait(t) ==
  /\ Free(t)
  /\ sched' = rt_enter_critical(sched)
  /\ UNCHANGED <<sem, mutex, at, asleep, late, rt_tick, timers>>

BusyWaitEnds ==
  /\ sched.nest > 0
  /\ sched' = rt_exit_critical(sched)
  /\ UNCHANGED <<sem, mutex, at, asleep, late, rt_tick, timers>>

(* What the end of the time of t makes of the threads and the waiters.     *)
TimeUp(k, t) == [sched   |-> rt_thread_timeout(k.sched, t),
                 waiters |-> GiveUp(k.waiters, t)]

(* rt_timer_check calls the functions of the expired timers one by one.    *)
Served(s, expired) ==
  LET after[n \in Nat] == IF n = 0 THEN [sched |-> s, waiters |-> mutex[M].waiters]
                          ELSE TimeUp(after[n - 1], expired[n])
  IN  after[Len(expired)]

(* SysTick_Handler: rt_tick_increase counts, perhaps ends the time slice   *)
(* of the running thread, and serves the timers.  How many ticks a slice   *)
(* has is left open.                                                       *)
Tick(sliceOver) ==
  LET now     == (rt_tick + 1) % TickMod
      expired == Expired(timers, now)
      sliced  == IF sliceOver THEN rt_thread_yield(sched) ELSE sched
      served  == Served(sliced, expired)
  IN  /\ rt_tick' = now
      /\ timers' = rt_timer_check(timers, now)
      /\ sched' = served.sched
      /\ mutex' = [mutex EXCEPT ![M].waiters = served.waiters]
      /\ late' = late \cup ToSet(expired)
      /\ UNCHANGED <<sem, at, asleep>>

Next ==
  \/ \E t \in Clients :
       \/ \E time \in Ticks \cup {RT_WAITING_FOREVER} : Take(t, time)
       \/ RunsOn(t)
       \/ Release(t)
       \/ \E time \in Ticks : Sleep(t, time)
       \/ Awakes(t)
       \/ BusyWait(t)
  \/ BusyWaitEnds
  \/ \E sliceOver \in BOOLEAN : Tick(sliceOver)

Spec == Init /\ [][Next]_vars

-----------------------------------------------------------------------------

(* No ready thread is passed over: whoever starts to run is the most       *)
(* urgent, and remains it.  There is one exception, and the property says  *)
(* that it is the only one: an owner that gives up a mutex nobody waits    *)
(* for any more, and with it a priority lent by a thread whose time was    *)
(* up, goes on although a more urgent thread is ready, for                 *)
(* rt_mutex_release schedules only when it wakes somebody.                 *)
GivesUpLoan(t) ==
  /\ mutex[M].owner = t /\ mutex'[M].owner = Nobody
  /\ sched.prio[t] < sched'.prio[t]

MostUrgentRuns ==
  [][/\ sched'.cur # sched.cur => Urgent'
     /\ Urgent => Urgent' \/ GivesUpLoan(sched.cur)]_vars

(* Two threads never both believe that they own the mutex, also when it    *)
(* changes hands inside rt_mutex_release before its new owner has run; a   *)
(* thread that runs again after waiting has the mutex it waited for unless *)
(* its time was up, and then it has not.                                   *)
MutualExclusion == \A t \in Clients :
  /\ at[t] = "in" => mutex[M].owner = t
  /\ at[t] = "want" /\ sched.stat[t] = "READY" =>
       (mutex[M].owner = t <=> t \notin late)

(* Priority inheritance: while a thread waits for the mutex and its owner  *)
(* could run, nothing less urgent than the waiter runs.                    *)
NoPriorityInversion ==
  \A w \in ToSet(mutex[M].waiters) :
    sched.stat[mutex[M].owner] = "READY" /\ sched.nest = 0
      => sched.prio[sched.cur] <= sched.prio[w]

(* What was lent is given back: a thread without the mutex has its own     *)
(* priority, an owner never a less urgent one.                             *)
PriorityGivenBack == \A t \in Clients :
  IF mutex[M].owner = t THEN sched.prio[t] <= InitPriority[t]
                        ELSE sched.prio[t] = InitPriority[t]

(* The mutex changes hands only to a thread already waiting for it, and to *)
(* none less urgent than another waiter: nobody slips in between release   *)
(* and wakeup, which value staying 0 across the hand-off is for.           *)
NoOvertaking ==
  [][\A t, u \in Clients :
       /\ t # u
       /\ t \in ToSet(mutex[M].waiters)
       /\ mutex[M].owner # u /\ mutex'[M].owner = u
       => /\ u \in ToSet(mutex[M].waiters)
          /\ sched.prio[u] <= sched.prio[t]]_vars

(* The kernel's list of timers is whole and in order at every tick, also   *)
(* when ticks start again from 0, and holds just the threads that may be   *)
(* woken by one: no timer of an earlier wait is left to end a later one.   *)
TimersSound ==
  /\ ListSound(timers, rt_tick)
  /\ sched.armed = ToSet(timers.list)

(* A sleep or a wait ends at the tick that was asked for: see Alarms.      *)
A == INSTANCE Alarms WITH
  Sleeper  <- Clients,
  MaxTicks <- Half - 1,
  left     <- [t \in Clients |-> TicksLeft(timers, t, rt_tick)],
  rang     <- {t \in Clients : /\ t \in asleep \/ at[t] = "want"
                               /\ sched.stat[t] = "READY"
                               /\ t \in late}

ImplementsAlarms == A!Spec
=============================================================================
