------------------------------ MODULE TimerList ------------------------------
(***************************************************************************)
(* RT-Thread's list of hard timers (timer.c) as the threads' own timers    *)
(* use it: one-shot, and linked in one row (RT_TIMER_SKIP_LIST_LEVEL is 1  *)
(* and there are no soft timers).  A timer is named by its thread.         *)
(*                                                                         *)
(* A list of timers is a record:                                           *)
(*   list     rt_timer_list, the next to expire first                      *)
(*   timeout  timeout_tick of each timer, modulo TickMod; 0 while it is    *)
(*            not linked, for then nothing reads it                        *)
(*   active   RT_TIMER_FLAG_ACTIVATED of each timer                        *)
(***************************************************************************)
EXTENDS Integers, Sequences, SequencesExt

CONSTANT TickMod   \* RT_TICK_MAX + 1, where rt_tick starts again from 0

(* RT_TICK_MAX is 0xffffffff.  Five ticks are the fewest with which the    *)
(* check at the next tick still finds a timer of no ticks.                 *)
ASSUME TickAssumption == TickMod \in Nat /\ TickMod > 4

(* RT_TICK_MAX / 2: a shorter way round the clock is forwards.             *)
Half == (TickMod - 1) \div 2

(* Unsigned subtraction of ticks.                                          *)
Minus(a, b) == (a - b) % TickMod

rt_system_timer_init(owners) ==
  [list    |-> <<>>,
   timeout |-> [t \in owners |-> 0],
   active  |-> [t \in owners |-> FALSE]]

Unlinked(tl, t) == RemoveFirst(tl.list, t)

(* Mutant: the flag is cleared, the timer stays linked.                    *)
rt_timer_stop_linked(tl, t) == [tl EXCEPT !.active[t] = FALSE]

rt_timer_stop(tl, t) ==
  IF tl.active[t] THEN [tl EXCEPT !.list       = Unlinked(tl, t),
                                  !.timeout[t] = 0,
                                  !.active[t]  = FALSE]
                  ELSE tl

(* Mutant: ticks are compared as if they never started again from 0.       *)
LaterUnwrapped(tl, u, when) == tl.timeout[u] > when

(* u expires after the tick `when`.                                        *)
Later(tl, u, when) ==
  /\ tl.timeout[u] # when
  /\ Minus(tl.timeout[u], when) < Half

(* Started at tick now, t goes in front of the first timer that expires    *)
(* later, behind those that expire with it.                                *)
rt_timer_start(tl, t, now, time) ==
  LET when  == (now + time) % TickMod
      rest  == Unlinked(tl, t)
      later == {i \in DOMAIN rest : Later(tl, rest[i], when)}
      place == IF later = {} THEN Len(rest) + 1
               ELSE CHOOSE i \in later : \A j \in later : i <= j
  IN  [list    |-> InsertAt(rest, place, t),
       timeout |-> [tl.timeout EXCEPT ![t] = when],
       active  |-> [tl.active EXCEPT ![t] = TRUE]]

(* Mutant: the first timer only.                                           *)
ExpiredFirst(tl, now) ==
  IF tl.list # <<>> /\ Minus(now, tl.timeout[Head(tl.list)]) < Half
  THEN <<Head(tl.list)>> ELSE <<>>

(* rt_timer_check takes timers off the head until one has time left.       *)
Expired(tl, now) ==
  LET due   == {i \in DOMAIN tl.list : Minus(now, tl.timeout[tl.list[i]]) < Half}
      count == CHOOSE n \in 0..Len(tl.list) : 1..n \subseteq due /\ n + 1 \notin due
  IN  SubSeq(tl.list, 1, count)

(* What it leaves; the expired timers' functions do not start any again.   *)
rt_timer_check(tl, now) ==
  LET expired == Expired(tl, now)
      fired   == ToSet(expired)
  IN  [list    |-> SubSeq(tl.list, Len(expired) + 1, Len(tl.list)),
       timeout |-> [t \in DOMAIN tl.timeout |-> IF t \in fired THEN 0 ELSE tl.timeout[t]],
       active  |-> [t \in DOMAIN tl.active |-> tl.active[t] /\ t \notin fired]]

-----------------------------------------------------------------------------

(* The ticks until t expires; a timer of no ticks is served by the next.   *)
TicksLeft(tl, t, now) ==
  IF ~tl.active[t] THEN 0
  ELSE IF tl.timeout[t] = now THEN 1 ELSE Minus(tl.timeout[t], now)

(* The flag tells whether a timer is linked, no timer is linked twice, and *)
(* the next to expire comes first also while ticks start again from 0.     *)
ListSound(tl, now) ==
  /\ ToSet(tl.list) = {t \in DOMAIN tl.active : tl.active[t]}
  /\ IsInjective(tl.list)
  /\ \A i, j \in DOMAIN tl.list :
       i < j => TicksLeft(tl, tl.list[i], now) <= TicksLeft(tl, tl.list[j], now)
=============================================================================
