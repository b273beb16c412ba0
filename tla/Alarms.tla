------------------------------- MODULE Alarms -------------------------------
(***************************************************************************)
(* What the kernel's timers promise to the threads that sleep or wait with *)
(* a timeout, without a list and without ticks that start again from 0: an *)
(* alarm set for k ticks rings at the k-th tick, neither before nor after, *)
(* however many are set, unless what its thread waits for comes first.     *)
(***************************************************************************)
EXTENDS Naturals

CONSTANTS
  Sleeper,   \* who may set an alarm
  MaxTicks   \* the longest time asked for

VARIABLES
  left,      \* ticks until the alarm of each sleeper rings, 0 when not set
  rang       \* whose alarm rang and who did not get up yet

vars == <<left, rang>>

Init == left = [t \in Sleeper |-> 0] /\ rang = {}

(* No time at all still takes until the next tick.                         *)
Set(t, k) ==
  /\ left[t] = 0
  /\ t \notin rang
  /\ left' = [left EXCEPT ![t] = IF k = 0 THEN 1 ELSE k]
  /\ UNCHANGED rang

Cancel(t) ==
  /\ left[t] > 0
  /\ left' = [left EXCEPT ![t] = 0]
  /\ UNCHANGED rang

GetUp(t) ==
  /\ t \in rang
  /\ rang' = rang \ {t}
  /\ UNCHANGED left

Tick ==
  /\ left' = [t \in Sleeper |-> IF left[t] > 0 THEN left[t] - 1 ELSE 0]
  /\ rang' = rang \cup {t \in Sleeper : left[t] = 1}

Next ==
  \/ Tick
  \/ \E t \in Sleeper : Cancel(t) \/ GetUp(t) \/ \E k \in 0..MaxTicks : Set(t, k)

Spec == Init /\ [][Next]_vars
=============================================================================
