------------------------- MODULE MutexClientsProofs -------------------------
(***************************************************************************)
(* Proofs about the threads that share a mutex, for any finite number of   *)
(* threads and priorities, any times up to half of RT_TICK_MAX and any     *)
(* width of the tick counter.                                              *)
(*                                                                         *)
(* Inv is inductive: the kernel's lists and the threads' places in the     *)
(* calls tell the same (Standing), the owner of the mutex is as urgent as  *)
(* every waiter and the waiters are in the order of their urgency (Owned), *)
(* the most urgent thread runs as long as anybody waits (Scheduled), and   *)
(* the list of timers holds just the armed threads, sorted by how soon     *)
(* they are due (Timed). None of the safety properties is inductive alone: *)
(* who may run is told by the priorities, these by the waiters, these by   *)
(* the timers.                                                             *)
(*                                                                         *)
(* First ticks and timers: all times are measured as ways forwards from    *)
(* now (DueIn), where no comparison wraps. A tick may wake many threads,   *)
(* one by one; Served is a recursive function, and AfterStep unrolls it to *)
(* what one more timer changes (Reached). Then one lemma for each action   *)
(* of Next, the properties of the runs from the invariant, and the         *)
(* refinement of Alarms.                                                   *)
(***************************************************************************)
EXTENDS MutexClients, RtKernelProofs

-----------------------------------------------------------------------------
(* Ticks and timers                                                        *)

(* The values of the tick counter.                                         *)
TickRange == 0..(TickMod - 1)

(* Half way round the clock is at least two ticks away.                    *)
LEMMA HalfIs ==
  /\ TickMod \in Nat /\ TickMod > 4
  /\ Half \in Nat /\ Half >= 2 /\ 2 * Half <= TickMod - 1 /\ 2 * Half >= TickMod - 2
BY TickAssumption DEF Half

(* The way from tick b forwards to tick a.                                 *)
LEMMA MinusIs ==
  ASSUME NEW a \in TickRange, NEW b \in TickRange
  PROVE  /\ Minus(a, b) \in TickRange
         /\ Minus(a, b) = IF b <= a THEN a - b ELSE a - b + TickMod
<1>1. a - b \in (-TickMod)..(TickMod - 1) /\ a \in Int /\ b \in Int
  BY HalfIs DEF TickRange
<1>2. CASE b <= a
  <2>1. a - b \in 0..(TickMod - 1)
    BY <1>1, <1>2
  <2>2. (a - b) % TickMod = a - b
    BY <2>1, HalfIs
  <2> QED BY <1>2, <2>1, <2>2 DEF Minus, TickRange
<1>3. CASE ~(b <= a)
  <2>1. a - b \in (-TickMod)..(-1)
    BY <1>1, <1>3
  <2>2. (a - b) % TickMod = a - b + TickMod
    BY <2>1, HalfIs
  <2>3. a - b + TickMod \in 0..(TickMod - 1)
    BY <2>1, HalfIs
  <2> QED BY <1>3, <2>2, <2>3 DEF Minus, TickRange
<1> QED BY <1>2, <1>3

(* The way forwards from a tick, for less than half way round.             *)
LEMMA PlusIs ==
  ASSUME NEW a \in TickRange, NEW k \in 0..(Half - 1)
  PROVE  /\ (a + k) % TickMod \in TickRange
         /\ (a + k) % TickMod = IF a + k < TickMod THEN a + k ELSE a + k - TickMod
<1>1. a + k \in 0..(2 * TickMod - 1) /\ a \in Int /\ k \in Int
  BY HalfIs DEF TickRange
<1>2. CASE a + k < TickMod
  <2>1. a + k \in 0..(TickMod - 1)
    BY <1>1, <1>2, HalfIs
  <2>2. (a + k) % TickMod = a + k
    BY <2>1, HalfIs
  <2> QED BY <1>2, <2>1, <2>2 DEF TickRange
<1>3. CASE ~(a + k < TickMod)
  <2>1. a + k \in TickMod..(2 * TickMod - 1)
    BY <1>1, <1>3, HalfIs
  <2>2. (a + k) % TickMod = a + k - TickMod
    BY <1>1, <2>1, HalfIs
  <2>3. a + k - TickMod \in 0..(TickMod - 1)
    BY <1>1, <2>1, HalfIs
  <2> QED BY <1>3, <2>2, <2>3 DEF TickRange
<1> QED BY <1>2, <1>3

(* A timer started now is due after the time asked for.                    *)
LEMMA DueWhenStarted ==
  ASSUME NEW now \in TickRange, NEW time \in 0..(Half - 1)
  PROVE  Minus((now + time) % TickMod, now) = time
<1> DEFINE w == (now + time) % TickMod
<1>1. w \in TickRange /\ w = IF now + time < TickMod THEN now + time ELSE now + time - TickMod
  BY PlusIs
<1> HIDE DEF w
<1>2. Minus(w, now) = IF now <= w THEN w - now ELSE w - now + TickMod
  BY <1>1, MinusIs
<1>3. now \in Int /\ time \in Int /\ now >= 0 /\ time >= 0 /\ now < TickMod /\ time < TickMod
  BY HalfIs DEF TickRange
<1>4. (IF now <= w THEN w - now ELSE w - now + TickMod) = time
  BY <1>1, <1>3, HalfIs
<1> QED BY <1>2, <1>4 DEF w

(* The comparison of rt_timer_start, while ticks may start again from 0.   *)
LEMMA LaterIs ==
  ASSUME NEW now \in TickRange, NEW time \in 0..(Half - 1), NEW a \in TickRange,
         Minus(a, now) < Half
  PROVE  LET when == (now + time) % TickMod
         IN  (a # when /\ Minus(a, when) < Half) <=> time < Minus(a, now)
<1> DEFINE w == (now + time) % TickMod
           d == Minus(a, now)
           e == Minus(a, w)
<1>1. w \in TickRange /\ w = IF now + time < TickMod THEN now + time ELSE now + time - TickMod
  BY PlusIs
<1> HIDE DEF w
<1>2. d = IF now <= a THEN a - now ELSE a - now + TickMod
  BY MinusIs
<1>3. e = IF w <= a THEN a - w ELSE a - w + TickMod
  BY <1>1, MinusIs
<1>4. /\ now \in Int /\ time \in Int /\ a \in Int /\ w \in Int
      /\ now >= 0 /\ time >= 0 /\ a >= 0 /\ w >= 0
      /\ now < TickMod /\ a < TickMod /\ w < TickMod /\ time < Half
  BY <1>1, HalfIs DEF TickRange
<1>5. d < Half
  OBVIOUS
<1> HIDE DEF d, e
<1>6. (a # w /\ e < Half) <=> time < d
  BY <1>1, <1>2, <1>3, <1>4, <1>5, HalfIs
<1> QED BY <1>6 DEF w, d, e

(* One tick later each timer is due one tick earlier; who had one tick     *)
(* left, or none, is served.                                               *)
LEMMA DueAfterTick ==
  ASSUME NEW tick \in TickRange, NEW a \in TickRange, Minus(a, tick) < Half
  PROVE  LET now == (tick + 1) % TickMod
         IN  /\ now \in TickRange
             /\ Minus(now, a) < Half <=> Minus(a, tick) <= 1
             /\ Minus(a, tick) > 1 => Minus(a, now) = Minus(a, tick) - 1
<1> DEFINE now == (tick + 1) % TickMod
<1>1. now \in TickRange /\ now = IF tick + 1 < TickMod THEN tick + 1 ELSE tick + 1 - TickMod
  <2>1. 1 \in 0..(Half - 1)
    BY HalfIs
  <2> QED BY <2>1, PlusIs
<1> HIDE DEF now
<1> DEFINE d == Minus(a, tick)
           e == Minus(now, a)
           f == Minus(a, now)
<1>2. d = IF tick <= a THEN a - tick ELSE a - tick + TickMod
  BY MinusIs
<1>3. e = IF a <= now THEN now - a ELSE now - a + TickMod
  BY <1>1, MinusIs
<1>4. f = IF now <= a THEN a - now ELSE a - now + TickMod
  BY <1>1, MinusIs
<1>5. /\ tick \in Int /\ a \in Int /\ now \in Int
      /\ tick >= 0 /\ a >= 0 /\ now >= 0 /\ tick < TickMod /\ a < TickMod /\ now < TickMod
  BY <1>1, HalfIs DEF TickRange
<1>6. d < Half
  OBVIOUS
<1> HIDE DEF d, e, f
<1>7. e < Half <=> d <= 1
  BY <1>1, <1>2, <1>3, <1>5, <1>6, HalfIs
<1>8. d > 1 => f = d - 1
  BY <1>1, <1>2, <1>4, <1>5, <1>6, HalfIs
<1> QED BY <1>1, <1>7, <1>8 DEF now, d, e, f

(* How soon each timer is due.                                             *)
DueIn(tl, now) == [t \in Clients |-> Minus(tl.timeout[t], now)]

(* The list holds the active timers, once each and the next to expire      *)
(* first, and none is due later than half way round the clock.             *)
TimersFit(tl, now) ==
  /\ tl \in [list : Seq(Thread), timeout : [Clients -> TickRange], active : [Clients -> BOOLEAN]]
  /\ Once(tl.list)
  /\ ToSet(tl.list) = {t \in Clients : tl.active[t]}
  /\ \A t \in Clients : tl.active[t] => DueIn(tl, now)[t] < Half
  /\ Ordered(tl.list, DueIn(tl, now))

(* r is tl with the timer of t stopped, or started to expire after time.   *)
Stopped(tl, r, t, now) ==
  /\ TimersFit(r, now)
  /\ r.active = [tl.active EXCEPT ![t] = FALSE]
  /\ \A u \in Clients \ {t} : r.timeout[u] = tl.timeout[u]

Started(tl, r, t, now, time) ==
  /\ TimersFit(r, now)
  /\ r.active = [tl.active EXCEPT ![t] = TRUE]
  /\ \A u \in Clients \ {t} : r.timeout[u] = tl.timeout[u]
  /\ DueIn(r, now)[t] = time

(* rt_timer_stop takes one timer out and leaves the others as they were.   *)
LEMMA Stop ==
  ASSUME NEW tl, NEW now \in TickRange, TimersFit(tl, now), NEW t \in Clients
  PROVE  Stopped(tl, rt_timer_stop(tl, t), t, now)
<1>1. /\ tl.list \in Seq(Thread) /\ Once(tl.list) /\ tl.timeout \in [Clients -> TickRange]
      /\ tl.active \in [Clients -> BOOLEAN]
  BY DEF TimersFit
<1>2. CASE ~tl.active[t]
  <2>1. rt_timer_stop(tl, t) = tl
    BY <1>2 DEF rt_timer_stop
  <2>2. [tl.active EXCEPT ![t] = FALSE] = tl.active
    BY <1>1, <1>2
  <2> QED BY <2>1, <2>2 DEF Stopped
<1>3. CASE tl.active[t]
  <2> DEFINE r == rt_timer_stop(tl, t)
             list == RemoveFirst(tl.list, t)
  <2>1. /\ list \in Seq(Thread) /\ Once(list)
        /\ ToSet(list) = ToSet(tl.list) \ {t}
        /\ Within(list, tl.list)
    BY <1>1, TakenOut
  <2> HIDE DEF list
  <2>2. r = [tl EXCEPT !.list = list, !.timeout[t] = 0, !.active[t] = FALSE]
    BY <1>3 DEF rt_timer_stop, Unlinked, list
  <2>3. /\ r.list = list /\ r.timeout = [tl.timeout EXCEPT ![t] = 0]
        /\ r.active = [tl.active EXCEPT ![t] = FALSE]
    BY <2>2 DEF TimersFit
  <2>4. r \in [list : Seq(Thread), timeout : [Clients -> TickRange], active : [Clients -> BOOLEAN]]
    <3>1. 0 \in TickRange
      BY HalfIs DEF TickRange
    <3>2. [tl.timeout EXCEPT ![t] = 0] \in [Clients -> TickRange]
      BY <1>1, <3>1
    <3>3. [tl.active EXCEPT ![t] = FALSE] \in [Clients -> BOOLEAN]
      BY <1>1
    <3> QED BY <2>1, <2>2, <3>2, <3>3 DEF TimersFit
  <2> HIDE DEF r
  <2>5. ToSet(r.list) = {u \in Clients : r.active[u]}
    BY <1>1, <2>1, <2>3 DEF TimersFit
  <2>6. \A u \in Clients \ {t} : r.timeout[u] = tl.timeout[u] /\ r.active[u] = tl.active[u]
                                /\ DueIn(r, now)[u] = DueIn(tl, now)[u]
    BY <1>1, <2>3 DEF DueIn
  <2>7. \A u \in Clients : r.active[u] => DueIn(r, now)[u] < Half
    BY <1>1, <2>3, <2>6 DEF TimersFit
  <2>8. Ordered(r.list, DueIn(r, now))
    <3>1. Ordered(list, DueIn(tl, now))
      BY <2>1, WithinOrder DEF TimersFit
    <3>2. \A i \in DOMAIN list : list[i] \in Clients \ {t}
      <4>1. ToSet(list) \subseteq Clients \ {t}
        BY <2>1 DEF TimersFit
      <4> QED BY <4>1 DEF ToSet
    <3> QED BY <2>3, <2>6, <3>1, <3>2 DEF Ordered
  <2>9. TimersFit(r, now)
    BY <2>1, <2>3, <2>4, <2>5, <2>7, <2>8 DEF TimersFit
  <2> QED BY <2>3, <2>6, <2>9 DEF Stopped, r
<1> QED BY <1>2, <1>3

(* rt_timer_start puts a timer that is not running in its place.           *)
LEMMA Start ==
  ASSUME NEW tl, NEW now \in TickRange, TimersFit(tl, now), NEW t \in Clients, ~tl.active[t],
         NEW time \in 0..(Half - 1)
  PROVE  Started(tl, rt_timer_start(tl, t, now, time), t, now, time)
<1> DEFINE when == (now + time) % TickMod
           rest == RemoveFirst(tl.list, t)
           later == {i \in DOMAIN rest : Later(tl, rest[i], when)}
           place == IF later = {} THEN Len(rest) + 1
                    ELSE CHOOSE i \in later : \A j \in later : i <= j
           list == InsertAt(rest, place, t)
           r == [list    |-> list,
                 timeout |-> [tl.timeout EXCEPT ![t] = when],
                 active  |-> [tl.active EXCEPT ![t] = TRUE]]
           key == DueIn(r, now)
<1>1. /\ tl.list \in Seq(Thread) /\ Once(tl.list) /\ tl.timeout \in [Clients -> TickRange]
      /\ tl.active \in [Clients -> BOOLEAN] /\ t \in Thread
  BY DEF TimersFit, Clients
<1>2. rt_timer_start(tl, t, now, time) = r
  BY DEF rt_timer_start, Unlinked
<1>3. when \in TickRange /\ Minus(when, now) = time /\ time \in Int
  <2>1. when \in TickRange
    BY PlusIs
  <2> QED BY <2>1, DueWhenStarted, HalfIs
<1>4. /\ rest \in Seq(Thread) /\ Once(rest) /\ ToSet(rest) = ToSet(tl.list)
      /\ Within(rest, tl.list) /\ t \notin ToSet(rest)
  <2>1. t \notin ToSet(tl.list)
    BY DEF TimersFit
  <2>2. /\ rest \in Seq(Thread) /\ Once(rest) /\ ToSet(rest) = ToSet(tl.list) \ {t}
        /\ Within(rest, tl.list)
    BY <1>1, TakenOut
  <2> QED BY <2>1, <2>2
<1>5. /\ r.list = list /\ r.timeout = [tl.timeout EXCEPT ![t] = when]
      /\ r.active = [tl.active EXCEPT ![t] = TRUE]
  OBVIOUS
<1> HIDE DEF when
<1>6. /\ r.timeout \in [Clients -> TickRange] /\ r.active \in [Clients -> BOOLEAN]
      /\ key[t] = time
      /\ \A u \in Clients \ {t} : r.timeout[u] = tl.timeout[u] /\ r.active[u] = tl.active[u]
                                /\ key[u] = DueIn(tl, now)[u] /\ key[u] = Minus(tl.timeout[u], now)
  BY <1>1, <1>3, <1>5 DEF DueIn
<1>7. \A u \in Clients : key[u] \in Int
  <2>1. \A u \in Clients : key[u] = Minus(r.timeout[u], now)
    BY DEF DueIn
  <2>2. \A u \in Clients : Minus(r.timeout[u], now) \in TickRange
    BY <1>6, MinusIs
  <2>3. TickRange \subseteq Int
    BY HalfIs DEF TickRange
  <2> QED BY <2>1, <2>2, <2>3
<1> HIDE DEF rest, r, key
<1>8. DOMAIN rest = 1..Len(rest) /\ Len(rest) \in Nat
  BY <1>4, LenProperties
<1>9. \A i \in DOMAIN rest : rest[i] \in Clients \ {t} /\ tl.active[rest[i]]
  <2>1. ToSet(rest) = {u \in Clients : tl.active[u]}
    BY <1>4 DEF TimersFit
  <2> QED BY <1>4, <2>1 DEF ToSet
<1>10. \A i \in DOMAIN rest : Later(tl, rest[i], when) <=> key[t] < key[rest[i]]
  <2>1. SUFFICES ASSUME NEW i \in DOMAIN rest PROVE Later(tl, rest[i], when) <=> key[t] < key[rest[i]]
    OBVIOUS
  <2> DEFINE u == rest[i]
  <2>2. u \in Clients \ {t} /\ tl.active[u]
    BY <1>9
  <2> HIDE DEF u
  <2>3. /\ tl.timeout[u] \in TickRange /\ key[u] = Minus(tl.timeout[u], now)
        /\ Minus(tl.timeout[u], now) < Half
    BY <2>2, <1>1, <1>6 DEF TimersFit
  <2>4. (tl.timeout[u] # when /\ Minus(tl.timeout[u], when) < Half) <=> time < Minus(tl.timeout[u], now)
    BY <2>3, LaterIs DEF when
  <2>5. Later(tl, u, when) <=> key[t] < key[u]
    BY <2>3, <2>4, <1>6 DEF Later
  <2> QED BY <2>5 DEF u
<1>11. later = {i \in DOMAIN rest : key[t] < key[rest[i]]}
  BY <1>10
<1>12. Ordered(rest, key)
  <2>1. Ordered(rest, DueIn(tl, now))
    BY <1>4, WithinOrder DEF TimersFit
  <2> QED BY <2>1, <1>6, <1>9 DEF Ordered
<1>13. \A u \in ToSet(rest) \cup {t} : key[u] \in Int
  <2>1. ToSet(rest) \subseteq Clients
    BY <1>9 DEF ToSet
  <2> QED BY <2>1, <1>7
<1> HIDE DEF later
<1>14. Splits(rest, key, t, place)
  <2>1. CASE later = {}
    <3>1. place = Len(rest) + 1
      BY <2>1
    <3>2. \A i \in DOMAIN rest : i < Len(rest) + 1 /\ ~(key[t] < key[rest[i]])
      BY <2>1, <1>8, <1>11
    <3>3. \A i \in DOMAIN rest : key[rest[i]] <= key[t]
      <4>1. \A i \in DOMAIN rest : rest[i] \in Clients
        BY <1>9
      <4> QED BY <4>1, <3>2, <1>7
    <3> HIDE DEF place
    <3> QED BY <3>1, <3>2, <3>3, <1>8 DEF Splits
  <2>2. CASE later # {}
    <3> DEFINE first == FirstOf(later)
    <3>1. Splits(rest, key, t, first)
      BY <2>2, <1>4, <1>11, <1>12, <1>13, FirstGreater
    <3>2. place = first
      BY <2>2 DEF FirstOf
    <3> HIDE DEF place, first
    <3> QED BY <3>1, <3>2
  <2> QED BY <2>1, <2>2
<1> HIDE DEF place
<1>15. /\ list \in Seq(Thread)
       /\ Once(list)
       /\ ToSet(list) = ToSet(rest) \cup {t}
       /\ Ordered(list, key)
  BY <1>1, <1>4, <1>12, <1>13, <1>14, InsertedInOrder
<1> HIDE DEF list
<1>16. r \in [list : Seq(Thread), timeout : [Clients -> TickRange], active : [Clients -> BOOLEAN]]
  <2>1. [tl.timeout EXCEPT ![t] = when] \in [Clients -> TickRange]
    BY <1>1, <1>3
  <2>2. [tl.active EXCEPT ![t] = TRUE] \in [Clients -> BOOLEAN]
    BY <1>1
  <2> QED BY <2>1, <2>2, <1>15 DEF r
<1>17. ToSet(r.list) = {u \in Clients : r.active[u]}
  <2>1. ToSet(r.list) = {u \in Clients : tl.active[u]} \cup {t}
    BY <1>4, <1>5, <1>15 DEF TimersFit
  <2>2. r.active[t] = TRUE
    BY <1>1, <1>5
  <2> QED BY <2>1, <2>2, <1>6
<1>18. \A u \in Clients : r.active[u] => key[u] < Half
  BY <1>3, <1>6, HalfIs DEF TimersFit
<1>19. TimersFit(r, now)
  BY <1>5, <1>15, <1>16, <1>17, <1>18 DEF TimersFit, key
<1> QED BY <1>2, <1>5, <1>6, <1>19 DEF Started, key

(* At the next tick the timers with one tick left, or none, expire, each   *)
(* once; the others stay, one tick closer.                                 *)
DueNow(t, tl, tick) == tl.active[t] /\ DueIn(tl, tick)[t] <= 1

Checked(tl, tick, now, expired, r) ==
  /\ now \in TickRange
  /\ expired \in Seq(Thread)
  /\ Once(expired)
  /\ ToSet(expired) = {t \in Clients : DueNow(t, tl, tick)}
  /\ TimersFit(r, now)
  /\ \A t \in Clients : r.active[t] <=> tl.active[t] /\ ~DueNow(t, tl, tick)
  /\ \A t \in Clients : r.active[t] => DueIn(r, now)[t] = DueIn(tl, tick)[t] - 1

(* rt_timer_check takes just the timers that are due, from the front.      *)
LEMMA Check ==
  ASSUME NEW tl, NEW tick \in TickRange, TimersFit(tl, tick)
  PROVE  LET now == (tick + 1) % TickMod
         IN  Checked(tl, tick, now, Expired(tl, now), rt_timer_check(tl, now))
<1> DEFINE now == (tick + 1) % TickMod
           list == tl.list
           n == Len(list)
           D == DueIn(tl, tick)
           due == {i \in DOMAIN list : Minus(now, tl.timeout[list[i]]) < Half}
           Cut(k) == 1..k \subseteq due /\ k + 1 \notin due
           count == CHOOSE k \in 0..n : Cut(k)
           e == Expired(tl, now)
           r == rt_timer_check(tl, now)
<1>1. /\ list \in Seq(Thread) /\ Once(list) /\ tl.timeout \in [Clients -> TickRange]
      /\ tl.active \in [Clients -> BOOLEAN]
      /\ \A t \in Clients : tl.active[t] => D[t] < Half
      /\ Ordered(list, D)
      /\ ToSet(list) = {t \in Clients : tl.active[t]}
  BY DEF TimersFit
<1>2. n \in Nat /\ DOMAIN list = 1..n /\ list \in [1..n -> Thread]
  BY <1>1, LenProperties
<1>3. now \in TickRange
  <2>1. 1 \in 0..(Half - 1)
    BY HalfIs
  <2> QED BY <2>1, PlusIs
<1>4. ASSUME NEW t \in Clients, tl.active[t]
      PROVE  /\ Minus(now, tl.timeout[t]) < Half <=> D[t] <= 1
             /\ D[t] > 1 => Minus(tl.timeout[t], now) = D[t] - 1
             /\ D[t] \in Nat
  <2>1. D[t] = Minus(tl.timeout[t], tick) /\ tl.timeout[t] \in TickRange
    BY <1>1 DEF DueIn
  <2>2. Minus(tl.timeout[t], tick) < Half
    BY <1>1, <1>4, <2>1
  <2>3. D[t] \in Nat
    <3>1. D[t] \in TickRange
      BY <2>1, MinusIs
    <3>2. TickRange \subseteq Nat
      BY HalfIs DEF TickRange
    <3> QED BY <3>1, <3>2
  <2> QED BY <2>1, <2>2, <2>3, DueAfterTick
<1>5. \A i \in 1..n : list[i] \in Clients /\ tl.active[list[i]]
  BY <1>1, <1>2 DEF ToSet
<1>6. e = SubSeq(list, 1, count)
  BY DEF Expired
<1>7. /\ r.list = SubSeq(list, Len(e) + 1, n)
      /\ r.timeout = [t \in Clients |-> IF t \in ToSet(e) THEN 0 ELSE tl.timeout[t]]
      /\ r.active = [t \in Clients |-> tl.active[t] /\ t \notin ToSet(e)]
      /\ r = [list |-> r.list, timeout |-> r.timeout, active |-> r.active]
  <2>1. DOMAIN tl.timeout = Clients /\ DOMAIN tl.active = Clients
    BY <1>1
  <2> HIDE DEF e
  <2> QED BY <2>1 DEF rt_timer_check, e
<1> HIDE DEF now, D, e, r, list, n
<1>8. due = {i \in 1..n : D[list[i]] <= 1}
  <2>1. \A i \in 1..n : Minus(now, tl.timeout[list[i]]) < Half <=> D[list[i]] <= 1
    BY <1>4, <1>5
  <2> QED BY <2>1, <1>2
<1> HIDE DEF due
<1>9. count \in 0..n /\ Cut(count)
  <2>1. \E k \in 0..n : Cut(k)
    <3> DEFINE I == {i \in 1..n : i \notin due}
    <3>1. CASE I = {}
      <4>1. 1..n \subseteq due /\ n + 1 \notin due /\ n \in 0..n
        BY <3>1, <1>2, <1>8
      <4> QED BY <4>1
    <3>2. CASE I # {}
      <4>1. PICK m \in I : \A i \in I : m <= i
        <5>1. I \subseteq Nat
          BY <1>2
        <5> HIDE DEF I
        <5> QED BY <5>1, <3>2, Least
      <4>2. m \in 1..n /\ m \notin due
        BY <4>1
      <4>3. m - 1 \in 0..n /\ (m - 1) + 1 = m
        BY <4>2, <1>2
      <4>4. \A i \in 1..(m - 1) : i \in due
        <5>1. \A i \in 1..(m - 1) : i \in 1..n /\ ~(m <= i)
          BY <4>2, <1>2
        <5> QED BY <5>1, <4>1
      <4> QED BY <4>2, <4>3, <4>4
    <3> QED BY <3>1, <3>2
  <2> HIDE DEF Cut
  <2> QED BY <2>1
<1> HIDE DEF count
<1>10. due = 1..count
  <2>1. ASSUME NEW i \in due, i \notin 1..count PROVE FALSE
    <3>1. i \in 1..n /\ D[list[i]] <= 1
      BY <1>8
    <3>2. count + 1 \in 1..n /\ count + 1 <= i
      BY <2>1, <3>1, <1>2, <1>9
    <3>3. D[list[count + 1]] <= D[list[i]]
      <4>1. CASE count + 1 = i
        <5>1. D[list[i]] \in Nat
          BY <3>1, <1>4, <1>5
        <5> QED BY <4>1, <5>1
      <4>2. CASE count + 1 # i
        <5>1. count + 1 < i
          BY <4>2, <3>1, <3>2, <1>2, <1>9
        <5> QED BY <5>1, <3>1, <3>2, <1>1, <1>2 DEF Ordered
      <4> QED BY <4>1, <4>2
    <3>4. D[list[count + 1]] \in Nat /\ D[list[i]] \in Nat
      BY <3>1, <3>2, <1>4, <1>5
    <3>5. count + 1 \in due
      BY <3>1, <3>2, <3>3, <3>4, <1>8
    <3> QED BY <3>5, <1>9
  <2> QED BY <2>1, <1>9
<1>11. e \in Seq(Thread) /\ Len(e) = count /\ \A i \in 1..count : e[i] = list[i]
  <2>1. count \in Nat /\ count <= n /\ \A i \in 1..count : list[i] \in Thread
    BY <1>2, <1>9
  <2>2. /\ SubSeq(list, 1, count) \in Seq(Thread)
        /\ Len(SubSeq(list, 1, count)) = IF 1 <= count THEN count - 1 + 1 ELSE 0
        /\ \A i \in 1..(count - 1 + 1) : SubSeq(list, 1, count)[i] = list[1 + i - 1]
    BY <2>1, <1>1, SubSeqProperties
  <2>3. count - 1 + 1 = count /\ (IF 1 <= count THEN count - 1 + 1 ELSE 0) = count
        /\ \A i \in 1..count : 1 + i - 1 = i
    BY <2>1
  <2> QED BY <2>2, <2>3, <1>6
<1>12. DOMAIN e = 1..count /\ 1..count \subseteq 1..n
  BY <1>2, <1>9, <1>11, LenProperties
<1>13. Once(e)
  BY <1>1, <1>2, <1>11, <1>12 DEF Once
<1>14. ToSet(e) = {list[i] : i \in 1..count}
  BY <1>11, <1>12 DEF ToSet
<1>15. ToSet(e) = {t \in Clients : DueNow(t, tl, tick)}
  <2>1. ASSUME NEW i \in 1..count PROVE list[i] \in Clients /\ DueNow(list[i], tl, tick)
    BY <1>5, <1>8, <1>10, <1>12 DEF DueNow, D
  <2>2. ASSUME NEW t \in Clients, DueNow(t, tl, tick) PROVE \E i \in 1..count : t = list[i]
    <3>1. tl.active[t] /\ D[t] <= 1
      BY <2>2 DEF DueNow, D
    <3>2. PICK i \in 1..n : list[i] = t
      BY <3>1, <1>1, <1>2 DEF ToSet
    <3>3. i \in due
      BY <3>1, <3>2, <1>8
    <3> QED BY <3>2, <3>3, <1>10
  <2> QED BY <1>14, <2>1, <2>2
<1>16. /\ r.list \in Seq(Thread) /\ Once(r.list) /\ Within(r.list, list)
       /\ ToSet(r.list) = ToSet(list) \ ToSet(e)
  <2>1. r.list = SubSeq(list, count + 1, Len(list))
    BY <1>7, <1>11 DEF n
  <2>2. count \in 0..Len(list)
    BY <1>9 DEF n
  <2> QED BY <2>1, <2>2, <1>1, <1>14, Dropped
<1>17. \A t \in Clients : r.active[t] <=> tl.active[t] /\ t \notin ToSet(e)
  BY <1>7
<1>18. \A t \in Clients : r.active[t] <=> tl.active[t] /\ ~DueNow(t, tl, tick)
  BY <1>15, <1>17
<1>19. ASSUME NEW t \in Clients, r.active[t]
       PROVE  DueIn(r, now)[t] = D[t] - 1 /\ D[t] \in Nat /\ D[t] < Half
  <2>1. tl.active[t] /\ t \notin ToSet(e) /\ ~(D[t] <= 1)
    BY <1>17, <1>18, <1>19 DEF DueNow, D
  <2>2. r.timeout[t] = tl.timeout[t]
    BY <2>1, <1>7
  <2>3. DueIn(r, now)[t] = Minus(tl.timeout[t], now)
    BY <2>2 DEF DueIn
  <2>4. D[t] \in Nat /\ (D[t] > 1 => Minus(tl.timeout[t], now) = D[t] - 1)
    BY <2>1, <1>4
  <2>5. D[t] > 1
    BY <2>1, <2>4
  <2> QED BY <2>1, <2>3, <2>4, <2>5, <1>1
<1>20. r \in [list : Seq(Thread), timeout : [Clients -> TickRange], active : [Clients -> BOOLEAN]]
  <2>1. 0 \in TickRange
    BY HalfIs DEF TickRange
  <2>2. r.timeout \in [Clients -> TickRange]
    BY <2>1, <1>1, <1>7
  <2>3. r.active \in [Clients -> BOOLEAN]
    BY <1>1, <1>7
  <2> QED BY <2>2, <2>3, <1>7, <1>16
<1>21. ToSet(r.list) = {t \in Clients : r.active[t]}
  BY <1>1, <1>16, <1>17
<1>22. \A t \in Clients : r.active[t] => DueIn(r, now)[t] < Half
  BY <1>19, HalfIs
<1>23. Ordered(r.list, DueIn(r, now))
  <2>1. Ordered(r.list, D)
    BY <1>1, <1>16, WithinOrder
  <2>2. \A i \in DOMAIN r.list : r.list[i] \in Clients /\ r.active[r.list[i]]
    BY <1>21 DEF ToSet
  <2>3. SUFFICES ASSUME NEW i \in DOMAIN r.list, NEW j \in DOMAIN r.list, i < j
                 PROVE  DueIn(r, now)[r.list[i]] <= DueIn(r, now)[r.list[j]]
    BY DEF Ordered
  <2>4. D[r.list[i]] <= D[r.list[j]]
    BY <2>1, <2>3 DEF Ordered
  <2>5. /\ DueIn(r, now)[r.list[i]] = D[r.list[i]] - 1 /\ D[r.list[i]] \in Nat
        /\ DueIn(r, now)[r.list[j]] = D[r.list[j]] - 1 /\ D[r.list[j]] \in Nat
    BY <2>2, <1>19
  <2> QED BY <2>4, <2>5
<1>24. TimersFit(r, now)
  BY <1>16, <1>20, <1>21, <1>22, <1>23 DEF TimersFit
<1>25. Checked(tl, tick, now, e, r)
  BY <1>3, <1>11, <1>13, <1>15, <1>18, <1>19, <1>24 DEF Checked, D
<1> QED BY <1>25 DEF now, e, r

-----------------------------------------------------------------------------
(* The expired timers, one by one                                          *)

(* What the first expired timers make of h, for any number of them.        *)
After(h, e) ==
  LET after[n \in Nat] == IF n = 0 THEN h ELSE TimeUp(after[n - 1], e[n]) IN after

(* This is defined: its beginnings are, and two of them agree as far as    *)
(* both go.                                                                *)
LEMMA Unrolled ==
  ASSUME NEW h, NEW e
  PROVE  After(h, e) = [k \in Nat |-> IF k = 0 THEN h ELSE TimeUp(After(h, e)[k - 1], e[k])]
<1> DEFINE Goes(g, n) == g = [k \in 0..n |-> IF k = 0 THEN h ELSE TimeUp(g[k - 1], e[k])]
<1>1. ASSUME NEW n \in Nat PROVE \E g : Goes(g, n)
  <2> DEFINE T == {m \in Nat : ~ \E g : Goes(g, m)}
  <2>1. CASE T = {}
    BY <2>1
  <2>2. CASE T # {}
    <3>1. PICK m \in T : \A y \in T : m <= y
      <4> HIDE DEF T
      <4>1. T \subseteq Nat
        BY DEF T
      <4> QED BY <4>1, <2>2, Least
    <3>2. CASE m = 0
      <4>1. Goes([k \in 0..0 |-> h], 0)
        OBVIOUS
      <4> QED BY <4>1, <3>2, <3>1
    <3>3. CASE m # 0
      <4>1. m - 1 \in Nat /\ m \in Nat /\ m - 1 \notin T
        <5>1. m \in Nat
          BY <3>1
        <5> HIDE DEF T
        <5> QED BY <5>1, <3>1, <3>3
      <4>2. PICK g : Goes(g, m - 1)
        BY <4>1
      <4> DEFINE f == [k \in 0..m |-> IF k = m THEN TimeUp(g[m - 1], e[m]) ELSE g[k]]
      <4>3. ASSUME NEW k \in 0..m
            PROVE  f[k] = IF k = 0 THEN h ELSE TimeUp(f[k - 1], e[k])
        <5>1. CASE k = m
          <6>1. f[k] = TimeUp(g[m - 1], e[m]) /\ f[k - 1] = g[m - 1] /\ k # 0
            BY <5>1, <4>1, <3>3
          <6> QED BY <6>1, <5>1
        <5>2. CASE k # m
          <6>1. k \in 0..(m - 1)
            BY <5>2, <4>1
          <6>2. f[k] = g[k]
            BY <5>2
          <6>3. g[k] = IF k = 0 THEN h ELSE TimeUp(g[k - 1], e[k])
            BY <6>1, <4>2
          <6>4. k # 0 => f[k - 1] = g[k - 1]
            BY <6>1, <4>1
          <6> HIDE DEF f
          <6> QED BY <6>2, <6>3, <6>4
        <5> QED BY <5>1, <5>2
      <4>4. Goes(f, m)
        <5>1. f = [k \in 0..m |-> f[k]]
          OBVIOUS
        <5> HIDE DEF f
        <5> QED BY <4>3, <5>1
      <4> QED BY <4>4, <3>1
    <3> QED BY <3>2, <3>3
  <2> QED BY <2>1, <2>2
<1>2. ASSUME NEW n \in Nat, NEW m \in Nat, NEW f, NEW g, Goes(f, n), Goes(g, m),
             NEW j \in 0..n, j <= m
      PROVE  f[j] = g[j]
  <2> DEFINE T == {k \in Nat : k <= n /\ k <= m /\ f[k] # g[k]}
  <2>1. CASE T = {}
    <3>1. j \in Nat /\ j <= n /\ j <= m
      <4> HIDE DEF Goes
      <4> QED BY <1>2
    <3>2. j \notin T
      BY <2>1
    <3> QED BY <3>1, <3>2
  <2>2. CASE T # {}
    <3>1. PICK k \in T : \A y \in T : k <= y
      <4> HIDE DEF T
      <4>1. T \subseteq Nat
        BY DEF T
      <4> QED BY <4>1, <2>2, Least
    <3>2. k \in 0..n /\ k \in 0..m
      BY <3>1
    <3>3. /\ f[k] = IF k = 0 THEN h ELSE TimeUp(f[k - 1], e[k])
          /\ g[k] = IF k = 0 THEN h ELSE TimeUp(g[k - 1], e[k])
      BY <3>2, <1>2
    <3>4. k # 0 => k - 1 \in Nat /\ k - 1 \notin T /\ k - 1 <= n /\ k - 1 <= m
      BY <3>1, <3>2
    <3>5. k # 0 => f[k - 1] = g[k - 1]
      BY <3>4
    <3> QED BY <3>1, <3>3, <3>5
  <2> QED BY <2>1, <2>2
<1> DEFINE G(n) == CHOOSE g : Goes(g, n)
           all == [k \in Nat |-> G(k)[k]]
<1>3. \A n \in Nat : Goes(G(n), n)
  <2> HIDE DEF Goes
  <2> QED BY <1>1
<1>4. ASSUME NEW k \in Nat
      PROVE  all[k] = IF k = 0 THEN h ELSE TimeUp(all[k - 1], e[k])
  <2>0. all[k] = G(k)[k] /\ (k # 0 => all[k - 1] = G(k - 1)[k - 1])
    <3> HIDE DEF G
    <3> QED OBVIOUS
  <2>1. G(k)[k] = IF k = 0 THEN h ELSE TimeUp(G(k)[k - 1], e[k])
    <3>1. Goes(G(k), k)
      BY <1>3
    <3> HIDE DEF G
    <3> QED BY <3>1
  <2>2. CASE k = 0
    <3> HIDE DEF all, G
    <3> QED BY <2>0, <2>1, <2>2
  <2>3. CASE k # 0
    <3>1. G(k)[k - 1] = G(k - 1)[k - 1]
      <4>1. k - 1 \in Nat /\ k - 1 \in 0..k /\ k - 1 <= k - 1
        BY <2>3
      <4>2. Goes(G(k), k) /\ Goes(G(k - 1), k - 1)
        BY <1>3, <4>1
      <4> HIDE DEF G, Goes, all
      <4> QED BY <4>1, <4>2, <1>2
    <3> HIDE DEF all, G
    <3> QED BY <2>0, <2>1, <3>1, <2>3
  <2> QED BY <2>2, <2>3
<1>5. all = [k \in Nat |-> IF k = 0 THEN h ELSE TimeUp(all[k - 1], e[k])]
  <2>1. all = [k \in Nat |-> all[k]]
    OBVIOUS
  <2> HIDE DEF all
  <2> QED BY <2>1, <1>4
<1>6. \E g : g = [k \in Nat |-> IF k = 0 THEN h ELSE TimeUp(g[k - 1], e[k])]
  <2> HIDE DEF all
  <2> QED BY <1>5
<1> QED BY <1>6 DEF After

(* One more timer is one more call of its function.                        *)
LEMMA AfterStep ==
  ASSUME NEW h, NEW e
  PROVE  /\ After(h, e)[0] = h
         /\ \A k \in Nat : After(h, e)[k + 1] = TimeUp(After(h, e)[k], e[k + 1])
<1> DEFINE w == After(h, e)
<1>1. w = [k \in Nat |-> IF k = 0 THEN h ELSE TimeUp(w[k - 1], e[k])]
  BY Unrolled
<1> HIDE DEF w
<1>2. \A k \in Nat : w[k] = IF k = 0 THEN h ELSE TimeUp(w[k - 1], e[k])
  BY <1>1
<1>3. ASSUME NEW k \in Nat PROVE w[k + 1] = TimeUp(w[k], e[k + 1])
  <2>1. k + 1 \in Nat /\ k + 1 # 0 /\ (k + 1) - 1 = k
    OBVIOUS
  <2> QED BY <2>1, <1>2
<1>4. w[0] = h
  BY <1>2
<1> QED BY <1>3, <1>4 DEF w

(* v is what s and the waiters w become when the threads in woken have     *)
(* been woken.                                                             *)
Reached(s, w, woken, v) ==
  /\ Fit(v.sched)
  /\ v.sched.stat[v.sched.cur] = "READY"
  /\ v.sched.stat = [t \in Thread |-> IF t \in woken THEN "READY" ELSE s.stat[t]]
  /\ v.sched.prio = s.prio
  /\ v.sched.nest = s.nest
  /\ v.sched.armed = s.armed \ woken
  /\ IF woken = {} THEN v.sched = s ELSE Picked(v.sched)
  /\ v.waiters \in Seq(Thread)
  /\ Once(v.waiters)
  /\ ToSet(v.waiters) = ToSet(w) \ woken
  /\ \A key : Ordered(w, key) => Ordered(v.waiters, key)

(* One more thread is woken: it is ready, no longer waits, and the most    *)
(* urgent thread runs.                                                     *)
LEMMA ReachedNext ==
  ASSUME NEW s, NEW w, NEW woken, NEW v, Reached(s, w, woken, v),
         NEW t \in Thread \ woken, s.stat[t] # "READY"
  PROVE  Reached(s, w, woken \cup {t}, TimeUp(v, t))
<1> DEFINE r == rt_thread_timeout(v.sched, t)
           l == RemoveFirst(v.waiters, t)
<1>1. v.sched.stat[t] # "READY"
  BY DEF Reached
<1>2. Effect(v.sched, r, t, "READY", v.sched.armed \ {t})
  BY <1>1, Woken DEF Reached
<1>3. /\ l \in Seq(Thread) /\ Once(l) /\ ToSet(l) = ToSet(v.waiters) \ {t}
      /\ Within(l, v.waiters)
  BY TakenOut DEF Reached
<1>4. TimeUp(v, t).sched = r /\ TimeUp(v, t).waiters = l
  BY DEF TimeUp, GiveUp
<1> HIDE DEF r, l
<1>5. r.stat = [u \in Thread |-> IF u \in woken \cup {t} THEN "READY" ELSE s.stat[u]]
  BY <1>2 DEF Effect, Reached
<1>6. \A key : Ordered(w, key) => Ordered(l, key)
  <2>1. SUFFICES ASSUME NEW key, Ordered(w, key) PROVE Ordered(l, key)
    OBVIOUS
  <2>2. Ordered(v.waiters, key)
    BY <2>1 DEF Reached
  <2> QED BY <2>2, <1>3, WithinOrder
<1>7. r.armed = s.armed \ (woken \cup {t}) /\ ToSet(l) = ToSet(w) \ (woken \cup {t})
  BY <1>2, <1>3 DEF Effect, Reached
<1>8. Fit(r) /\ Picked(r) /\ r.stat[r.cur] = "READY" /\ r.prio = s.prio /\ r.nest = s.nest
  BY <1>2 DEF Effect, Reached, Picked
<1>9. woken \cup {t} # {}
  OBVIOUS
<1> QED BY <1>3, <1>4, <1>5, <1>6, <1>7, <1>8, <1>9 DEF Reached

(* All the expired timers together wake all their threads.                 *)
LEMMA ServedReaches ==
  ASSUME NEW s, Fit(s), s.stat[s.cur] = "READY",
         NEW e \in Seq(Thread), Once(e), \A t \in ToSet(e) : s.stat[t] # "READY",
         mutex[M].waiters \in Seq(Thread), Once(mutex[M].waiters)
  PROVE  Reached(s, mutex[M].waiters, ToSet(e), Served(s, e))
<1> DEFINE w == mutex[M].waiters
           h == [sched |-> s, waiters |-> w]
           n == Len(e)
           f == After(h, e)
           First(k) == {e[i] : i \in 1..k}
           Bad == {k \in 0..n : ~Reached(s, w, First(k), f[k])}
<1>1. n \in Nat /\ DOMAIN e = 1..n /\ \A i \in 1..n : e[i] \in Thread /\ e[i] \in ToSet(e)
  BY LenProperties DEF ToSet
<1>2. Served(s, e) = f[n]
  BY DEF Served, After
<1>3. f[0] = h /\ \A k \in Nat : f[k + 1] = TimeUp(f[k], e[k + 1])
  <2> HIDE DEF h
  <2> QED BY AfterStep
<1>4. w \in Seq(Thread) /\ Once(w)
  OBVIOUS
<1>5. h.sched = s /\ h.waiters = w
  OBVIOUS
<1> HIDE DEF f, n, w, h
<1>6. Reached(s, w, First(0), f[0])
  <2>1. First(0) = {}
    OBVIOUS
  <2>2. s.stat = [t \in Thread |-> IF t \in {} THEN "READY" ELSE s.stat[t]]
    BY DEF Fit
  <2>3. Reached(s, w, {}, h)
    BY <1>4, <1>5, <2>2 DEF Reached
  <2> HIDE DEF First
  <2> QED BY <2>1, <2>3, <1>3
<1>7. ASSUME NEW k \in 0..(n - 1), Reached(s, w, First(k), f[k])
      PROVE  Reached(s, w, First(k + 1), f[k + 1])
  <2> DEFINE t == e[k + 1]
  <2>1. k \in Nat /\ k + 1 \in 1..n
    BY <1>1
  <2>2. t \in Thread /\ s.stat[t] # "READY"
    BY <2>1, <1>1
  <2>3. t \notin First(k)
    <3>1. SUFFICES ASSUME NEW i \in 1..k, e[i] = t PROVE FALSE
      OBVIOUS
    <3>2. i \in 1..n /\ i # k + 1
      BY <2>1, <1>1
    <3> QED BY <3>1, <3>2, <2>1, <1>1 DEF Once
  <2>4. First(k + 1) = First(k) \cup {t}
    <3>1. \A i \in 1..(k + 1) : i \in 1..k \/ i = k + 1
      BY <2>1
    <3>2. \A i \in 1..k : i \in 1..(k + 1)
      BY <2>1
    <3>3. k + 1 \in 1..(k + 1)
      BY <2>1
    <3> QED BY <3>1, <3>2, <3>3
  <2>5. f[k + 1] = TimeUp(f[k], t)
    BY <2>1, <1>3
  <2> HIDE DEF First, t
  <2>6. Reached(s, w, First(k) \cup {t}, TimeUp(f[k], t))
    BY <2>2, <2>3, <1>7, ReachedNext
  <2> QED BY <2>4, <2>5, <2>6
<1>8. Bad = {}
  <2>1. SUFFICES ASSUME Bad # {} PROVE FALSE
    OBVIOUS
  <2>2. PICK m \in Bad : \A y \in Bad : m <= y
    <3>1. Bad \subseteq Nat
      BY <1>1
    <3> HIDE DEF Bad
    <3> QED BY <2>1, <3>1, Least
  <2> HIDE DEF First
  <2>3. m \in 0..n /\ ~Reached(s, w, First(m), f[m])
    BY <2>2
  <2>4. m # 0
    BY <2>3, <1>6
  <2>5. m - 1 \in 0..(n - 1) /\ m - 1 \in 0..n /\ (m - 1) + 1 = m /\ ~(m <= m - 1)
    BY <2>3, <2>4, <1>1
  <2>6. Reached(s, w, First(m - 1), f[m - 1])
    BY <2>2, <2>5
  <2>7. Reached(s, w, First((m - 1) + 1), f[(m - 1) + 1])
    BY <2>5, <2>6, <1>7
  <2> QED BY <2>3, <2>5, <2>7
<1>9. First(n) = ToSet(e)
  BY <1>1 DEF ToSet
<1>10. n \in 0..n
  BY <1>1
<1> HIDE DEF First
<1>11. Reached(s, w, First(n), f[n])
  BY <1>8, <1>10
<1> QED BY <1>2, <1>9, <1>11 DEF w

-----------------------------------------------------------------------------
(* The inductive invariant                                                 *)

Waiters == mutex[M].waiters
Owner == mutex[M].owner

(* The values of the variables; the semaphores are not used.               *)
Types ==
  /\ mutex \in [Mutex -> MutexType]
  /\ sem = [o \in Sem |-> [value |-> 0, waiters |-> <<>>]]
  /\ at \in [Clients -> {"out", "in", "want"}]
  /\ asleep \subseteq Clients
  /\ late \subseteq Clients
  /\ rt_tick \in TickRange

(* The ready lists are right, the running thread is ready, and it is the   *)
(* most urgent unless nobody waits for the mutex.                          *)
Scheduled ==
  /\ Fit(sched)
  /\ sched.stat[sched.cur] = "READY"
  /\ sched.nest \in {0, 1}
  /\ Waiters # <<>> => Picked(sched)

(* The state of a thread tells where it stands: it is suspended only       *)
(* inside a call and before its time is up; a timer runs only for who is   *)
(* suspended, and for whoever sleeps; the list of waiters has just who is  *)
(* suspended in rt_mutex_take; and whom that call goes on for without a    *)
(* timeout is the owner already.                                           *)
Standing(t) ==
  /\ sched.stat[t] \in {"READY", "SUSPEND"}
  /\ t \in asleep => at[t] # "want"
  /\ sched.stat[t] = "SUSPEND" => (t \in asleep \/ at[t] = "want") /\ t \notin late
  /\ t \in late => t \in asleep \/ at[t] = "want"
  /\ t \in asleep => (t \in sched.armed <=> sched.stat[t] = "SUSPEND")
  /\ t \in sched.armed => sched.stat[t] = "SUSPEND"
  /\ t \in asleep /\ sched.stat[t] = "READY" => t \in late
  /\ t \in ToSet(Waiters) <=> at[t] = "want" /\ sched.stat[t] = "SUSPEND"
  /\ at[t] = "want" /\ sched.stat[t] = "READY" => (Owner = t <=> t \notin late)
  /\ at[t] = "in" => Owner = t
  /\ Owner = t => at[t] = "in" \/ (at[t] = "want" /\ sched.stat[t] = "READY")

(* The waiters are in the order of their priorities; an owner has its own  *)
(* or a more urgent one, as urgent as any waiter's, and remembers its own; *)
(* everybody else has its own.                                             *)
Owned ==
  /\ Owner \in Clients \cup {Nobody}
  /\ Once(Waiters)
  /\ ToSet(Waiters) \subseteq Clients
  /\ Ordered(Waiters, InitPriority)
  /\ Owner = Nobody => mutex[M].value = 1 /\ mutex[M].hold = 0 /\ Waiters = <<>>
  /\ Owner # Nobody => /\ mutex[M].value = 0
                       /\ mutex[M].hold \in 1..MaxHold
                       /\ mutex[M].original = InitPriority[Owner]
                       /\ sched.prio[Owner] <= InitPriority[Owner]
                       /\ \A w \in ToSet(Waiters) : sched.prio[Owner] <= InitPriority[w]
  /\ \A t \in Thread : t # Owner => sched.prio[t] = InitPriority[t]

(* The list of timers is right and holds the armed threads.                *)
Timed == TimersFit(timers, rt_tick) /\ sched.armed = ToSet(timers.list)

(* The inductive invariant.                                                *)
Inv ==
  /\ Types
  /\ Scheduled
  /\ \A t \in Clients : Standing(t)
  /\ Owned
  /\ Timed

(* The assumptions on the constants, the way the proofs need them.         *)
LEMMA Constants ==
  /\ M \in Mutex /\ Mutex = {M}
  /\ Idle \in Thread /\ Idle \notin Clients /\ Clients \subseteq Thread
  /\ Nobody \notin Thread /\ Nobody \notin Clients
  /\ \A t \in Thread : InitPriority[t] \in Nat /\ InitPriority[t] \in Priorities
  /\ Priorities \subseteq Nat
  /\ Ticks \subseteq 0..(Half - 1)
BY KernelAssumption, ClientAssumption DEF Clients, Priorities

(* At first one thread runs, all the others of its priority are ready, and *)
(* nothing is taken, timed or waited for.                                  *)
LEMMA InitInv == Init => Inv
<1> SUFFICES ASSUME Init PROVE Inv
  OBVIOUS
<1>1. PICK first \in Clients :
        /\ \A t \in Thread : InitPriority[first] <= InitPriority[t]
        /\ KernelInit(Thread, first)
  BY DEF Init
<1>2. /\ sched = [stat  |-> [t \in Thread |-> "READY"],
                  prio  |-> InitPriority,
                  table |-> [p \in Priorities |-> SetToSeq({t \in Thread : InitPriority[t] = p})],
                  cur   |-> first, nest |-> 0, armed |-> {}]
      /\ sem = [o \in Sem |-> [value |-> 0, waiters |-> <<>>]]
      /\ mutex = [m \in Mutex |-> [value |-> 1, hold |-> 0, owner |-> Nobody,
                                   original |-> 255, waiters |-> <<>>]]
  <2>1. [t \in Thread |-> IF t \in Thread THEN "READY" ELSE "INIT"] = [t \in Thread |-> "READY"]
    OBVIOUS
  <2> QED BY <1>1, <2>1 DEF KernelInit
<1>3. /\ mutex[M] = [value |-> 1, hold |-> 0, owner |-> Nobody, original |-> 255, waiters |-> <<>>]
      /\ Waiters = <<>> /\ Owner = Nobody
  BY <1>2, Constants DEF Waiters, Owner
<1>4. /\ at = [t \in Clients |-> "out"] /\ asleep = {} /\ late = {} /\ rt_tick = 0
      /\ timers = rt_system_timer_init(Clients)
  BY DEF Init
<1>5. Types
  <2>1. mutex \in [Mutex -> MutexType]
    <3>1. [value |-> 1, hold |-> 0, owner |-> Nobody, original |-> 255, waiters |-> <<>>] \in MutexType
      BY DEF MutexType
    <3> QED BY <3>1, <1>2
  <2>2. 0 \in TickRange
    BY HalfIs DEF TickRange
  <2> QED BY <2>1, <2>2, <1>2, <1>4 DEF Types
<1>6. Fit(sched)
  <2>1. ASSUME NEW p \in Priorities
        PROVE  /\ sched.table[p] \in Seq(Thread)
               /\ Once(sched.table[p])
               /\ ToSet(sched.table[p]) = {t \in Thread : sched.stat[t] = "READY" /\ sched.prio[t] = p}
    <3> DEFINE S == {t \in Thread : InitPriority[t] = p}
    <3>1. IsFiniteSet(S)
      BY ClientAssumption, FS_Subset
    <3>2. sched.table[p] = SetToSeq(S)
      BY <1>2
    <3>3. S = {t \in Thread : sched.stat[t] = "READY" /\ sched.prio[t] = p}
      BY <1>2
    <3>4. S \in SUBSET Thread
      OBVIOUS
    <3> HIDE DEF S
    <3>5. SetToSeq(S) \in Seq(Thread) /\ Once(SetToSeq(S)) /\ ToSet(SetToSeq(S)) = S
      BY <3>1, <3>4, Listed
    <3> QED BY <3>2, <3>3, <3>5
  <2>2. sched.table \in [Priorities -> Seq(Thread)]
    <3>1. sched.table = [p \in Priorities |-> sched.table[p]]
      BY <1>2
    <3> QED BY <2>1, <3>1
  <2>3. InitPriority \in [Thread -> Priorities]
    BY Constants, KernelAssumption
  <2>4. [t \in Thread |-> "READY"] \in [Thread -> Stats]
    BY DEF Stats
  <2>5. sched \in [stat : [Thread -> Stats], prio : [Thread -> Priorities],
                   table : [Priorities -> Seq(Thread)],
                   cur : Thread, nest : Nat, armed : SUBSET Thread]
    BY <1>2, <2>2, <2>3, <2>4, Constants
  <2>6. sched.stat[Idle] = "READY"
    BY <1>2, Constants
  <2> QED BY <2>1, <2>5, <2>6 DEF Fit
<1>7. Scheduled
  BY <1>2, <1>3, <1>6, Constants DEF Scheduled
<1>8. ToSet(Waiters) = {}
  BY <1>3 DEF ToSet
<1>9. \A t \in Clients : Standing(t)
  BY <1>2, <1>3, <1>4, <1>8, Constants DEF Standing
<1>10. Owned
  <2>1. Once(Waiters) /\ Ordered(Waiters, InitPriority)
    BY <1>3 DEF Once, Ordered
  <2>2. sched.prio = InitPriority
    BY <1>2
  <2> QED BY <1>3, <1>8, <2>1, <2>2 DEF Owned
<1>11. Timed
  <2>1. /\ timers.list = <<>> /\ timers.timeout = [t \in Clients |-> 0]
        /\ timers.active = [t \in Clients |-> FALSE]
        /\ timers = [list |-> <<>>, timeout |-> [t \in Clients |-> 0], active |-> [t \in Clients |-> FALSE]]
    BY <1>4 DEF rt_system_timer_init
  <2>2. timers \in [list : Seq(Thread), timeout : [Clients -> TickRange], active : [Clients -> BOOLEAN]]
    <3>1. 0 \in TickRange
      BY HalfIs DEF TickRange
    <3> QED BY <2>1, <3>1
  <2>3. ToSet(timers.list) = {}
    BY <2>1 DEF ToSet
  <2>4. Once(timers.list) /\ Ordered(timers.list, DueIn(timers, rt_tick))
    BY <2>1 DEF Once, Ordered
  <2>5. sched.armed = {}
    BY <1>2
  <2> QED BY <2>1, <2>2, <2>3, <2>4, <2>5 DEF Timed, TimersFit
<1> QED BY <1>5, <1>7, <1>9, <1>10, <1>11 DEF Inv

-----------------------------------------------------------------------------
(* The steps that leave the mutex alone                                    *)

(* A thread stands where it stood when neither its status nor its place in *)
(* the calls, the lists and the mutex changes.                             *)
LEMMA Unmoved ==
  ASSUME Inv, NEW u \in Clients,
         sched'.stat[u] = sched.stat[u], at'[u] = at[u],
         u \in sched'.armed <=> u \in sched.armed,
         u \in asleep' <=> u \in asleep,
         u \in late' <=> u \in late,
         u \in ToSet(Waiters)' <=> u \in ToSet(Waiters),
         Owner' = u <=> Owner = u
  PROVE  Standing(u)'
<1>1. Standing(u)
  BY DEF Inv
<1> QED BY <1>1 DEF Standing

(* A step that leaves the mutex alone leaves the owner and the waiters     *)
(* alone.                                                                  *)
LEMMA SameMutex ==
  ASSUME UNCHANGED mutex
  PROVE  Waiters' = Waiters /\ Owner' = Owner /\ ToSet(Waiters)' = ToSet(Waiters)
BY DEF Waiters, Owner, ToSet

(* The scheduler and the ownership are told by sched and mutex only.       *)
LEMMA SameKernel ==
  ASSUME Inv, UNCHANGED <<sched, mutex>>
  PROVE  Scheduled' /\ Owned'
<1>1. Waiters' = Waiters /\ Owner' = Owner
  BY SameMutex
<1> QED BY <1>1 DEF Inv, Scheduled, Owned

(* The timers stay right while neither they nor the time change.           *)
LEMMA SameTimers ==
  ASSUME Inv, UNCHANGED <<timers, rt_tick>>, sched'.armed = sched.armed
  PROVE  Timed'
BY DEF Inv, Timed

(* A step that changes nothing.                                            *)
LEMMA StutterInv == ASSUME Inv, UNCHANGED vars PROVE Inv'
<1>1. UNCHANGED <<sched, sem, mutex, at, asleep, late, rt_tick, timers>>
  BY DEF vars, kernel
<1>2. Types'
  BY <1>1 DEF Inv, Types
<1>3. Scheduled' /\ Owned' /\ Timed'
  BY <1>1, SameKernel, SameTimers
<1>4. \A u \in Clients : Standing(u)'
  BY <1>1, SameMutex, Unmoved
<1> QED BY <1>2, <1>3, <1>4 DEF Inv

(* The waiter that runs again knows from its error code whether it is the  *)
(* owner.                                                                  *)
LEMMA RunsOnInv == ASSUME Inv, NEW t \in Clients, RunsOn(t) PROVE Inv'
<1>1. /\ sched.cur = t /\ at[t] = "want"
      /\ at' = [at EXCEPT ![t] = IF t \in late THEN "out" ELSE "in"]
      /\ late' = late \ {t}
      /\ UNCHANGED <<sched, sem, mutex, asleep, rt_tick, timers>>
  BY DEF RunsOn, Running, kernel
<1>2. Types'
  BY <1>1 DEF Inv, Types
<1>3. Scheduled' /\ Owned' /\ Timed'
  BY <1>1, SameKernel, SameTimers
<1>4. ToSet(Waiters)' = ToSet(Waiters) /\ Owner' = Owner
  BY <1>1, SameMutex
<1>5. at \in [Clients -> {"out", "in", "want"}]
  BY DEF Inv, Types
<1>6. ASSUME NEW u \in Clients PROVE Standing(u)'
  <2>1. CASE u # t
    BY <2>1, <1>1, <1>4, <1>5, Unmoved
  <2>2. CASE u = t
    <3>1. Standing(t) /\ sched.stat[t] = "READY"
      BY <1>1 DEF Inv, Scheduled
    <3>2. at'[t] = IF t \in late THEN "out" ELSE "in"
      BY <1>1, <1>5
    <3> QED BY <2>2, <3>1, <3>2, <1>1, <1>4 DEF Standing
  <2> QED BY <2>1, <2>2
<1> QED BY <1>2, <1>3, <1>6 DEF Inv

(* The sleeper that runs again leaves rt_thread_delay.                     *)
LEMMA AwakesInv == ASSUME Inv, NEW t \in Clients, Awakes(t) PROVE Inv'
<1>1. /\ sched.cur = t /\ t \in asleep
      /\ asleep' = asleep \ {t}
      /\ late' = late \ {t}
      /\ UNCHANGED <<sched, sem, mutex, at, rt_tick, timers>>
  BY DEF Awakes, Running, kernel
<1>2. Types'
  BY <1>1 DEF Inv, Types
<1>3. Scheduled' /\ Owned' /\ Timed'
  BY <1>1, SameKernel, SameTimers
<1>4. ToSet(Waiters)' = ToSet(Waiters) /\ Owner' = Owner
  BY <1>1, SameMutex
<1>5. ASSUME NEW u \in Clients PROVE Standing(u)'
  <2>1. CASE u # t
    BY <2>1, <1>1, <1>4, Unmoved
  <2>2. CASE u = t
    <3>1. Standing(t) /\ sched.stat[t] = "READY"
      BY <1>1 DEF Inv, Scheduled
    <3> QED BY <2>2, <3>1, <1>1, <1>4 DEF Standing
  <2> QED BY <2>1, <2>2
<1> QED BY <1>2, <1>3, <1>5 DEF Inv

(* The scheduler changes who runs, or whether it may, and nothing else.    *)
LEMMA OnlyScheduled ==
  ASSUME Inv, UNCHANGED <<sem, mutex, at, asleep, late, rt_tick, timers>>,
         Fit(sched'), sched'.stat[sched'.cur] = "READY", sched'.nest \in {0, 1},
         Waiters # <<>> => Picked(sched'),
         sched'.stat = sched.stat, sched'.prio = sched.prio, sched'.armed = sched.armed
  PROVE  Inv'
<1>1. Waiters' = Waiters /\ Owner' = Owner /\ ToSet(Waiters)' = ToSet(Waiters)
  BY SameMutex
<1>2. Types'
  BY DEF Inv, Types
<1>3. Scheduled'
  BY <1>1 DEF Scheduled
<1>4. \A u \in Clients : Standing(u)'
  BY <1>1, Unmoved
<1>5. Owned'
  BY <1>1 DEF Inv, Owned
<1>6. Timed'
  BY SameTimers
<1> QED BY <1>2, <1>3, <1>4, <1>5, <1>6 DEF Inv

(* rt_enter_critical changes the nesting only.                              *)
LEMMA Entered ==
  ASSUME NEW s, Fit(s), s.nest = 0, s.stat[s.cur] = "READY"
  PROVE  LET r == rt_enter_critical(s)
         IN  /\ Fit(r) /\ Picked(r) /\ r.cur = s.cur /\ r.stat = s.stat /\ r.prio = s.prio
             /\ r.armed = s.armed /\ r.nest = 1
<1> DEFINE r == rt_enter_critical(s)
<1>1. r = [s EXCEPT !.nest = 1]
  BY DEF rt_enter_critical
<1> HIDE DEF r
<1>2. /\ r.stat = s.stat /\ r.prio = s.prio /\ r.table = s.table /\ r.cur = s.cur
      /\ r.nest = 1 /\ r.armed = s.armed
  BY <1>1 DEF Fit
<1>3. r \in [stat : [Thread -> Stats], prio : [Thread -> Priorities],
             table : [Priorities -> Seq(Thread)],
             cur : Thread, nest : Nat, armed : SUBSET Thread]
  BY <1>1 DEF Fit
<1>4. Fit(r)
  BY <1>2, <1>3 DEF Fit
<1> QED BY <1>2, <1>4 DEF Picked, r

(* delay_us locks the scheduler,                                           *)
LEMMA BusyWaitInv == ASSUME Inv, NEW t \in Clients, BusyWait(t) PROVE Inv' /\ sched'.nest = 1
<1>1. /\ sched' = rt_enter_critical(sched)
      /\ UNCHANGED <<sem, mutex, at, asleep, late, rt_tick, timers>>
      /\ sched.nest = 0
  BY DEF BusyWait, Free, Running
<1>2. Fit(sched) /\ sched.stat[sched.cur] = "READY"
  BY DEF Inv, Scheduled
<1>3. /\ Fit(sched') /\ Picked(sched') /\ sched'.cur = sched.cur /\ sched'.stat = sched.stat
      /\ sched'.prio = sched.prio /\ sched'.armed = sched.armed /\ sched'.nest = 1
  BY <1>1, <1>2, Entered
<1>4. sched'.stat[sched'.cur] = "READY"
  BY <1>2, <1>3
<1>5. Inv'
  BY <1>1, <1>3, <1>4, OnlyScheduled
<1> QED BY <1>3, <1>5

(* and unlocks it, after which the most urgent thread runs.                *)
LEMMA BusyWaitEndsInv == ASSUME Inv, BusyWaitEnds PROVE Inv' /\ Picked(sched')
<1>1. /\ sched' = rt_exit_critical(sched)
      /\ UNCHANGED <<sem, mutex, at, asleep, late, rt_tick, timers>>
      /\ sched.nest = 1 /\ Fit(sched)
  BY DEF BusyWaitEnds, Inv, Scheduled
<1>2. /\ Fit(sched') /\ Picked(sched') /\ sched'.stat = sched.stat
      /\ sched'.prio = sched.prio /\ sched'.armed = sched.armed /\ sched'.nest = 0
  BY <1>1, Unlocked
<1>3. sched'.stat[sched'.cur] = "READY"
  BY <1>2 DEF Picked
<1>4. Inv'
  BY <1>1, <1>2, <1>3, OnlyScheduled
<1> QED BY <1>2, <1>4

(* A timer is stopped before it is started for another time.               *)
LEMMA Restart ==
  ASSUME NEW tl, NEW now \in TickRange, TimersFit(tl, now), NEW t \in Clients,
         NEW time \in 0..(Half - 1)
  PROVE  Started(tl, rt_timer_start(rt_timer_stop(tl, t), t, now, time), t, now, time)
<1> DEFINE b == rt_timer_stop(tl, t)
           r == rt_timer_start(b, t, now, time)
<1>1. Stopped(tl, b, t, now)
  BY Stop
<1> HIDE DEF b
<1>2. TimersFit(b, now) /\ ~b.active[t]
  BY <1>1 DEF Stopped, TimersFit
<1>3. Started(b, r, t, now, time)
  BY <1>2, Start
<1> HIDE DEF r
<1>4. [[tl.active EXCEPT ![t] = FALSE] EXCEPT ![t] = TRUE] = [tl.active EXCEPT ![t] = TRUE]
  BY DEF TimersFit
<1> QED BY <1>1, <1>3, <1>4 DEF Stopped, Started, b, r

(* The timer of a thread that has just been suspended is started.          *)
LEMMA TimedStart ==
  ASSUME Inv, NEW t \in Clients, NEW time \in 0..(Half - 1),
         timers' = rt_timer_start(rt_timer_stop(timers, t), t, rt_tick, time),
         rt_tick' = rt_tick, sched'.armed = sched.armed \cup {t}
  PROVE  Timed' /\ Started(timers, timers', t, rt_tick, time)
<1>1. rt_tick \in TickRange /\ TimersFit(timers, rt_tick) /\ sched.armed = ToSet(timers.list)
  BY DEF Inv, Types, Timed
<1>2. Started(timers, timers', t, rt_tick, time)
  BY <1>1, Restart
<1>3. TimersFit(timers', rt_tick')
  BY <1>2 DEF Started
<1>4. ToSet(timers'.list) = ToSet(timers.list) \cup {t}
  <2>1. timers'.active = [timers.active EXCEPT ![t] = TRUE]
    BY <1>2 DEF Started
  <2>2. ToSet(timers'.list) = {u \in Clients : timers'.active[u]}
    BY <1>3 DEF TimersFit
  <2>3. ToSet(timers.list) = {u \in Clients : timers.active[u]} /\ timers.active \in [Clients -> BOOLEAN]
    BY <1>1 DEF TimersFit
  <2> QED BY <2>1, <2>2, <2>3
<1>5. Timed'
  BY <1>1, <1>3, <1>4 DEF Timed
<1> QED BY <1>2, <1>5

(* rt_thread_delay: the caller is suspended and its timer runs.            *)
LEMMA SleepInv ==
  ASSUME Inv, NEW t \in Clients, NEW time \in Ticks, Sleep(t, time)
  PROVE  Inv' /\ Picked(sched') /\ Started(timers, timers', t, rt_tick, time)
<1>1. /\ sched.cur = t /\ sched.nest = 0 /\ at[t] # "want" /\ t \notin asleep
      /\ sched' = rt_thread_delay(sched, t)
      /\ timers' = rt_timer_start(rt_timer_stop(timers, t), t, rt_tick, time)
      /\ asleep' = asleep \cup {t}
      /\ UNCHANGED <<sem, mutex, at, late, rt_tick>>
  BY DEF Sleep, Free, Running
<1>2. Fit(sched) /\ sched.stat[t] = "READY" /\ t \in Thread \ {Idle}
  BY <1>1, Constants DEF Inv, Scheduled, Clients
<1>3. Effect(sched, sched', t, "SUSPEND", sched.armed \cup {t})
  BY <1>1, <1>2, Delayed
<1>4. Waiters' = Waiters /\ Owner' = Owner /\ ToSet(Waiters)' = ToSet(Waiters)
  BY <1>1, SameMutex
<1>5. Types'
  BY <1>1 DEF Inv, Types
<1>6. Scheduled'
  BY <1>1, <1>3 DEF Scheduled, Effect, Picked
<1>7. sched.stat \in [Thread -> Stats] /\ Clients \subseteq Thread
  BY <1>2, Constants DEF Fit
<1>8. ASSUME NEW u \in Clients PROVE Standing(u)'
  <2>1. CASE u # t
    <3>1. sched'.stat[u] = sched.stat[u] /\ (u \in sched'.armed <=> u \in sched.armed)
      BY <2>1, <1>3, <1>7 DEF Effect
    <3> QED BY <2>1, <3>1, <1>1, <1>4, Unmoved
  <2>2. CASE u = t
    <3>1. sched'.stat[t] = "SUSPEND" /\ t \in sched'.armed
      BY <1>3, <1>7 DEF Effect
    <3>2. Standing(t)
      BY DEF Inv
    <3> QED BY <2>2, <3>1, <3>2, <1>1, <1>2, <1>4 DEF Standing
  <2> QED BY <2>1, <2>2
<1>9. Owned'
  BY <1>3, <1>4, <1>1 DEF Inv, Owned, Effect
<1>10. Timed' /\ Started(timers, timers', t, rt_tick, time)
  <2>1. time \in 0..(Half - 1)
    BY Constants
  <2>2. sched'.armed = sched.armed \cup {t}
    BY <1>3 DEF Effect
  <2> QED BY <2>1, <2>2, <1>1, TimedStart
<1> QED BY <1>3, <1>5, <1>6, <1>8, <1>9, <1>10 DEF Inv, Effect

-----------------------------------------------------------------------------
(* Taking the mutex                                                        *)

(* What a client that is between two calls knows.                          *)
LEMMA FreeKnows ==
  ASSUME Inv, NEW t \in Clients, Free(t)
  PROVE  /\ sched.cur = t /\ sched.nest = 0 /\ sched.stat[t] = "READY"
         /\ at[t] \in {"out", "in"} /\ t \notin asleep /\ t \notin late
         /\ t \notin sched.armed /\ t \notin ToSet(Waiters)
         /\ at[t] = "in" <=> Owner = t
         /\ t \in Thread \ {Idle} /\ Fit(sched)
<1>1. sched.cur = t /\ sched.nest = 0 /\ at[t] # "want" /\ t \notin asleep
  BY DEF Free, Running
<1>2. sched.stat[t] = "READY" /\ Standing(t) /\ at[t] \in {"out", "in", "want"} /\ Fit(sched)
  BY <1>1 DEF Inv, Scheduled, Types
<1> QED BY <1>1, <1>2, Constants DEF Standing, Clients

(* The fields of the mutex by their names.                                 *)
LEMMA MutexIs ==
  ASSUME Inv
  PROVE  /\ mutex \in [Mutex -> MutexType] /\ M \in Mutex
         /\ Waiters \in Seq(Thread) /\ Owner \in Clients \cup {Nobody}
         /\ mutex[M].value \in Nat /\ mutex[M].hold \in Nat /\ mutex[M].original \in Nat
         /\ MutexHas(mutex, M, mutex[M].value, mutex[M].hold, Owner, mutex[M].original, Waiters)
<1>1. mutex \in [Mutex -> MutexType] /\ M \in Mutex
  BY Constants DEF Inv, Types
<1>2. Owner \in Clients \cup {Nobody}
  BY DEF Inv, Owned
<1> QED BY <1>1, <1>2, MutexFields DEF Waiters, Owner

(* The fields of the mutex after a step, by their names.                   *)
LEMMA MutexBecomes ==
  ASSUME NEW v, NEW h, NEW o, NEW g, NEW w, MutexHas(mutex', M, v, h, o, g, w)
  PROVE  /\ mutex' \in [Mutex -> MutexType] /\ Waiters' = w /\ Owner' = o
         /\ ToSet(Waiters)' = ToSet(w)
         /\ mutex'[M].value = v /\ mutex'[M].hold = h /\ mutex'[M].original = g
BY DEF MutexHas, Waiters, Owner, ToSet

(* The owner takes it again, or t takes it while nobody has it.            *)
LEMMA TakesInv ==
  ASSUME Inv, NEW t \in Clients, Free(t), NEW h \in 1..MaxHold,
         Owner \in {t, Nobody},
         MutexHas(mutex', M, 0, h, t, InitPriority[t], Waiters),
         at' = [at EXCEPT ![t] = "in"],
         UNCHANGED <<sched, sem, asleep, late, rt_tick, timers>>
  PROVE  Inv'
<1>5. /\ Waiters' = Waiters /\ ToSet(Waiters)' = ToSet(Waiters) /\ Owner' = t
      /\ mutex' \in [Mutex -> MutexType]
      /\ mutex'[M].value = 0 /\ mutex'[M].hold = h /\ mutex'[M].original = InitPriority[t]
  BY MutexBecomes
<1>6. Types'
  BY <1>5 DEF Inv, Types
<1>7. Scheduled'
  BY <1>5 DEF Inv, Scheduled
<1>8. at'[t] = "in" /\ \A u \in Clients : u # t => at'[u] = at[u]
  BY DEF Inv, Types
<1>9. ASSUME NEW u \in Clients PROVE Standing(u)'
  <2>1. CASE u # t
    <3>1. Owner # u /\ Owner' # u
      BY <2>1, <1>5, Constants
    <3> QED BY <2>1, <3>1, <1>5, <1>8, Unmoved
  <2>2. CASE u = t
    <3>1. /\ sched.stat[t] = "READY" /\ t \notin asleep /\ t \notin late
          /\ t \notin sched.armed /\ t \notin ToSet(Waiters)
      BY FreeKnows
    <3> QED BY <2>2, <3>1, <1>5, <1>8 DEF Standing
  <2> QED BY <2>1, <2>2
<1>10. Owned'
  <2>1. Once(Waiters') /\ ToSet(Waiters') \subseteq Clients /\ Ordered(Waiters', InitPriority)
    BY <1>5 DEF Inv, Owned, ToSet
  <2>2. Owner' # Nobody
    BY <1>5, Constants
  <2>3. /\ sched.prio[t] <= InitPriority[t]
        /\ \A w \in ToSet(Waiters) : sched.prio[t] <= InitPriority[w]
        /\ \A u \in Thread : u # t => sched.prio[u] = InitPriority[u]
    <3>1. CASE Owner = t
      BY <3>1, Constants DEF Inv, Owned
    <3>2. CASE Owner = Nobody
      <4>1. Waiters = <<>> /\ \A u \in Thread : sched.prio[u] = InitPriority[u]
        BY <3>2, Constants DEF Inv, Owned
      <4>2. ToSet(Waiters) = {}
        BY <4>1 DEF ToSet
      <4>3. t \in Thread /\ InitPriority[t] \in Nat
        BY Constants
      <4> QED BY <4>1, <4>2, <4>3
    <3> QED BY <3>1, <3>2
  <2>4. /\ sched'.prio[Owner'] <= InitPriority[Owner']
        /\ \A w \in ToSet(Waiters') : sched'.prio[Owner'] <= InitPriority[w]
        /\ \A u \in Thread : u # Owner' => sched'.prio[u] = InitPriority[u]
    BY <2>3, <1>5
  <2>5. mutex'[M].value = 0 /\ mutex'[M].hold \in 1..MaxHold /\ mutex'[M].original = InitPriority[Owner']
    BY <1>5
  <2> QED BY <2>1, <2>2, <2>4, <2>5, <1>5 DEF Owned
<1>11. Timed'
  BY SameTimers
<1> QED BY <1>6, <1>7, <1>9, <1>10, <1>11 DEF Inv

(* The owner has the more urgent of its priority and the new waiter's.     *)
LEMMA Lent ==
  ASSUME Inv, NEW t \in Clients, NEW p, Owner \in Clients,
         p = IF sched.prio[t] < sched.prio[Owner] THEN sched.prio[t] ELSE sched.prio[Owner]
  PROVE  Repriced(sched, Lend(t, M), Owner, p)
<1>1. Fit(sched) /\ sched.prio \in [Thread -> Priorities] /\ Owner \in Thread \ {Idle} /\ t \in Thread
  BY Constants DEF Inv, Scheduled, Fit
<1>2. CASE sched.prio[t] < sched.prio[Owner]
  <2>1. Lend(t, M) = ChangePriority(sched, Owner, sched.prio[t]) /\ p = sched.prio[t]
    BY <1>2 DEF Lend, Owner
  <2>2. sched.prio[t] \in Priorities
    BY <1>1
  <2> QED BY <1>1, <2>1, <2>2, PriorityChanged
<1>3. CASE ~(sched.prio[t] < sched.prio[Owner])
  <2>1. Lend(t, M) = sched /\ p = sched.prio[Owner]
    BY <1>3 DEF Lend, Owner
  <2>2. [sched.prio EXCEPT ![Owner] = sched.prio[Owner]] = sched.prio
    BY <1>1
  <2> QED BY <1>1, <2>1, <2>2 DEF Repriced
<1> QED BY <1>2, <1>3

(* Lending, then suspending: only the owner's priority and the caller's    *)
(* status change.                                                          *)
LentPriority(t) ==
  IF sched.prio[t] < sched.prio[Owner] THEN sched.prio[t] ELSE sched.prio[Owner]

(* The owner's priority is lent, the caller is suspended, and the most     *)
(* urgent thread runs.                                                     *)
LEMMA WaitEffect ==
  ASSUME Inv, NEW t \in Clients, NEW time, Free(t), Owner \in Clients \ {t},
         sched' = rt_schedule([rt_thread_suspend(Lend(t, M), t) EXCEPT
                                !.armed = IF time > 0 THEN @ \cup {t} ELSE @])
  PROVE  /\ Fit(Lend(t, M)) /\ Lend(t, M).prio = [sched.prio EXCEPT ![Owner] = LentPriority(t)]
         /\ Fit(sched') /\ Picked(sched') /\ sched'.nest = 0
         /\ sched'.armed = IF time > 0 THEN sched.armed \cup {t} ELSE sched.armed
         /\ sched'.stat = [sched.stat EXCEPT ![t] = "SUSPEND"]
         /\ sched'.prio = [sched.prio EXCEPT ![Owner] = LentPriority(t)]
<1> DEFINE l == Lend(t, M)
           p == LentPriority(t)
           armed == IF time > 0 THEN sched.armed \cup {t} ELSE sched.armed
<1>1. /\ sched.cur = t /\ sched.nest = 0 /\ sched.stat[t] = "READY"
      /\ t \notin sched.armed /\ t \in Thread \ {Idle} /\ Fit(sched)
  BY FreeKnows
<1>2. Repriced(sched, l, Owner, p)
  BY Lent DEF LentPriority
<1> HIDE DEF l, p
<1>3. /\ Fit(l) /\ l.stat = sched.stat /\ l.armed = sched.armed /\ l.nest = 0
      /\ l.prio = [sched.prio EXCEPT ![Owner] = p]
  BY <1>1, <1>2 DEF Repriced
<1>12. Effect(l, sched', t, "SUSPEND", armed)
  <2>1. rt_thread_suspend(l, t).armed = l.armed \ {t}
    BY <1>1, <1>3, Suspended
  <2>5. rt_thread_suspend(l, t).armed = sched.armed
    BY <2>1, <1>1, <1>3
  <2>2. (IF time > 0 THEN rt_thread_suspend(l, t).armed \cup {t} ELSE rt_thread_suspend(l, t).armed) = armed
    BY <2>5
  <2>3. armed \in SUBSET Thread
    BY <1>1 DEF Fit
  <2> HIDE DEF armed
  <2>4. sched' = rt_schedule([rt_thread_suspend(l, t) EXCEPT !.armed = armed])
    BY <2>2 DEF l
  <2> QED BY <2>3, <2>4, <1>1, <1>3, BlockedWith
<1>13. /\ Fit(sched') /\ Picked(sched') /\ sched'.armed = armed /\ sched'.nest = 0
       /\ sched'.stat = [sched.stat EXCEPT ![t] = "SUSPEND"]
       /\ sched'.prio = [sched.prio EXCEPT ![Owner] = p]
  BY <1>3, <1>12 DEF Effect
<1> QED BY <1>3, <1>13 DEF l, p

(* t waits for the mutex, for some time or for ever.                       *)
LEMMA WaitsInv ==
  ASSUME Inv, NEW t \in Clients, NEW time \in Ticks \cup {RT_WAITING_FOREVER}, Free(t),
         Owner \in Clients \ {t}, time # 0,
         mutex' = [mutex EXCEPT ![M].waiters = Enqueue(Lend(t, M), @, t)],
         sched' = rt_schedule([rt_thread_suspend(Lend(t, M), t) EXCEPT
                                !.armed = IF time > 0 THEN @ \cup {t} ELSE @]),
         at' = [at EXCEPT ![t] = "want"],
         timers' = IF time > 0
                   THEN rt_timer_start(rt_timer_stop(timers, t), t, rt_tick, time)
                   ELSE timers,
         UNCHANGED <<sem, asleep, late, rt_tick>>
  PROVE  /\ Inv' /\ Picked(sched') /\ Owner' = Owner
         /\ IF time > 0 THEN time \in 0..(Half - 1) /\ Started(timers, timers', t, rt_tick, time)
                        ELSE timers' = timers
<1> DEFINE l == Lend(t, M)
           p == LentPriority(t)
           w == Enqueue(l, Waiters, t)
           armed == IF time > 0 THEN sched.armed \cup {t} ELSE sched.armed
<1>1. /\ sched.cur = t /\ sched.nest = 0 /\ sched.stat[t] = "READY"
      /\ t \notin asleep /\ t \notin late /\ t \notin sched.armed /\ t \notin ToSet(Waiters)
      /\ t \in Thread \ {Idle} /\ Fit(sched)
  BY FreeKnows
<1>3. Fit(l) /\ l.prio = [sched.prio EXCEPT ![Owner] = p]
  BY WaitEffect
<1> HIDE DEF l
<1>4. /\ sched.prio \in [Thread -> Priorities] /\ sched.stat \in [Thread -> Stats]
      /\ sched.armed \subseteq Thread
  BY <1>1 DEF Fit
<1>5. /\ \A u \in Thread : InitPriority[u] \in Nat
      /\ \A u \in Thread : sched.prio[u] \in Nat
      /\ Clients \subseteq Thread
  BY <1>4, Constants
<1>6. /\ \A u \in Thread : u # Owner => sched.prio[u] = InitPriority[u]
      /\ Owner # Nobody
      /\ ToSet(Waiters) \subseteq Clients /\ Once(Waiters) /\ Ordered(Waiters, InitPriority)
      /\ mutex[M].value = 0 /\ mutex[M].hold \in 1..MaxHold
      /\ mutex[M].original = InitPriority[Owner]
      /\ sched.prio[Owner] <= InitPriority[Owner]
      /\ \A u \in ToSet(Waiters) : sched.prio[Owner] <= InitPriority[u]
  BY Constants DEF Inv, Owned
<1>7. Owner \notin ToSet(Waiters)
  <2>1. Standing(Owner)
    BY DEF Inv
  <2> QED BY <2>1 DEF Standing
<1>8. \A u \in ToSet(Waiters) \cup {t} : l.prio[u] = InitPriority[u]
  BY <1>1, <1>3, <1>4, <1>5, <1>6, <1>7
<1>9. w \in Seq(Thread) /\ Once(w) /\ ToSet(w) = ToSet(Waiters) \cup {t} /\ Ordered(w, InitPriority)
  <2>1. Waiters \in Seq(Thread)
    BY MutexIs
  <2>2. t \in Thread /\ t \notin ToSet(Waiters) /\ Once(Waiters) /\ Ordered(Waiters, InitPriority)
    BY <1>1, <1>6
  <2>3. Agrees(l, InitPriority, Waiters, t)
    BY <1>1, <1>5, <1>6, <1>8 DEF Agrees
  <2>4. Queued(Enqueue(l, Waiters, t), Waiters, t, InitPriority)
    BY <2>1, <2>2, <2>3, Enqueued
  <2> QED BY <2>4 DEF Queued
<1> HIDE DEF w
<1>10. MutexHas(mutex', M, mutex[M].value, mutex[M].hold, Owner, mutex[M].original, w)
  <2>1. mutex' = [mutex EXCEPT ![M].waiters = w]
    BY DEF w, l, Waiters
  <2>2. MutexHas(mutex, M, mutex[M].value, mutex[M].hold, Owner, mutex[M].original, Waiters)
        /\ M \in Mutex
    BY MutexIs
  <2>3. MutexHas([mutex EXCEPT ![M].waiters = w], M, mutex[M].value, mutex[M].hold, Owner,
                 mutex[M].original, w)
    BY <2>2, <1>9, FieldSet
  <2> QED BY <2>1, <2>3
<1>11. /\ mutex' \in [Mutex -> MutexType] /\ Waiters' = w /\ ToSet(Waiters)' = ToSet(w)
       /\ Owner' = Owner /\ mutex'[M].value = mutex[M].value
       /\ mutex'[M].hold = mutex[M].hold /\ mutex'[M].original = mutex[M].original
  BY <1>10, MutexBecomes
<1>13. /\ Fit(sched') /\ Picked(sched') /\ sched'.armed = armed /\ sched'.nest = 0
       /\ sched'.stat = [sched.stat EXCEPT ![t] = "SUSPEND"]
       /\ sched'.prio = [sched.prio EXCEPT ![Owner] = p]
  BY WaitEffect
<1>14. Types'
  BY <1>11 DEF Inv, Types
<1>15. Scheduled'
  BY <1>13 DEF Scheduled, Picked
<1>16. ASSUME NEW u \in Clients PROVE Standing(u)'
  <2>1. at'[t] = "want" /\ \A x \in Clients : x # t => at'[x] = at[x]
    BY DEF Inv, Types
  <2>2. CASE u # t
    <3>1. sched'.stat[u] = sched.stat[u] /\ (u \in sched'.armed <=> u \in sched.armed)
      BY <2>2, <1>4, <1>5, <1>13
    <3>2. u \in ToSet(Waiters)' <=> u \in ToSet(Waiters)
      BY <2>2, <1>9, <1>11
    <3> QED BY <2>1, <2>2, <3>1, <3>2, <1>11, Unmoved
  <2>3. CASE u = t
    <3>1. sched'.stat[t] = "SUSPEND" /\ t \in ToSet(Waiters)' /\ Owner' # t
      BY <1>1, <1>4, <1>9, <1>11, <1>13
    <3> QED BY <2>1, <2>3, <3>1, <1>1 DEF Standing
  <2> QED BY <2>2, <2>3
<1>17. Owned'
  <2>1. ToSet(Waiters') = ToSet(Waiters) \cup {t} /\ Once(Waiters') /\ Ordered(Waiters', InitPriority)
    BY <1>9, <1>11
  <2>2. /\ sched'.prio[Owner] = p
        /\ \A u \in Thread : u # Owner => sched'.prio[u] = InitPriority[u]
    BY <1>4, <1>5, <1>6, <1>13
  <2>3. sched.prio[t] = InitPriority[t] /\ sched.prio[t] \in Nat /\ sched.prio[Owner] \in Nat
        /\ InitPriority[Owner] \in Nat
    BY <1>1, <1>5, <1>6
  <2>4. p <= InitPriority[Owner] /\ p <= InitPriority[t] /\ p <= sched.prio[Owner] /\ p \in Nat
    BY <2>3, <1>6 DEF LentPriority
  <2>5. \A u \in ToSet(Waiters) \cup {t} : p <= InitPriority[u]
    <3> HIDE DEF p
    <3>1. \A u \in ToSet(Waiters) : InitPriority[u] \in Nat /\ sched.prio[Owner] <= InitPriority[u]
      BY <1>5, <1>6
    <3>2. ASSUME NEW u \in ToSet(Waiters) PROVE p <= InitPriority[u]
      BY <3>1, <2>3, <2>4
    <3> QED BY <3>2, <2>4
  <2> HIDE DEF p
  <2>6. /\ sched'.prio[Owner'] <= InitPriority[Owner']
        /\ \A u \in ToSet(Waiters') : sched'.prio[Owner'] <= InitPriority[u]
        /\ \A u \in Thread : u # Owner' => sched'.prio[u] = InitPriority[u]
    BY <2>1, <2>2, <2>4, <2>5, <1>11
  <2>7. ToSet(Waiters') \subseteq Clients /\ Owner' \in Clients \cup {Nobody} /\ Owner' # Nobody
    BY <2>1, <1>6, <1>11
  <2> QED BY <2>1, <2>6, <2>7, <1>6, <1>11 DEF Owned
<1>18. Timed' /\ IF time > 0 THEN time \in 0..(Half - 1) /\ Started(timers, timers', t, rt_tick, time)
                            ELSE timers' = timers
  <2>1. CASE time > 0
    <3>1. time \in 0..(Half - 1)
      BY <2>1, Constants DEF RT_WAITING_FOREVER
    <3>2. /\ timers' = rt_timer_start(rt_timer_stop(timers, t), t, rt_tick, time)
          /\ rt_tick' = rt_tick /\ sched'.armed = sched.armed \cup {t}
      BY <2>1, <1>13
    <3>3. Timed' /\ Started(timers, timers', t, rt_tick, time)
      BY <3>1, <3>2, TimedStart
    <3> QED BY <2>1, <3>1, <3>3
  <2>2. CASE ~(time > 0)
    <3>1. timers' = timers /\ rt_tick' = rt_tick /\ sched'.armed = sched.armed
      BY <2>2, <1>13
    <3> QED BY <2>2, <3>1, SameTimers
  <2> QED BY <2>1, <2>2
<1> QED BY <1>11, <1>13, <1>14, <1>15, <1>16, <1>17, <1>18 DEF Inv

(* rt_mutex_take: by the owner, of a free mutex, without waiting, for some *)
(* time, or for ever.                                                      *)
LEMMA TakeInv ==
  ASSUME Inv, NEW t \in Clients, NEW time \in Ticks \cup {RT_WAITING_FOREVER}, Take(t, time)
  PROVE  /\ Inv'
         /\ sched' = sched \/ Picked(sched')
         /\ Owner' = Owner \/ (Owner = Nobody /\ Waiters = <<>>)
         /\ \/ timers' = timers
            \/ time \in 0..(Half - 1) /\ Started(timers, timers', t, rt_tick, time)
<1> DEFINE waits == sched'.stat[t] = "SUSPEND"
<1>1. /\ Free(t)
      /\ at[t] = "out" \/ (at[t] = "in" /\ mutex[M].hold < MaxHold)
      /\ rt_mutex_take(t, M, time)
      /\ at' = [at EXCEPT ![t] = CASE mutex'[M].owner = t -> "in"
                                   [] waits               -> "want"
                                   [] OTHER               -> "out"]
      /\ timers' = IF waits /\ time > 0
                   THEN rt_timer_start(rt_timer_stop(timers, t), t, rt_tick, time)
                   ELSE timers
      /\ UNCHANGED <<sem, asleep, late, rt_tick>>
  BY DEF Take
<1>2. /\ sched.stat[t] = "READY" /\ (at[t] = "in" <=> Owner = t) /\ t \in Thread
      /\ t # Nobody /\ InitPriority[t] \in Nat
  BY <1>1, FreeKnows, Constants
<1>3. /\ Owner = Nobody => mutex[M].value = 1 /\ mutex[M].hold = 0 /\ Waiters = <<>>
      /\ Owner # Nobody => /\ mutex[M].value = 0 /\ mutex[M].hold \in 1..MaxHold
                           /\ mutex[M].original = InitPriority[Owner]
      /\ Owner \in Clients \cup {Nobody}
      /\ t # Owner => sched.prio[t] = InitPriority[t]
      /\ at \in [Clients -> {"out", "in", "want"}]
  BY <1>2 DEF Inv, Owned, Types
<1>4. MaxHold \in Nat \ {0}
  BY ClientAssumption
<1>5. MutexHas(mutex, M, mutex[M].value, mutex[M].hold, Owner, mutex[M].original, Waiters)
      /\ mutex \in [Mutex -> MutexType] /\ M \in Mutex
  BY MutexIs
<1>6. CASE /\ Owner = t
           /\ mutex' = [mutex EXCEPT ![M].hold = @ + 1]
           /\ UNCHANGED sched
  <2> DEFINE h == mutex[M].hold + 1
  <2>1. h \in 1..MaxHold /\ h \in Nat
    BY <1>1, <1>2, <1>3, <1>4, <1>6
  <2>2. mutex' = [mutex EXCEPT ![M].hold = h]
    BY <1>6
  <2> HIDE DEF h
  <2>3. MutexHas(mutex', M, mutex[M].value, h, Owner, mutex[M].original, Waiters)
    BY <2>1, <2>2, <1>5, FieldSet
  <2>4. mutex[M].value = 0 /\ mutex[M].original = InitPriority[t]
    BY <1>2, <1>3, <1>6
  <2>5. MutexHas(mutex', M, 0, h, t, InitPriority[t], Waiters)
    BY <2>3, <2>4, <1>6
  <2>6. mutex'[M].owner = t /\ ~waits
    BY <2>5, <1>2, <1>6 DEF MutexHas
  <2>7. at' = [at EXCEPT ![t] = "in"] /\ timers' = timers
    BY <2>6, <1>1
  <2>10. UNCHANGED <<sched, sem, asleep, late, rt_tick, timers>> /\ Owner \in {t, Nobody} /\ Free(t)
    BY <2>7, <1>1, <1>6
  <2>8. Inv'
    BY ONLY Inv, t \in Clients, <2>1, <2>5, <2>7, <2>10, TakesInv
  <2>9. Owner' = Owner
    BY <2>6, <1>6 DEF Owner
  <2> QED BY <2>7, <2>8, <2>9, <1>6
<1>7. CASE /\ Owner # t
           /\ mutex[M].value > 0
           /\ mutex' = [mutex EXCEPT ![M].value = @ - 1, ![M].hold = @ + 1,
                                     ![M].owner = t, ![M].original = sched.prio[t]]
           /\ UNCHANGED sched
  <2>1. Owner = Nobody /\ mutex[M].value = 1 /\ mutex[M].hold = 0 /\ Waiters = <<>>
    BY <1>3, <1>7
  <2>2. sched.prio[t] = InitPriority[t]
    BY <1>3, <1>7
  <2>3. mutex' = [mutex EXCEPT ![M].value = 0, ![M].hold = 1,
                               ![M].owner = t, ![M].original = InitPriority[t]]
    BY <2>1, <2>2, <1>7
  <2>4. MutexHas(mutex', M, 0, 1, t, InitPriority[t], mutex[M].waiters)
    BY <2>3, <1>2, <1>5, MutexUpdated
  <2>5. MutexHas(mutex', M, 0, 1, t, InitPriority[t], Waiters)
    BY <2>4 DEF Waiters
  <2>6. mutex'[M].owner = t /\ ~waits
    BY <2>5, <1>2, <1>7 DEF MutexHas
  <2>7. at' = [at EXCEPT ![t] = "in"] /\ timers' = timers
    BY <2>6, <1>1
  <2>8. 1 \in 1..MaxHold
    BY <1>4
  <2>10. UNCHANGED <<sched, sem, asleep, late, rt_tick, timers>> /\ Owner \in {t, Nobody} /\ Free(t)
    BY <2>1, <2>7, <1>1, <1>7
  <2>9. Inv'
    BY ONLY Inv, t \in Clients, <2>5, <2>7, <2>8, <2>10, TakesInv
  <2> QED BY <2>1, <2>7, <2>9, <1>7
<1>8. CASE Owner # t /\ UNCHANGED <<mutex, sched>>
  <2>1. mutex'[M].owner # t /\ ~waits /\ at[t] = "out"
    BY <1>1, <1>2, <1>8 DEF Owner
  <2>2. timers' = timers /\ at' = [at EXCEPT ![t] = "out"]
    BY <2>1, <1>1
  <2>3. at' = at
    BY <2>1, <2>2, <1>3
  <2>4. UNCHANGED vars
    BY <2>2, <2>3, <1>1, <1>8 DEF vars, kernel
  <2>5. Inv'
    BY <2>4, StutterInv
  <2>6. Owner' = Owner
    BY <1>8 DEF Owner
  <2> QED BY <2>2, <2>5, <2>6, <1>8
<1>9. CASE /\ Owner # t
           /\ mutex[M].value = 0
           /\ time # 0
           /\ mutex' = [mutex EXCEPT ![M].waiters = Enqueue(Lend(t, M), @, t)]
           /\ sched' = rt_schedule([rt_thread_suspend(Lend(t, M), t) EXCEPT
                                     !.armed = IF time > 0 THEN @ \cup {t} ELSE @])
  <2>1. Owner \in Clients \ {t}
    BY <1>3, <1>9
  <2>2. sched'.stat = [sched.stat EXCEPT ![t] = "SUSPEND"]
    BY <2>1, <1>1, <1>9, WaitEffect
  <2>3. waits
    BY <2>2, <1>2 DEF Inv, Scheduled, Fit
  <2>4. mutex'[M].owner = Owner
    BY <1>5, <1>9 DEF Owner, MutexType
  <2>5. /\ at' = [at EXCEPT ![t] = "want"]
        /\ timers' = IF time > 0
                     THEN rt_timer_start(rt_timer_stop(timers, t), t, rt_tick, time)
                     ELSE timers
    BY <2>3, <2>4, <1>1, <1>9
  <2>6. /\ Inv' /\ Picked(sched') /\ Owner' = Owner
        /\ IF time > 0 THEN time \in 0..(Half - 1) /\ Started(timers, timers', t, rt_tick, time)
                       ELSE timers' = timers
    BY <2>1, <2>5, <1>1, <1>9, WaitsInv
  <2> QED BY <2>6
<1> QED BY <1>1, <1>6, <1>7, <1>8, <1>9 DEF rt_mutex_take, Owner

-----------------------------------------------------------------------------
(* Releasing the mutex                                                     *)

(* The first of the waiters is the most urgent; who is left stays in order. *)
HeadTaken(list, key) ==
  /\ Head(list) \in ToSet(list)
  /\ Tail(list) \in Seq(Thread)
  /\ Once(Tail(list))
  /\ ToSet(Tail(list)) = ToSet(list) \ {Head(list)}
  /\ Ordered(Tail(list), key)
  /\ \A u \in ToSet(list) : key[Head(list)] <= key[u]

LEMMA Headed ==
  ASSUME NEW list \in Seq(Thread), Once(list), list # <<>>, NEW key, Ordered(list, key),
         \A u \in ToSet(list) : key[u] \in Int
  PROVE  HeadTaken(list, key)
<1> DEFINE n == Len(list)
           r == Tail(list)
<1>1. n \in Nat /\ DOMAIN list = 1..n /\ n # 0
  BY LenProperties, EmptySeq
<1>2. r \in Seq(Thread) /\ Len(r) = n - 1 /\ \A i \in 1..(n - 1) : r[i] = list[i + 1]
  <2>1. /\ r \in Seq(Thread) /\ Len(r) = n - 1
        /\ \A i \in 1..Len(r) : r[i] = list[i + 1]
    BY HeadTailProperties
  <2> HIDE DEF r, n
  <2> QED BY <2>1
<1>3. Head(list) = list[1]
  BY HeadTailProperties
<1>4. DOMAIN r = 1..(n - 1)
  BY <1>2, LenProperties
<1> HIDE DEF n, r
<1>5. 1 \in 1..n /\ \A i \in 1..(n - 1) : i + 1 \in 1..n /\ i + 1 # 1
  BY <1>1
<1>6. ToSet(list) = {list[i] : i \in 1..n} /\ ToSet(r) = {r[i] : i \in 1..(n - 1)}
  BY <1>1, <1>4 DEF ToSet
<1>7. Once(r)
  <2>1. SUFFICES ASSUME NEW i \in 1..(n - 1), NEW j \in 1..(n - 1), r[i] = r[j] PROVE i = j
    BY <1>4 DEF Once
  <2>2. i + 1 = j + 1
    BY <2>1, <1>1, <1>2, <1>5 DEF Once
  <2> QED BY <2>2
<1>8. ToSet(r) = ToSet(list) \ {list[1]}
  <2>1. ASSUME NEW u \in ToSet(r) PROVE u \in ToSet(list) \ {list[1]}
    <3>1. PICK i \in 1..(n - 1) : u = list[i + 1]
      BY <1>2, <1>6
    <3>2. i + 1 \in 1..n /\ i + 1 # 1
      BY <1>5
    <3> QED BY <3>1, <3>2, <1>1, <1>5, <1>6 DEF Once
  <2>2. ASSUME NEW u \in ToSet(list), u # list[1] PROVE u \in ToSet(r)
    <3>1. PICK i \in 1..n : u = list[i]
      BY <1>6
    <3>2. i # 1
      BY <3>1, <2>2
    <3>3. i - 1 \in 1..(n - 1) /\ (i - 1) + 1 = i
      BY <3>2, <1>1
    <3> QED BY <3>1, <3>3, <1>2, <1>6
  <2> QED BY <2>1, <2>2
<1>9. Ordered(r, key)
  <2>1. SUFFICES ASSUME NEW i \in 1..(n - 1), NEW j \in 1..(n - 1), i < j
                 PROVE  key[r[i]] <= key[r[j]]
    BY <1>4 DEF Ordered
  <2>2. i + 1 \in 1..n /\ j + 1 \in 1..n /\ i + 1 < j + 1
    BY <2>1, <1>5
  <2>3. key[list[i + 1]] <= key[list[j + 1]]
    BY <2>2, <1>1 DEF Ordered
  <2> QED BY <2>3, <1>2
<1>10. ASSUME NEW u \in ToSet(list) PROVE key[list[1]] <= key[u]
  <2>1. PICK i \in 1..n : u = list[i]
    BY <1>6
  <2>2. CASE i = 1
    BY <2>1, <2>2
  <2>3. CASE i # 1
    <3>1. 1 < i
      BY <2>3, <1>1
    <3> QED BY <2>1, <3>1, <1>1, <1>5 DEF Ordered
  <2> QED BY <2>2, <2>3
<1> QED BY <1>2, <1>3, <1>5, <1>6, <1>7, <1>8, <1>9, <1>10 DEF HeadTaken, r

(* The owner gets its own priority back.                                   *)
LEMMA GivenBack ==
  ASSUME Inv, NEW t \in Clients, Owner = t
  PROVE  /\ Repriced(sched, Restore(t, M), t, InitPriority[t])
         /\ sched.prio[t] <= InitPriority[t]
         /\ sched.prio[t] = InitPriority[t] => Restore(t, M) = sched
<1>1. Fit(sched) /\ sched.prio \in [Thread -> Priorities] /\ t \in Thread \ {Idle}
  BY Constants DEF Inv, Scheduled, Fit
<1>2. mutex[M].original = InitPriority[t] /\ InitPriority[t] \in Priorities
      /\ sched.prio[t] <= InitPriority[t]
  BY Constants DEF Inv, Owned
<1>3. CASE mutex[M].original # sched.prio[t]
  <2>1. Restore(t, M) = ChangePriority(sched, t, InitPriority[t])
    BY <1>2, <1>3 DEF Restore
  <2>2. Repriced(sched, ChangePriority(sched, t, InitPriority[t]), t, InitPriority[t])
    BY <1>1, <1>2, PriorityChanged
  <2> QED BY <1>2, <1>3, <2>1, <2>2
<1>4. CASE mutex[M].original = sched.prio[t]
  <2>1. Restore(t, M) = sched
    BY <1>4 DEF Restore
  <2>2. [sched.prio EXCEPT ![t] = InitPriority[t]] = sched.prio
    BY <1>1, <1>2, <1>4
  <2>3. Repriced(sched, sched, t, InitPriority[t])
    BY <1>1, <2>2 DEF Repriced
  <2> QED BY <1>2, <2>1, <2>3
<1> QED BY <1>3, <1>4

(* Nobody waits: the mutex is free.                                        *)
LEMMA FreesInv ==
  ASSUME Inv, NEW t \in Clients, Free(t), Owner = t, Waiters = <<>>,
         MutexHas(mutex', M, 1, 0, Nobody, 255, Waiters),
         sched' = Restore(t, M), at' = [at EXCEPT ![t] = "out"],
         UNCHANGED <<sem, asleep, late, rt_tick, timers>>
  PROVE  Inv' /\ (sched' = sched \/ (sched'.cur = sched.cur /\ GivesUpLoan(sched.cur)))
<1>1. /\ sched.cur = t /\ sched.stat[t] = "READY" /\ t \notin asleep /\ t \notin late
      /\ t \notin sched.armed /\ t \notin ToSet(Waiters) /\ t \in Thread
  BY FreeKnows
<1>2. /\ Fit(sched') /\ sched'.stat = sched.stat /\ sched'.armed = sched.armed
      /\ sched'.nest = sched.nest /\ sched'.cur = sched.cur
      /\ sched'.prio = [sched.prio EXCEPT ![t] = InitPriority[t]]
      /\ sched.prio[t] <= InitPriority[t]
      /\ sched.prio[t] = InitPriority[t] => sched' = sched
  BY GivenBack DEF Repriced
<1>3. /\ Waiters' = Waiters /\ ToSet(Waiters)' = ToSet(Waiters) /\ Owner' = Nobody
      /\ mutex' \in [Mutex -> MutexType]
      /\ mutex'[M].value = 1 /\ mutex'[M].hold = 0
  BY MutexBecomes
<1>4. Types'
  BY <1>3 DEF Inv, Types
<1>5. Scheduled'
  BY <1>2, <1>3 DEF Inv, Scheduled
<1>6. ASSUME NEW u \in Clients PROVE Standing(u)'
  <2>1. at'[t] = "out" /\ \A x \in Clients : x # t => at'[x] = at[x]
    BY DEF Inv, Types
  <2>2. Owner' # u
    BY <1>3, Constants
  <2>3. CASE u # t
    BY <2>1, <2>2, <2>3, <1>2, <1>3, Unmoved
  <2>4. CASE u = t
    BY <2>1, <2>2, <2>4, <1>1, <1>2, <1>3 DEF Standing
  <2> QED BY <2>3, <2>4
<1>7. sched.prio \in [Thread -> Priorities]
  BY DEF Inv, Scheduled, Fit
<1>8. Owned'
  <2>1. \A u \in Thread : sched'.prio[u] = InitPriority[u]
    BY <1>1, <1>2, <1>7 DEF Inv, Owned
  <2>2. Once(Waiters') /\ ToSet(Waiters') \subseteq Clients /\ Ordered(Waiters', InitPriority)
    BY <1>3 DEF Inv, Owned, ToSet
  <2> QED BY <2>1, <2>2, <1>3 DEF Owned
<1>9. Timed'
  BY <1>2, SameTimers
<1>10. sched' = sched \/ (sched'.cur = sched.cur /\ GivesUpLoan(sched.cur))
  <2>1. CASE sched.prio[t] = InitPriority[t]
    BY <2>1, <1>2
  <2>2. CASE sched.prio[t] # InitPriority[t]
    <3>1. sched.prio[t] \in Nat /\ InitPriority[t] \in Nat
      BY <1>1, <1>7, Constants
    <3>2. sched.prio[t] < InitPriority[t]
      BY <3>1, <2>2, <1>2
    <3>3. sched'.prio[t] = InitPriority[t]
      BY <1>1, <1>2, <1>7
    <3> QED BY <3>2, <3>3, <1>1, <1>2, <1>3 DEF GivesUpLoan, Owner
  <2> QED BY <2>1, <2>2
<1> QED BY <1>4, <1>5, <1>6, <1>8, <1>9, <1>10 DEF Inv

(* The first waiter gets the mutex before it runs.                         *)
LEMMA HandsOverInv ==
  ASSUME Inv, NEW t \in Clients, Free(t), Owner = t, Waiters # <<>>,
         mutex[M].hold = 1,
         mutex' = [mutex EXCEPT ![M].owner = Head(Waiters),
                                ![M].original = Restore(t, M).prio[Head(Waiters)],
                                ![M].waiters = Tail(@)],
         sched' = rt_schedule(rt_thread_resume(Restore(t, M), Head(Waiters))),
         at' = [at EXCEPT ![t] = "out"],
         timers' = rt_timer_stop(timers, Head(Waiters)),
         UNCHANGED <<sem, asleep, late, rt_tick>>
  PROVE  /\ Inv' /\ Picked(sched') /\ Owner' = Head(Waiters)
         /\ Stopped(timers, timers', Head(Waiters), rt_tick)
<1> DEFINE n == Head(Waiters)
           r == Restore(t, M)
           w == Tail(Waiters)
<1>0. /\ mutex' = [mutex EXCEPT ![M].owner = n, ![M].original = r.prio[n], ![M].waiters = Tail(@)]
      /\ sched' = rt_schedule(rt_thread_resume(r, n))
      /\ timers' = rt_timer_stop(timers, n)
      /\ n = Head(Waiters)
  OBVIOUS
<1> HIDE DEF n
<1>1. /\ sched.cur = t /\ sched.stat[t] = "READY" /\ t \notin asleep /\ t \notin late
      /\ t \notin sched.armed /\ t \notin ToSet(Waiters) /\ t \in Thread
  BY FreeKnows
<1>2. Repriced(sched, r, t, InitPriority[t])
  BY GivenBack
<1> HIDE DEF r
<1>3. /\ Once(Waiters) /\ ToSet(Waiters) \subseteq Clients /\ Ordered(Waiters, InitPriority)
      /\ mutex[M].value = 0
      /\ \A u \in Thread : u # t => sched.prio[u] = InitPriority[u]
      /\ Waiters \in Seq(Thread)
  BY MutexIs, Constants DEF Inv, Owned
<1>4. \A u \in ToSet(Waiters) : InitPriority[u] \in Nat /\ InitPriority[u] \in Int
  BY <1>3, Constants
<1>5. HeadTaken(Waiters, InitPriority)
  BY <1>3, <1>4, Headed
<1>6. /\ n \in ToSet(Waiters) /\ n \in Clients /\ n \in Thread /\ n # t /\ n # Nobody
      /\ w \in Seq(Thread) /\ Once(w) /\ ToSet(w) = ToSet(Waiters) \ {n} /\ Ordered(w, InitPriority)
      /\ \A u \in ToSet(Waiters) : InitPriority[n] <= InitPriority[u]
  BY <1>0, <1>1, <1>3, <1>5, Constants DEF HeadTaken
<1> HIDE DEF w
<1>7. /\ sched.stat \in [Thread -> Stats] /\ sched.prio \in [Thread -> Priorities]
      /\ sched.armed \subseteq Thread
  BY DEF Inv, Scheduled, Fit
<1>8. /\ Fit(r) /\ r.stat = sched.stat /\ r.armed = sched.armed /\ r.cur = sched.cur
      /\ r.nest = sched.nest /\ r.prio = [sched.prio EXCEPT ![t] = InitPriority[t]]
  BY <1>2 DEF Repriced
<1>9. Standing(n) /\ at[n] = "want" /\ sched.stat[n] = "SUSPEND" /\ n \notin late /\ n \notin asleep
  BY <1>6 DEF Inv, Standing
<1>10. Effect(r, sched', n, "READY", r.armed \ {n})
  <2>1. r.stat[r.cur] = "READY" /\ r.stat[n] = "SUSPEND"
    BY <1>1, <1>8, <1>9
  <2> QED BY <2>1, <1>0, <1>6, <1>8, Resumed
<1>11. /\ Fit(sched') /\ Picked(sched') /\ sched'.armed = sched.armed \ {n}
       /\ sched'.nest = sched.nest /\ sched'.stat = [sched.stat EXCEPT ![n] = "READY"]
       /\ sched'.prio = [sched.prio EXCEPT ![t] = InitPriority[t]]
  BY <1>8, <1>10 DEF Effect
<1>12. \A u \in Thread : sched'.prio[u] = InitPriority[u]
  BY <1>1, <1>3, <1>7, <1>11
<1>13. r.prio[n] = InitPriority[n] /\ InitPriority[n] \in Nat
  <2>1. r.prio = sched'.prio
    BY <1>8, <1>11
  <2>2. InitPriority[n] \in Nat
    BY <1>6, Constants
  <2> QED BY <2>1, <2>2, <1>6, <1>12
<1>14. MutexHas(mutex', M, 0, 1, n, InitPriority[n], w)
  <2> DEFINE a == [mutex EXCEPT ![M].owner = n]
             b == [a EXCEPT ![M].original = InitPriority[n]]
             c == [b EXCEPT ![M].waiters = w]
  <2>1. MutexHas(mutex, M, 0, 1, Owner, mutex[M].original, Waiters) /\ M \in Mutex
    BY MutexIs, <1>3
  <2>2. MutexHas(a, M, 0, 1, n, mutex[M].original, Waiters)
    BY <2>1, <1>6, FieldSet
  <2>3. MutexHas(b, M, 0, 1, n, InitPriority[n], Waiters)
    <3> HIDE DEF a
    <3> QED BY <2>1, <2>2, <1>13, FieldSet
  <2>4. MutexHas(c, M, 0, 1, n, InitPriority[n], w)
    <3> HIDE DEF b
    <3> QED BY <2>1, <2>3, <1>6, FieldSet
  <2>5. mutex' = c
    <3>1. mutex' = [mutex EXCEPT ![M].owner = n, ![M].original = InitPriority[n],
                                 ![M].waiters = w]
      BY <1>0, <1>13 DEF w, Waiters
    <3> QED BY <3>1
  <2> QED BY <2>4, <2>5
<1>15. /\ Waiters' = w /\ ToSet(Waiters)' = ToSet(w) /\ Owner' = n
       /\ mutex' \in [Mutex -> MutexType]
       /\ mutex'[M].value = 0 /\ mutex'[M].hold = 1 /\ mutex'[M].original = InitPriority[n]
  BY ONLY <1>14, MutexBecomes
<1>16. Types'
  BY <1>15 DEF Inv, Types
<1>17. Scheduled'
  BY <1>11 DEF Inv, Scheduled, Picked
<1>18. ASSUME NEW u \in Clients PROVE Standing(u)'
  <2>1. at'[t] = "out" /\ \A x \in Clients : x # t => at'[x] = at[x]
    BY DEF Inv, Types
  <2>2. CASE u # t /\ u # n
    <3>1. sched'.stat[u] = sched.stat[u] /\ (u \in sched'.armed <=> u \in sched.armed)
      BY <2>2, <1>7, <1>11, Constants
    <3>2. (u \in ToSet(Waiters)' <=> u \in ToSet(Waiters)) /\ Owner # u /\ Owner' # u
      BY <2>2, <1>6, <1>15
    <3> QED BY <2>1, <2>2, <3>1, <3>2, Unmoved
  <2>3. CASE u = t
    <3>1. /\ sched'.stat[t] = "READY" /\ t \notin sched'.armed /\ t \notin ToSet(Waiters)'
          /\ Owner' # t
      BY <1>1, <1>6, <1>7, <1>11, <1>15
    <3> QED BY <2>1, <2>3, <3>1, <1>1 DEF Standing
  <2>4. CASE u = n
    <3>1. /\ sched'.stat[n] = "READY" /\ n \notin sched'.armed /\ n \notin ToSet(Waiters)'
          /\ Owner' = n /\ at'[n] = "want"
      BY <2>1, <1>6, <1>7, <1>9, <1>11, <1>15
    <3> QED BY <2>4, <3>1, <1>9 DEF Standing
  <2> QED BY <2>2, <2>3, <2>4
<1>19. Owned'
  <2>1. Once(Waiters') /\ ToSet(Waiters') \subseteq Clients /\ Ordered(Waiters', InitPriority)
    BY <1>3, <1>6, <1>15
  <2>2. 1 \in 1..MaxHold
    BY ClientAssumption
  <2>3. sched'.prio[n] = InitPriority[n] /\ InitPriority[n] <= InitPriority[n]
    BY <1>6, <1>12, <1>13
  <2>4. \A u \in ToSet(Waiters') : sched'.prio[n] <= InitPriority[u]
    BY <2>3, <1>6, <1>15
  <2> QED BY <2>1, <2>2, <2>3, <2>4, <1>6, <1>12, <1>15 DEF Owned
<1>20. Stopped(timers, timers', n, rt_tick)
  BY <1>0, <1>6, Stop DEF Inv, Types, Timed
<1>21. Timed'
  <2>1. TimersFit(timers', rt_tick')
    BY <1>20 DEF Stopped
  <2>2. /\ ToSet(timers'.list) = {u \in Clients : timers'.active[u]}
        /\ timers'.active = [timers.active EXCEPT ![n] = FALSE]
        /\ ToSet(timers.list) = {u \in Clients : timers.active[u]}
        /\ timers.active \in [Clients -> BOOLEAN]
        /\ sched.armed = ToSet(timers.list)
    BY <1>20 DEF Stopped, TimersFit, Inv, Timed
  <2>3. ToSet(timers'.list) = ToSet(timers.list) \ {n}
    BY <2>2
  <2> QED BY <2>1, <2>2, <2>3, <1>11 DEF Timed
<1> QED BY <1>0, <1>11, <1>15, <1>16, <1>17, <1>18, <1>19, <1>20, <1>21 DEF Inv

(* rt_mutex_release: of a mutex taken more than once, with no waiter, or   *)
(* with the first of them as the new owner.                                *)
LEMMA ReleaseInv ==
  ASSUME Inv, NEW t \in Clients, Release(t)
  PROVE  /\ Inv'
         /\ \/ sched' = sched \/ Picked(sched')
            \/ sched'.cur = sched.cur /\ GivesUpLoan(sched.cur)
         /\ \/ Owner' \in {Owner, Nobody}
            \/ Waiters # <<>> /\ Owner' = Head(Waiters)
         /\ \/ timers' = timers
            \/ \E n \in Clients : Stopped(timers, timers', n, rt_tick)
<1> DEFINE next == mutex'[M].owner
<1>1. /\ Free(t)
      /\ rt_mutex_release(t, M)
      /\ at' = [at EXCEPT ![t] = IF next = t THEN "in" ELSE "out"]
      /\ timers' = IF next \in Clients \ {t, Owner} THEN rt_timer_stop(timers, next) ELSE timers
      /\ UNCHANGED <<sem, asleep, late, rt_tick>>
  BY DEF Release, Owner
<1>2. /\ sched.stat[t] = "READY" /\ (at[t] = "in" <=> Owner = t) /\ at[t] \in {"in", "out"}
      /\ t \in Thread /\ t # Nobody /\ InitPriority[t] \in Nat /\ Nobody \notin Clients
  BY <1>1, FreeKnows, Constants
<1>3. /\ Owner = t => /\ mutex[M].value = 0 /\ mutex[M].hold \in 1..MaxHold
                      /\ mutex[M].original = InitPriority[t]
                      /\ t \notin ToSet(Waiters)
      /\ at \in [Clients -> {"out", "in", "want"}]
  BY <1>1, <1>2, FreeKnows DEF Inv, Owned, Types
<1>4. MutexHas(mutex, M, mutex[M].value, mutex[M].hold, Owner, mutex[M].original, Waiters)
      /\ mutex \in [Mutex -> MutexType] /\ M \in Mutex
  BY MutexIs
<1>5. CASE Owner # t /\ UNCHANGED <<mutex, sched>>
  <2>1. next = Owner /\ Owner' = Owner
    BY <1>5 DEF Owner
  <2>2. at' = at /\ timers' = timers
    BY <2>1, <1>1, <1>2, <1>3, <1>5
  <2>3. UNCHANGED vars
    BY <2>2, <1>1, <1>5 DEF vars, kernel
  <2>4. Inv'
    BY <2>3, StutterInv
  <2> QED BY <2>1, <2>2, <2>4, <1>5
<1>6. CASE /\ Owner = t
           /\ mutex[M].hold > 1
           /\ mutex' = [mutex EXCEPT ![M].hold = @ - 1]
           /\ UNCHANGED sched
  <2> DEFINE h == mutex[M].hold - 1
  <2>1. h \in 1..MaxHold /\ h \in Nat
    BY <1>3, <1>6, ClientAssumption
  <2>2. mutex' = [mutex EXCEPT ![M].hold = h]
    BY <1>6
  <2> HIDE DEF h
  <2>3. MutexHas(mutex', M, mutex[M].value, h, Owner, mutex[M].original, Waiters)
    BY <2>1, <2>2, <1>4, FieldSet
  <2>4. MutexHas(mutex', M, 0, h, t, InitPriority[t], Waiters)
    BY <2>3, <1>3, <1>6
  <2>5. next = t
    BY <2>4 DEF MutexHas
  <2>6. /\ at' = [at EXCEPT ![t] = "in"] /\ Owner \in {t, Nobody} /\ Free(t)
        /\ UNCHANGED <<sched, sem, asleep, late, rt_tick, timers>>
    BY <2>5, <1>1, <1>6
  <2>7. Inv'
    BY ONLY Inv, t \in Clients, <2>1, <2>4, <2>6, TakesInv
  <2>8. Owner' = Owner
    BY <2>5, <1>6 DEF Owner
  <2> QED BY <2>6, <2>7, <2>8
<1>7. CASE /\ Owner = t
           /\ mutex[M].hold = 1
           /\ Waiters # <<>>
           /\ mutex' = [mutex EXCEPT ![M].owner = Head(Waiters),
                                     ![M].original = Restore(t, M).prio[Head(Waiters)],
                                     ![M].waiters = Tail(@)]
           /\ sched' = rt_schedule(rt_thread_resume(Restore(t, M), Head(Waiters)))
  <2>1. Head(Waiters) \in ToSet(Waiters) /\ ToSet(Waiters) \subseteq Clients
    <3>1. \A u \in ToSet(Waiters) : InitPriority[u] \in Int
      BY Constants DEF Inv, Owned
    <3>2. HeadTaken(Waiters, InitPriority)
      BY <3>1, <1>7, MutexIs, Headed DEF Inv, Owned
    <3> QED BY <3>2 DEF HeadTaken, Inv, Owned
  <2>2. next = Head(Waiters)
    BY <1>4, <1>7 DEF MutexType
  <2>3. next \in Clients \ {t, Owner}
    BY <2>1, <2>2, <1>3, <1>7
  <2>4. at' = [at EXCEPT ![t] = "out"] /\ timers' = rt_timer_stop(timers, next)
    BY <2>3, <1>1
  <2> HIDE DEF next
  <2>6. timers' = rt_timer_stop(timers, Head(Waiters))
    BY <2>2, <2>4
  <2>5. /\ Inv' /\ Picked(sched') /\ Owner' = Head(Waiters)
        /\ Stopped(timers, timers', Head(Waiters), rt_tick)
    BY <2>4, <2>6, <1>1, <1>7, HandsOverInv
  <2> QED BY <2>2, <2>3, <2>5, <1>7
<1>8. CASE /\ Owner = t
           /\ mutex[M].hold = 1
           /\ Waiters = <<>>
           /\ mutex' = [mutex EXCEPT ![M].value = @ + 1, ![M].hold = 0,
                                     ![M].owner = Nobody, ![M].original = 255]
           /\ sched' = Restore(t, M)
  <2>1. mutex' = [mutex EXCEPT ![M].value = 1, ![M].hold = 0,
                               ![M].owner = Nobody, ![M].original = 255]
    <3>1. mutex[M].value + 1 = 1
      BY <1>3, <1>8
    <3>2. mutex' = [mutex EXCEPT ![M].value = mutex[M].value + 1, ![M].hold = 0,
                                 ![M].owner = Nobody, ![M].original = 255]
      BY <1>8
    <3> QED BY <3>1, <3>2
  <2>2. MutexHas(mutex', M, 1, 0, Nobody, 255, mutex[M].waiters)
    <3> DEFINE v == 1
               h == 0
               o == Nobody
               g == 255
    <3>1. v \in Nat /\ h \in Nat /\ o \in Thread \cup {Nobody} /\ g \in Nat
      OBVIOUS
    <3>2. mutex' = [mutex EXCEPT ![M].value = v, ![M].hold = h, ![M].owner = o, ![M].original = g]
      BY <2>1
    <3> HIDE DEF v, h, o, g
    <3>3. MutexHas(mutex', M, v, h, o, g, mutex[M].waiters)
      BY <3>1, <3>2, <1>4, MutexUpdated
    <3> QED BY <3>3 DEF v, h, o, g
  <2>3. MutexHas(mutex', M, 1, 0, Nobody, 255, Waiters)
    BY <2>2 DEF Waiters
  <2>4. next = Nobody /\ Owner' = Nobody
    BY <2>3 DEF MutexHas, Owner
  <2>5. /\ at' = [at EXCEPT ![t] = "out"]
        /\ UNCHANGED <<sem, asleep, late, rt_tick, timers>>
    BY <2>4, <1>1, <1>2
  <2>6. Inv' /\ (sched' = sched \/ (sched'.cur = sched.cur /\ GivesUpLoan(sched.cur)))
    BY <2>3, <2>5, <1>1, <1>8, FreesInv
  <2> QED BY <2>4, <2>5, <2>6
<1> QED BY <1>1, <1>5, <1>6, <1>7, <1>8 DEF rt_mutex_release, Owner, Waiters

-----------------------------------------------------------------------------
(* A tick                                                                  *)

(* A list without members is empty.                                        *)
LEMMA NoneLeft ==
  ASSUME NEW q \in Seq(Thread), ToSet(q) = {} PROVE q = <<>>
<1>1. Len(q) \in Nat /\ DOMAIN q = 1..Len(q)
  BY LenProperties
<1>2. Len(q) = 0
  <2>1. SUFFICES ASSUME Len(q) # 0 PROVE FALSE
    OBVIOUS
  <2>2. 1 \in DOMAIN q
    BY <2>1, <1>1
  <2>3. q[1] \in ToSet(q)
    BY <2>2 DEF ToSet
  <2> QED BY <2>3
<1> QED BY <1>2, EmptySeq

(* The threads whose timers the next tick serves.                          *)
TimeUpNow == {t \in Clients : DueNow(t, timers, rt_tick)}

(* SysTick_Handler: the slice may end, the timers that are due wake their  *)
(* threads, and those that waited give up the mutex's list.                *)
LEMMA TickInv ==
  ASSUME Inv, NEW sliceOver \in BOOLEAN, Tick(sliceOver)
  PROVE  /\ Inv'
         /\ sched' = sched \/ Picked(sched')
         /\ Owner' = Owner
         /\ rt_tick' = (rt_tick + 1) % TickMod
         /\ late' = late \cup TimeUpNow
         /\ \A t \in Clients : timers'.active[t] <=> timers.active[t] /\ t \notin TimeUpNow
         /\ \A t \in Clients : timers'.active[t] =>
              DueIn(timers', rt_tick')[t] = DueIn(timers, rt_tick)[t] - 1
<1> DEFINE now == (rt_tick + 1) % TickMod
           e == Expired(timers, now)
           D == TimeUpNow
           sliced == IF sliceOver THEN rt_thread_yield(sched) ELSE sched
           v == Served(sliced, e)
<1>1. /\ rt_tick' = now
      /\ timers' = rt_timer_check(timers, now)
      /\ sched' = v.sched
      /\ mutex' = [mutex EXCEPT ![M].waiters = v.waiters]
      /\ late' = late \cup ToSet(e)
      /\ UNCHANGED <<sem, at, asleep>>
  BY DEF Tick
<1>2. /\ Fit(sched) /\ sched.stat[sched.cur] = "READY" /\ sched.nest \in {0, 1}
      /\ Waiters # <<>> => Picked(sched)
      /\ rt_tick \in TickRange /\ TimersFit(timers, rt_tick) /\ sched.armed = ToSet(timers.list)
      /\ Waiters \in Seq(Thread) /\ Once(Waiters) /\ Ordered(Waiters, InitPriority)
      /\ ToSet(Waiters) \subseteq Clients
  BY MutexIs DEF Inv, Scheduled, Types, Timed, Owned
<1>3. Checked(timers, rt_tick, now, e, timers')
  BY <1>1, <1>2, Check
<1>4. /\ now \in TickRange /\ e \in Seq(Thread) /\ Once(e) /\ ToSet(e) = D
      /\ TimersFit(timers', now)
      /\ \A t \in Clients : timers'.active[t] <=> timers.active[t] /\ t \notin D
      /\ \A t \in Clients : timers'.active[t] => DueIn(timers', now)[t] = DueIn(timers, rt_tick)[t] - 1
  BY <1>3 DEF Checked, TimeUpNow
<1>5. /\ Fit(sliced) /\ sliced.stat[sliced.cur] = "READY"
      /\ sliced.stat = sched.stat /\ sliced.prio = sched.prio /\ sliced.armed = sched.armed
      /\ sliced.nest = sched.nest /\ (sliced = sched \/ Picked(sliced))
  <2> DEFINE y == rt_thread_yield(sched)
  <2>1. y = sched \/ Dispatched(sched, y)
    BY <1>2, Yielded
  <2>2. sliced = sched \/ sliced = y
    OBVIOUS
  <2> HIDE DEF y, sliced
  <2>3. CASE sliced = sched
    BY <2>3, <1>2
  <2>4. CASE Dispatched(sched, sliced)
    BY <2>4 DEF Dispatched, Picked
  <2> QED BY <2>1, <2>2, <2>3, <2>4
<1> HIDE DEF e, D, now, sliced
<1>6. D \subseteq sched.armed /\ D \subseteq Clients
  <2>1. ToSet(timers.list) = {t \in Clients : timers.active[t]}
    BY <1>2 DEF TimersFit
  <2> QED BY <2>1, <1>2 DEF D, TimeUpNow, DueNow
<1>7. \A t \in D : Standing(t) /\ sched.stat[t] = "SUSPEND" /\ t \notin ToSet(Waiters) \ D
  BY <1>6 DEF Inv, Standing
<1>8. Reached(sliced, Waiters, D, v)
  <2>1. \A t \in ToSet(e) : sliced.stat[t] # "READY"
    BY <1>4, <1>5, <1>7
  <2>2. mutex[M].waiters \in Seq(Thread) /\ Once(mutex[M].waiters)
    BY <1>2 DEF Waiters
  <2>3. Reached(sliced, mutex[M].waiters, ToSet(e), Served(sliced, e))
    BY <2>1, <2>2, <1>4, <1>5, ServedReaches
  <2> QED BY <2>3, <1>4 DEF Waiters, v
<1> HIDE DEF v
<1>9. /\ Fit(sched') /\ sched'.stat[sched'.cur] = "READY"
      /\ sched'.stat = [t \in Thread |-> IF t \in D THEN "READY" ELSE sched.stat[t]]
      /\ sched'.prio = sched.prio /\ sched'.nest = sched.nest
      /\ sched'.armed = sched.armed \ D
      /\ sched' = sched \/ Picked(sched')
      /\ v.waiters \in Seq(Thread) /\ Once(v.waiters) /\ ToSet(v.waiters) = ToSet(Waiters) \ D
  BY <1>1, <1>5, <1>8 DEF Reached
<1>10. Ordered(v.waiters, InitPriority)
  BY <1>2, <1>8 DEF Reached
<1>11. MutexHas(mutex', M, mutex[M].value, mutex[M].hold, Owner, mutex[M].original, v.waiters)
  BY <1>1, <1>9, MutexIs, FieldSet
<1>12. /\ mutex' \in [Mutex -> MutexType] /\ Waiters' = v.waiters /\ Owner' = Owner
       /\ ToSet(Waiters)' = ToSet(Waiters) \ D
       /\ mutex'[M].value = mutex[M].value
       /\ mutex'[M].hold = mutex[M].hold /\ mutex'[M].original = mutex[M].original
  <2>1. /\ mutex' \in [Mutex -> MutexType] /\ Waiters' = v.waiters /\ Owner' = Owner
        /\ ToSet(Waiters)' = ToSet(v.waiters)
        /\ mutex'[M].value = mutex[M].value
        /\ mutex'[M].hold = mutex[M].hold /\ mutex'[M].original = mutex[M].original
    BY ONLY <1>11, MutexBecomes
  <2> QED BY <2>1, <1>9
<1>13. Types'
  BY <1>1, <1>4, <1>6, <1>12 DEF Inv, Types
<1>14. Scheduled'
  <2>1. Waiters' # <<>> => Waiters # <<>>
    <3>1. SUFFICES ASSUME Waiters = <<>> PROVE Waiters' = <<>>
      OBVIOUS
    <3>2. ToSet(Waiters) = {}
      BY <3>1 DEF ToSet
    <3>3. ToSet(v.waiters) = {}
      BY <3>2, <1>9
    <3> QED BY <3>3, <1>9, <1>12, NoneLeft
  <2> QED BY <2>1, <1>2, <1>9 DEF Scheduled
<1>15. ASSUME NEW u \in Clients PROVE Standing(u)'
  <2>1. u \in Thread
    BY Constants
  <2>2. CASE u \notin D
    <3>1. sched'.stat[u] = sched.stat[u] /\ (u \in sched'.armed <=> u \in sched.armed)
          /\ (u \in late' <=> u \in late) /\ (u \in ToSet(Waiters)' <=> u \in ToSet(Waiters))
      BY <2>1, <2>2, <1>1, <1>4, <1>9, <1>12
    <3> QED BY <3>1, <1>1, <1>12, Unmoved
  <2>3. CASE u \in D
    <3>1. sched'.stat[u] = "READY" /\ u \notin sched'.armed /\ u \in late'
          /\ u \notin ToSet(Waiters)' /\ Owner' = Owner /\ at'[u] = at[u]
          /\ (u \in asleep' <=> u \in asleep)
      BY <2>1, <2>3, <1>1, <1>4, <1>9, <1>12
    <3>2. Standing(u) /\ sched.stat[u] = "SUSPEND"
      BY <2>3, <1>7
    <3> QED BY <3>1, <3>2 DEF Standing
  <2> QED BY <2>2, <2>3
<1>16. Owned'
  <2>1. Once(Waiters') /\ ToSet(Waiters') \subseteq ToSet(Waiters) /\ Ordered(Waiters', InitPriority)
    BY <1>9, <1>10, <1>12
  <2>2. Owner = Nobody => Waiters' = <<>>
    <3>1. SUFFICES ASSUME Owner = Nobody PROVE Waiters' = <<>>
      OBVIOUS
    <3>2. Waiters = <<>>
      BY <3>1 DEF Inv, Owned
    <3>3. ToSet(Waiters) = {}
      BY <3>2 DEF ToSet
    <3>4. ToSet(v.waiters) = {}
      BY <3>3, <1>9
    <3> QED BY <3>4, <1>9, <1>12, NoneLeft
  <2> QED BY <2>1, <2>2, <1>2, <1>9, <1>12 DEF Inv, Owned
<1>17. Timed'
  <2>1. /\ ToSet(timers'.list) = {t \in Clients : timers'.active[t]}
        /\ ToSet(timers.list) = {t \in Clients : timers.active[t]}
    BY <1>2, <1>4 DEF TimersFit
  <2>2. ToSet(timers'.list) = ToSet(timers.list) \ D
    BY <2>1, <1>4
  <2> QED BY <2>2, <1>1, <1>2, <1>4, <1>9 DEF Timed
<1>18. Inv'
  BY <1>13, <1>14, <1>15, <1>16, <1>17 DEF Inv
<1> QED BY <1>1, <1>4, <1>9, <1>12, <1>18 DEF now, D

-----------------------------------------------------------------------------
(* Every step                                                              *)

(* The scheduler was not called, or picked the most urgent thread, but for *)
(* the one exception.                                                      *)
Rescheduled ==
  \/ sched' = sched
  \/ Picked(sched')
  \/ sched'.cur = sched.cur /\ GivesUpLoan(sched.cur)

(* The mutex stays where it is, is given up, is taken by somebody while    *)
(* nobody waits, or goes to the first of the waiters.                      *)
HandedOn ==
  \/ Owner' \in {Owner, Nobody}
  \/ Waiters = <<>>
  \/ Owner' = Head(Waiters)

(* Every step keeps the invariant, schedules and hands on.                 *)
LEMMA InvStep == ASSUME Inv, [Next]_vars PROVE Inv' /\ Rescheduled /\ HandedOn
<1>1. ASSUME NEW t \in Clients, NEW time \in Ticks \cup {RT_WAITING_FOREVER}, Take(t, time)
      PROVE  Inv' /\ Rescheduled /\ HandedOn
  BY <1>1, TakeInv DEF Rescheduled, HandedOn
<1>2. ASSUME NEW t \in Clients, RunsOn(t) PROVE Inv' /\ Rescheduled /\ HandedOn
  BY <1>2, RunsOnInv DEF Rescheduled, HandedOn, RunsOn, kernel, Owner
<1>3. ASSUME NEW t \in Clients, Release(t) PROVE Inv' /\ Rescheduled /\ HandedOn
  BY <1>3, ReleaseInv DEF Rescheduled, HandedOn
<1>4. ASSUME NEW t \in Clients, NEW time \in Ticks, Sleep(t, time)
      PROVE  Inv' /\ Rescheduled /\ HandedOn
  <2>1. Owner' = Owner
    BY <1>4 DEF Sleep, Owner
  <2> QED BY <2>1, <1>4, SleepInv DEF Rescheduled, HandedOn
<1>5. ASSUME NEW t \in Clients, Awakes(t) PROVE Inv' /\ Rescheduled /\ HandedOn
  BY <1>5, AwakesInv DEF Rescheduled, HandedOn, Awakes, kernel, Owner
<1>6. ASSUME NEW t \in Clients, BusyWait(t) PROVE Inv' /\ Rescheduled /\ HandedOn
  <2>1. Inv' /\ sched'.nest = 1
    BY <1>6, BusyWaitInv
  <2>2. Picked(sched')
    BY <2>1 DEF Inv, Scheduled, Picked
  <2>3. Owner' = Owner
    BY <1>6 DEF BusyWait, Owner
  <2> QED BY <2>1, <2>2, <2>3 DEF Rescheduled, HandedOn
<1>7. ASSUME BusyWaitEnds PROVE Inv' /\ Rescheduled /\ HandedOn
  BY <1>7, BusyWaitEndsInv DEF Rescheduled, HandedOn, BusyWaitEnds, Owner
<1>8. ASSUME NEW sliceOver \in BOOLEAN, Tick(sliceOver) PROVE Inv' /\ Rescheduled /\ HandedOn
  BY <1>8, TickInv DEF Rescheduled, HandedOn
<1>9. CASE UNCHANGED vars
  <2>1. Inv'
    BY <1>9, StutterInv
  <2> QED BY <2>1, <1>9 DEF vars, kernel, Rescheduled, HandedOn, Owner
<1> QED BY <1>1, <1>2, <1>3, <1>4, <1>5, <1>6, <1>7, <1>8, <1>9 DEF Next

(* The invariant holds in every reachable state.                           *)
LEMMA InvHolds == Spec => []Inv
<1>1. Init => Inv
  BY InitInv
<1>2. Inv /\ [Next]_vars => Inv'
  BY InvStep
<1> QED BY <1>1, <1>2, PTL DEF Spec

-----------------------------------------------------------------------------
(* What the invariant says                                                 *)

(* Every thread is on just the list its status asks for.                   *)
LEMMA InvListed == Inv => OneList
<1> SUFFICES ASSUME Inv PROVE OneList
  OBVIOUS
<1>1. /\ Fit(sched) /\ sched.stat \in [Thread -> Stats] /\ sched.prio \in [Thread -> Priorities]
  BY DEF Inv, Scheduled, Fit
<1>2. ASSUME NEW t \in Thread
      PROVE  ReadyLists(t) = IF sched.stat[t] = "READY" THEN {sched.prio[t]} ELSE {}
  BY <1>1 DEF ReadyLists, Fit
<1>3. ASSUME NEW t \in Thread
      PROVE  WaitLists(t) = IF t \in ToSet(Waiters) THEN {M} ELSE {}
  <2>1. {o \in Sem : t \in ToSet(sem[o].waiters)} = {}
    <3>1. ASSUME NEW o \in Sem PROVE ToSet(sem[o].waiters) = {}
      <4>1. sem[o].waiters = <<>>
        BY DEF Inv, Types
      <4> QED BY <4>1 DEF ToSet
    <3> QED BY <3>1
  <2>2. {m \in Mutex : t \in ToSet(mutex[m].waiters)} = IF t \in ToSet(Waiters) THEN {M} ELSE {}
    BY Constants DEF Waiters
  <2> QED BY <2>1, <2>2 DEF WaitLists
<1>4. Cardinality({M}) = 1
  BY FS_Singleton
<1>5. ASSUME NEW t \in Thread
      PROVE  CASE sched.stat[t] = "SUSPEND" ->
                    \/ Cardinality(WaitLists(t)) = 1
                    \/ WaitLists(t) = {} /\ t \in sched.armed
               [] OTHER -> WaitLists(t) = {} /\ t \notin sched.armed
  <2>1. CASE t \in Clients
    <3>1. Standing(t)
      BY <2>1 DEF Inv
    <3>2. CASE sched.stat[t] = "SUSPEND"
      <4>1. t \in ToSet(Waiters) \/ t \in sched.armed
        BY <3>1, <3>2 DEF Standing
      <4>2. CASE t \in ToSet(Waiters)
        BY <4>2, <3>2, <1>3, <1>4
      <4>3. CASE t \notin ToSet(Waiters)
        BY <4>1, <4>3, <3>2, <1>3
      <4> QED BY <4>2, <4>3
    <3>3. CASE sched.stat[t] # "SUSPEND"
      <4>1. t \notin ToSet(Waiters) /\ t \notin sched.armed
        BY <3>1, <3>3 DEF Standing
      <4> QED BY <4>1, <3>3, <1>3
    <3> QED BY <3>2, <3>3
  <2>2. CASE t \notin Clients
    <3>1. t = Idle /\ sched.stat[t] = "READY"
      BY <2>2, <1>1 DEF Clients, Fit
    <3>2. t \notin ToSet(Waiters) /\ t \notin sched.armed
      BY <2>2 DEF Inv, Owned, Timed, TimersFit
    <3> QED BY <3>1, <3>2, <1>3
  <2> QED BY <2>1, <2>2
<1> QED BY <1>2, <1>5 DEF OneList

(* Every thread is on just one list: that of the ready threads of its      *)
(* priority, or that of the waiters of the mutex, or none while it sleeps  *)
(* and its timer runs; whatever was taken, lent, handed over or timed out. *)
THEOREM ListedOnce == Spec => []OneList
BY InvHolds, InvListed, PTL

(* Waiters are only ever left with an owner.                               *)
LEMMA InvWakes == Inv => NoLostWakeup
<1> SUFFICES ASSUME Inv PROVE NoLostWakeup
  OBVIOUS
<1>1. \A o \in Sem : ~(sem[o].value > 0)
  BY DEF Inv, Types
<1>2. /\ Mutex = {M}
      /\ Owner = Nobody => mutex[M].value = 1 /\ Waiters = <<>>
      /\ Owner # Nobody => mutex[M].value = 0
  BY Constants DEF Inv, Owned
<1>3. mutex[M].value > 0 => Waiters = <<>>
  BY <1>2
<1>4. (Owner = Nobody) <=> (mutex[M].value = 1)
  BY <1>2
<1> QED BY <1>1, <1>2, <1>3, <1>4 DEF NoLostWakeup, Waiters, Owner

(* Nobody waits for a mutex that is free.                                  *)
THEOREM WakeupsKept == Spec => []NoLostWakeup
BY InvHolds, InvWakes, PTL

(* Of any number of threads at most one believes that it owns the mutex,   *)
(* also between the hand-over inside rt_mutex_release and the first step   *)
(* of the new owner; and who runs again after waiting owns it unless its   *)
(* time was up.                                                            *)
THEOREM Exclusion == Spec => []MutualExclusion
<1>1. Inv => MutualExclusion
  BY DEF Inv, Standing, MutualExclusion, Owner
<1> QED BY <1>1, InvHolds, PTL

(* The owner is as urgent as its waiters, and the most urgent thread runs. *)
LEMMA InvUrgent == Inv => NoPriorityInversion
<1> SUFFICES ASSUME Inv, NEW w \in ToSet(Waiters), sched.stat[Owner] = "READY", sched.nest = 0
             PROVE  sched.prio[sched.cur] <= sched.prio[w]
  BY DEF NoPriorityInversion, Waiters, Owner
<1>1. Waiters # <<>>
  BY DEF ToSet
<1>2. Picked(sched) /\ sched.prio \in [Thread -> Priorities] /\ sched.cur \in Thread
  BY <1>1 DEF Inv, Scheduled, Fit
<1>3. Owner \in Clients /\ Owner \in Thread /\ w \in Clients /\ w \in Thread
  BY <1>1, Constants DEF Inv, Owned
<1>4. sched.prio[sched.cur] <= sched.prio[Owner]
  BY <1>2, <1>3 DEF Picked
<1>5. w # Owner
  <2>1. Standing(w)
    BY <1>3 DEF Inv
  <2> QED BY <2>1 DEF Standing
<1>6. sched.prio[Owner] <= InitPriority[w] /\ sched.prio[w] = InitPriority[w]
  BY <1>1, <1>3, <1>5 DEF Inv, Owned
<1>7. sched.prio[sched.cur] \in Int /\ sched.prio[Owner] \in Int /\ InitPriority[w] \in Int
  <2>1. sched.prio[sched.cur] \in Priorities /\ sched.prio[Owner] \in Priorities
    BY <1>2, <1>3
  <2>2. InitPriority[w] \in Int
    BY <1>3, Constants
  <2>3. \A p \in Priorities : p \in Int
    BY Constants
  <2> QED BY <2>1, <2>2, <2>3
<1> QED BY <1>4, <1>6, <1>7

(* While a thread waits and the owner could run, nothing less urgent than  *)
(* the waiter runs, however many wait and whatever they asked for.         *)
THEOREM NoInversion == Spec => []NoPriorityInversion
BY InvHolds, InvUrgent, PTL

(* A thread without the mutex has its own priority, the owner none that is *)
(* less urgent.                                                            *)
THEOREM LoansReturned == Spec => []PriorityGivenBack
<1>1. Inv => PriorityGivenBack
  BY Constants DEF Inv, Owned, PriorityGivenBack, Owner
<1> QED BY <1>1, InvHolds, PTL

(* The ticks that are left are the way to the timer's tick, and one at     *)
(* least.                                                                  *)
LEMMA LeftIs ==
  ASSUME NEW tl, NEW now \in TickRange, TimersFit(tl, now), NEW t \in Clients
  PROVE  TicksLeft(tl, t, now) = IF ~tl.active[t] THEN 0
                                 ELSE IF DueIn(tl, now)[t] = 0 THEN 1 ELSE DueIn(tl, now)[t]
<1>1. tl.timeout[t] \in TickRange
  BY DEF TimersFit
<1>2. DueIn(tl, now)[t] = Minus(tl.timeout[t], now)
  BY DEF DueIn
<1>3. Minus(tl.timeout[t], now) = IF now <= tl.timeout[t] THEN tl.timeout[t] - now
                                  ELSE tl.timeout[t] - now + TickMod
  BY <1>1, MinusIs
<1>4. Minus(tl.timeout[t], now) = 0 <=> tl.timeout[t] = now
  BY <1>1, <1>3, HalfIs DEF TickRange
<1> QED BY <1>2, <1>4 DEF TicksLeft

(* The list of timers is sound since the ways to its ticks only grow.      *)
LEMMA InvTimers == Inv => TimersSound
<1> SUFFICES ASSUME Inv PROVE TimersSound
  OBVIOUS
<1> DEFINE list == timers.list
           D == DueIn(timers, rt_tick)
<1>1. TimersFit(timers, rt_tick) /\ rt_tick \in TickRange /\ sched.armed = ToSet(list)
  BY DEF Inv, Timed, Types
<1>2. /\ Once(list) /\ Ordered(list, D)
      /\ ToSet(list) = {t \in Clients : timers.active[t]}
      /\ timers.active \in [Clients -> BOOLEAN] /\ timers.timeout \in [Clients -> TickRange]
  BY <1>1 DEF TimersFit
<1>3. \A t \in Clients : D[t] \in Nat
  <2>1. ASSUME NEW t \in Clients PROVE Minus(timers.timeout[t], rt_tick) \in TickRange
    BY <1>1, <1>2, MinusIs
  <2> QED BY <2>1 DEF DueIn, TickRange
<1> HIDE DEF D
<1>4. ASSUME NEW i \in DOMAIN list, NEW j \in DOMAIN list, i < j
      PROVE  TicksLeft(timers, list[i], rt_tick) <= TicksLeft(timers, list[j], rt_tick)
  <2>1. list[i] \in ToSet(list) /\ list[j] \in ToSet(list)
    BY DEF ToSet
  <2>2. /\ list[i] \in Clients /\ timers.active[list[i]]
        /\ list[j] \in Clients /\ timers.active[list[j]]
    BY <2>1, <1>2
  <2>3. /\ TicksLeft(timers, list[i], rt_tick) = IF D[list[i]] = 0 THEN 1 ELSE D[list[i]]
        /\ TicksLeft(timers, list[j], rt_tick) = IF D[list[j]] = 0 THEN 1 ELSE D[list[j]]
    BY <2>2, <1>1, LeftIs DEF D
  <2>4. D[list[i]] <= D[list[j]] /\ D[list[i]] \in Nat /\ D[list[j]] \in Nat
    BY <2>2, <1>2, <1>3, <1>4 DEF Ordered
  <2> QED BY <2>3, <2>4
<1>5. ListSound(timers, rt_tick)
  BY <1>2, <1>4 DEF ListSound, Once, IsInjective
<1> QED BY <1>1, <1>5 DEF TimersSound

(* The list of timers is whole and in order at every tick, whatever the    *)
(* width of the tick counter and whenever it starts again from 0, and has  *)
(* just the timers of the threads they may wake.                           *)
THEOREM TimersWhole == Spec => []TimersSound
BY InvHolds, InvTimers, PTL

(* Picked and Urgent say the same of the scheduler.                        *)
LEMMA UrgentIs == ASSUME Inv PROVE Picked(sched) <=> Urgent
BY DEF Inv, Scheduled, Picked, Urgent

(* Whoever starts to run is the most urgent ready thread and remains it,   *)
(* but for an owner that gives up a mutex nobody waits for together with a *)
(* priority it was lent.                                                   *)
THEOREM NoneOverlooked == Spec => MostUrgentRuns
<1>1. ASSUME Inv, [Next]_vars
      PROVE  /\ sched'.cur # sched.cur => Urgent'
             /\ Urgent => Urgent' \/ GivesUpLoan(sched.cur)
  <2>1. Inv' /\ Rescheduled
    BY <1>1, InvStep
  <2>2. Picked(sched') => Urgent'
    BY DEF Picked, Urgent
  <2>3. sched' = sched => (Urgent => Urgent')
    BY DEF Urgent
  <2> QED BY <2>1, <2>2, <2>3 DEF Rescheduled
<1> QED BY <1>1, InvHolds, PTL DEF Spec, MostUrgentRuns

(* While a thread waits the mutex goes to nobody who did not wait, and to  *)
(* none of the waiters less urgent than it.                                *)
THEOREM NobodyOvertakes == Spec => NoOvertaking
<1>1. ASSUME Inv, [Next]_vars, NEW t \in Clients, NEW u \in Clients, t # u,
             t \in ToSet(Waiters), Owner # u, Owner' = u
      PROVE  u \in ToSet(Waiters) /\ sched.prio[u] <= sched.prio[t]
  <2>1. Waiters # <<>>
    BY <1>1 DEF ToSet
  <2>2. Owner' = Head(Waiters)
    BY <1>1, <2>1, InvStep, Constants DEF HandedOn
  <2>3. /\ Waiters \in Seq(Thread) /\ Once(Waiters) /\ Ordered(Waiters, InitPriority)
        /\ \A x \in ToSet(Waiters) : InitPriority[x] \in Int /\ x \in Thread
    BY <1>1, MutexIs, Constants DEF Inv, Owned
  <2>4. HeadTaken(Waiters, InitPriority)
    BY <2>1, <2>3, Headed
  <2>5. u \in ToSet(Waiters) /\ InitPriority[u] <= InitPriority[t]
    BY <2>2, <2>4, <1>1 DEF HeadTaken
  <2>6. t # Owner
    <3>1. Standing(t)
      BY <1>1 DEF Inv
    <3> QED BY <3>1, <1>1 DEF Standing
  <2>7. sched.prio[u] = InitPriority[u] /\ sched.prio[t] = InitPriority[t]
    BY <2>3, <2>5, <2>6, <1>1 DEF Inv, Owned
  <2> QED BY <2>5, <2>7
<1>2. Inv /\ [Next]_vars =>
        \A t, u \in Clients :
          /\ t # u
          /\ t \in ToSet(mutex[M].waiters)
          /\ mutex[M].owner # u /\ mutex'[M].owner = u
          => /\ u \in ToSet(mutex[M].waiters)
             /\ sched.prio[u] <= sched.prio[t]
  BY <1>1 DEF Waiters, Owner
<1> QED BY <1>2, InvHolds, PTL DEF Spec, NoOvertaking

-----------------------------------------------------------------------------
(* Alarms                                                                  *)

(* The state that the refinement gives to Alarms.                          *)
AlarmLeft(t) == TicksLeft(timers, t, rt_tick)
Left == [t \in Clients |-> AlarmLeft(t)]
Rang == {t \in Clients : /\ t \in asleep \/ at[t] = "want"
                         /\ sched.stat[t] = "READY"
                         /\ t \in late}

(* A step of Alarms, or none.                                              *)
AlarmStep == [A!Next]_A!vars

(* Whose time was up and who did not run since then.                       *)
LEMMA RangIs == ASSUME Inv, Inv' PROVE Rang = late /\ Rang' = late'
<1>1. ASSUME NEW t \in late PROVE t \in Rang
  <2>1. Standing(t) /\ t \in Clients
    BY DEF Inv, Types
  <2> QED BY <2>1 DEF Standing, Rang
<1>2. ASSUME NEW t \in late' PROVE t \in Rang'
  <2>1. Standing(t)' /\ t \in Clients
    BY DEF Inv, Types
  <2> QED BY <2>1 DEF Standing, Rang
<1> QED BY <1>1, <1>2 DEF Rang

(* The ticks left are told by the way to the timer's tick.                 *)
Due(t) == DueIn(timers, rt_tick)[t]

(* The ticks left before and after a step, by the timers.                  *)
LEMMA AlarmLeftIs ==
  ASSUME Inv, Inv', NEW t \in Clients
  PROVE  /\ timers.active[t] \in BOOLEAN /\ timers'.active[t] \in BOOLEAN
         /\ Due(t) \in Nat /\ Due(t)' \in Nat
         /\ AlarmLeft(t) = IF ~timers.active[t] THEN 0 ELSE IF Due(t) = 0 THEN 1 ELSE Due(t)
         /\ AlarmLeft(t)' = IF ~timers'.active[t] THEN 0 ELSE IF Due(t)' = 0 THEN 1 ELSE Due(t)'
<1>1. rt_tick \in TickRange /\ TimersFit(timers, rt_tick)
  BY DEF Inv, Types, Timed
<1>2. rt_tick' \in TickRange /\ TimersFit(timers', rt_tick')
  BY DEF Inv, Types, Timed
<1>3. timers.timeout[t] \in TickRange /\ timers'.timeout[t] \in TickRange
  BY <1>1, <1>2 DEF TimersFit
<1>4. Due(t) \in Nat
  <2>1. Minus(timers.timeout[t], rt_tick) \in TickRange
    BY <1>1, <1>3, MinusIs
  <2> QED BY <2>1 DEF Due, DueIn, TickRange
<1>5. Due(t)' \in Nat
  <2>1. Minus(timers'.timeout[t], rt_tick') \in TickRange
    BY <1>2, <1>3, MinusIs
  <2> QED BY <2>1 DEF Due, DueIn, TickRange
<1>6. AlarmLeft(t) = IF ~timers.active[t] THEN 0 ELSE IF Due(t) = 0 THEN 1 ELSE Due(t)
  BY <1>1, LeftIs DEF AlarmLeft, Due
<1>7. TicksLeft(timers', t, rt_tick') =
        IF ~timers'.active[t] THEN 0
        ELSE IF DueIn(timers', rt_tick')[t] = 0 THEN 1 ELSE DueIn(timers', rt_tick')[t]
  BY <1>2, LeftIs
<1>8. AlarmLeft(t)' = TicksLeft(timers', t, rt_tick') /\ Due(t)' = DueIn(timers', rt_tick')[t]
  BY DEF AlarmLeft, Due, DueIn, TicksLeft
<1>9. timers.active[t] \in BOOLEAN /\ timers'.active[t] \in BOOLEAN
  BY <1>1, <1>2 DEF TimersFit
<1> QED BY <1>4, <1>5, <1>6, <1>7, <1>8, <1>9

(* A step that sets, stops and serves no timer is none of Alarms.          *)
LEMMA SilentStep ==
  ASSUME Inv, Inv', \A t \in Clients : AlarmLeft(t)' = AlarmLeft(t), late' = late
  PROVE  AlarmStep
<1>1. Left' = Left
  BY DEF Left
<1>2. Rang' = Rang
  BY RangIs
<1> QED BY <1>1, <1>2 DEF AlarmStep, A!vars, Left, Rang, AlarmLeft

(* So is one that leaves the timers and the late threads alone.            *)
LEMMA SameAlarms ==
  ASSUME Inv, Inv', UNCHANGED <<timers, rt_tick, late>>
  PROVE  AlarmStep
<1>1. \A t \in Clients : AlarmLeft(t)' = AlarmLeft(t)
  BY DEF AlarmLeft, TicksLeft
<1> QED BY <1>1, SilentStep

(* Who sleeps or waits for some time sets its alarm.                       *)
LEMMA SetStep ==
  ASSUME Inv, Inv', NEW t \in Clients, t \notin late, t \notin sched.armed,
         NEW time \in 0..(Half - 1), Started(timers, timers', t, rt_tick, time),
         UNCHANGED <<rt_tick, late>>
  PROVE  AlarmStep
<1>1. /\ timers'.active = [timers.active EXCEPT ![t] = TRUE]
      /\ \A u \in Clients \ {t} : timers'.timeout[u] = timers.timeout[u]
      /\ DueIn(timers', rt_tick)[t] = time
      /\ timers.active \in [Clients -> BOOLEAN]
  BY DEF Started, Inv, Timed, TimersFit
<1>2. ~timers.active[t]
  BY DEF Inv, Timed, TimersFit
<1>3. AlarmLeft(t) = 0
  BY <1>2 DEF AlarmLeft, TicksLeft
<1>4. Due(t)' = time
  BY <1>1 DEF Due, DueIn
<1>5. AlarmLeft(t)' = IF time = 0 THEN 1 ELSE time
  BY <1>1, <1>4, AlarmLeftIs
<1>6. \A u \in Clients : u # t => AlarmLeft(u)' = AlarmLeft(u)
  BY <1>1 DEF AlarmLeft, TicksLeft
<1>7. Left' = [Left EXCEPT ![t] = IF time = 0 THEN 1 ELSE time]
  BY <1>5, <1>6 DEF Left
<1>8. Rang' = Rang /\ t \notin Rang /\ Left[t] = 0
  BY <1>3, RangIs DEF Left
<1>9. A!Set(t, time)
  BY <1>7, <1>8 DEF A!Set, Left, Rang, AlarmLeft
<1> QED BY <1>9 DEF AlarmStep, A!Next

(* What was waited for came first.                                         *)
LEMMA CancelStep ==
  ASSUME Inv, Inv', NEW t \in Clients, Stopped(timers, timers', t, rt_tick),
         UNCHANGED <<rt_tick, late>>
  PROVE  AlarmStep
<1>1. /\ timers'.active = [timers.active EXCEPT ![t] = FALSE]
      /\ \A u \in Clients \ {t} : timers'.timeout[u] = timers.timeout[u]
      /\ timers.active \in [Clients -> BOOLEAN]
  BY DEF Stopped, Inv, Timed, TimersFit
<1>2. AlarmLeft(t)' = 0
  BY <1>1 DEF AlarmLeft, TicksLeft
<1>3. \A u \in Clients : u # t => AlarmLeft(u)' = AlarmLeft(u)
  BY <1>1 DEF AlarmLeft, TicksLeft
<1>4. CASE timers.active[t]
  <2>1. AlarmLeft(t) > 0
    BY <1>4, AlarmLeftIs
  <2>2. Left' = [Left EXCEPT ![t] = 0] /\ Left[t] > 0
    BY <2>1, <1>2, <1>3 DEF Left
  <2>3. Rang' = Rang
    BY RangIs
  <2>4. A!Cancel(t)
    BY <2>2, <2>3 DEF A!Cancel, Left, Rang, AlarmLeft
  <2> QED BY <2>4 DEF AlarmStep, A!Next
<1>5. CASE ~timers.active[t]
  <2>1. AlarmLeft(t) = 0
    BY <1>5 DEF AlarmLeft, TicksLeft
  <2> QED BY <2>1, <1>2, <1>3, SilentStep
<1> QED BY <1>4, <1>5

(* Who was woken by its alarm runs.                                        *)
LEMMA GetUpStep ==
  ASSUME Inv, Inv', NEW t \in Clients, late' = late \ {t}, UNCHANGED <<timers, rt_tick>>
  PROVE  AlarmStep
<1>1. \A u \in Clients : AlarmLeft(u)' = AlarmLeft(u)
  BY DEF AlarmLeft, TicksLeft
<1>2. CASE t \in late
  <2>1. Left' = Left
    BY <1>1 DEF Left
  <2>2. t \in Rang /\ Rang' = Rang \ {t}
    BY <1>2, RangIs
  <2>3. A!GetUp(t)
    BY <2>1, <2>2 DEF A!GetUp, Left, Rang, AlarmLeft
  <2> QED BY <2>3 DEF AlarmStep, A!Next
<1>3. CASE t \notin late
  BY <1>1, <1>3, SilentStep
<1> QED BY <1>2, <1>3

(* At a tick every alarm comes one tick closer, and rings after its last.  *)
LEMMA AlarmTick ==
  ASSUME Inv, Inv', late' = late \cup TimeUpNow,
         \A t \in Clients : timers'.active[t] <=> timers.active[t] /\ t \notin TimeUpNow,
         \A t \in Clients : timers'.active[t] =>
           DueIn(timers', rt_tick')[t] = DueIn(timers, rt_tick)[t] - 1
  PROVE  AlarmStep
<1>1. ASSUME NEW t \in Clients
      PROVE  /\ AlarmLeft(t)' = IF AlarmLeft(t) > 0 THEN AlarmLeft(t) - 1 ELSE 0
             /\ t \in TimeUpNow <=> AlarmLeft(t) = 1
  <2>1. /\ Due(t) \in Nat /\ Due(t)' \in Nat
        /\ AlarmLeft(t) = IF ~timers.active[t] THEN 0 ELSE IF Due(t) = 0 THEN 1 ELSE Due(t)
        /\ AlarmLeft(t)' = IF ~timers'.active[t] THEN 0 ELSE IF Due(t)' = 0 THEN 1 ELSE Due(t)'
    BY AlarmLeftIs
  <2>2. t \in TimeUpNow <=> timers.active[t] /\ Due(t) <= 1
    BY DEF TimeUpNow, DueNow, Due
  <2>3. Due(t)' = DueIn(timers', rt_tick')[t]
    BY DEF Due, DueIn
  <2>4. timers'.active[t] => Due(t)' = Due(t) - 1
    BY <2>3 DEF Due
  <2>5. CASE ~timers.active[t]
    BY <2>1, <2>2, <2>5
  <2>6. CASE timers.active[t] /\ Due(t) <= 1
    <3>1. AlarmLeft(t) = 1
      BY <2>1, <2>6
    <3> QED BY <2>1, <2>2, <2>6, <3>1
  <2>7. CASE timers.active[t] /\ ~(Due(t) <= 1)
    <3>1. timers'.active[t] /\ Due(t)' = Due(t) - 1
      BY <2>2, <2>4, <2>7
    <3> QED BY <2>1, <2>2, <2>7, <3>1
  <2> QED BY <2>5, <2>6, <2>7
<1>2. Left' = [t \in Clients |-> IF Left[t] > 0 THEN Left[t] - 1 ELSE 0]
  BY <1>1 DEF Left
<1>3. TimeUpNow = {t \in Clients : Left[t] = 1}
  BY <1>1 DEF Left, TimeUpNow
<1>4. Rang' = Rang \cup {t \in Clients : Left[t] = 1}
  BY <1>3, RangIs
<1>5. A!Tick
  BY <1>2, <1>4 DEF A!Tick, Left, Rang, AlarmLeft
<1> QED BY <1>5 DEF AlarmStep, A!Next

(* Every step is one of Alarms or none.                                    *)
LEMMA AlarmNext == ASSUME Inv, [Next]_vars PROVE AlarmStep
<1>1. Inv'
  BY InvStep
<1>2. ASSUME NEW t \in Clients, NEW time \in Ticks \cup {RT_WAITING_FOREVER}, Take(t, time)
      PROVE  AlarmStep
  <2>1. Free(t) /\ UNCHANGED <<late, rt_tick>>
    BY <1>2 DEF Take
  <2>2. t \notin late /\ t \notin sched.armed
    BY <2>1, FreeKnows
  <2>3. \/ timers' = timers
        \/ time \in 0..(Half - 1) /\ Started(timers, timers', t, rt_tick, time)
    BY <1>2, TakeInv
  <2> QED BY <2>1, <2>2, <2>3, <1>1, SameAlarms, SetStep
<1>3. ASSUME NEW t \in Clients, RunsOn(t) PROVE AlarmStep
  BY <1>1, <1>3, GetUpStep DEF RunsOn
<1>4. ASSUME NEW t \in Clients, Release(t) PROVE AlarmStep
  <2>1. UNCHANGED <<late, rt_tick>>
    BY <1>4 DEF Release
  <2>2. timers' = timers \/ \E n \in Clients : Stopped(timers, timers', n, rt_tick)
    BY <1>4, ReleaseInv
  <2> QED BY <2>1, <2>2, <1>1, SameAlarms, CancelStep
<1>5. ASSUME NEW t \in Clients, NEW time \in Ticks, Sleep(t, time) PROVE AlarmStep
  <2>1. Free(t) /\ UNCHANGED <<late, rt_tick>>
    BY <1>5 DEF Sleep
  <2>2. t \notin late /\ t \notin sched.armed /\ time \in 0..(Half - 1)
    BY <2>1, FreeKnows, Constants
  <2>3. Started(timers, timers', t, rt_tick, time)
    BY <1>5, SleepInv
  <2> QED BY <2>1, <2>2, <2>3, <1>1, SetStep
<1>6. ASSUME NEW t \in Clients, Awakes(t) PROVE AlarmStep
  BY <1>1, <1>6, GetUpStep DEF Awakes
<1>7. ASSUME NEW t \in Clients, BusyWait(t) PROVE AlarmStep
  BY <1>1, <1>7, SameAlarms DEF BusyWait
<1>8. CASE BusyWaitEnds
  BY <1>1, <1>8, SameAlarms DEF BusyWaitEnds
<1>9. ASSUME NEW sliceOver \in BOOLEAN, Tick(sliceOver) PROVE AlarmStep
  BY <1>1, <1>9, TickInv, AlarmTick
<1>10. CASE UNCHANGED vars
  BY <1>1, <1>10, SameAlarms DEF vars
<1> QED BY <1>2, <1>3, <1>4, <1>5, <1>6, <1>7, <1>8, <1>9, <1>10 DEF Next

(* A sleep and a wait for some time end at the tick that was asked for and *)
(* at no other, unless the mutex comes first: the kernel's list of timers, *)
(* with ticks that start again from 0 after any TickMod, is a set of       *)
(* alarms that each count down, for any number of threads and any times up *)
(* to half of RT_TICK_MAX.                                                 *)
THEOREM Refinement == Spec => ImplementsAlarms
<1>1. Init => A!Init
  <2> SUFFICES ASSUME Init PROVE A!Init
    OBVIOUS
  <2>1. late = {} /\ timers.active = [t \in Clients |-> FALSE]
    BY DEF Init, rt_system_timer_init
  <2>2. \A t \in Clients : AlarmLeft(t) = 0
    BY <2>1 DEF AlarmLeft, TicksLeft
  <2>3. Rang = {} /\ Left = [t \in Clients |-> 0]
    BY <2>1, <2>2 DEF Rang, Left
  <2> QED BY <2>3 DEF A!Init, Left, Rang, AlarmLeft
<1>2. Inv /\ [Next]_vars => [A!Next]_A!vars
  BY AlarmNext DEF AlarmStep
<1> QED BY <1>1, <1>2, InvHolds, PTL DEF Spec, ImplementsAlarms, A!Spec

=============================================================================
