---------------------------- MODULE HandoffProofs ----------------------------
(***************************************************************************)
(* Proofs about Handoff for any set of pages.  The argument is a baton:    *)
(* the right to the screen is either with one active thread or is the one  *)
(* unit of one semaphore.  Inv adds to the checked invariants what keeps   *)
(* them inductive: nothing moves before the LCD thread starts, the chosen  *)
(* index names the page the baton is on its way to or with, and a thread   *)
(* that has drawn stays on the LCD until it gives the baton away.          *)
(***************************************************************************)
EXTENDS Handoff, TLAPS

BeforeLcd == pc[Lcd] = "off" => \A t \in Threads : pc[t] = "off" /\ sem[t] = 0
Chosen == /\ \A p \in Pages : Holds(p) => lcd_index = p
          /\ pc[Lcd] = "give" => lcd_index \in Pages
Drawn == \A t \in Threads : pc[t] \in {"unlock", "serve"} => screen = t

Inv ==
  /\ TypeOK
  /\ OneOwner
  /\ NeverLost
  /\ BeforeLcd
  /\ Chosen
  /\ Drawn

(* In the initial state no thread exists.                                  *)
LEMMA InitInv == Init => Inv
  <1> SUFFICES ASSUME Init PROVE Inv
    OBVIOUS
  <1>1. Lcd \in Threads
    BY DEF Threads
  <1>2. TypeOK
    BY DEF Init, TypeOK, Places
  <1>3. \A t \in Threads : ~Holds(t)
    BY DEF Init, Holds, Active
  <1>4. OneOwner /\ NeverLost /\ BeforeLcd /\ Chosen /\ Drawn
    BY <1>1, <1>3 DEF Init, OneOwner, NeverLost, BeforeLcd, Chosen, Drawn, Holds, Active, Threads
  <1> QED
    BY <1>2, <1>4 DEF Inv

(* The type invariant is inductive on its own, but for the target of a     *)
(* release, which Chosen supplies.                                         *)
LEMMA TypeStep == TypeOK /\ Chosen /\ [Next]_vars => TypeOK'
  <1> SUFFICES ASSUME TypeOK, Chosen, [Next]_vars PROVE TypeOK'
    OBVIOUS
  <1> USE ThreadAssumption DEF TypeOK, Threads, Places
  <1>1. CASE BookSystemInit
    BY <1>1 DEF BookSystemInit, Go
  <1>2. ASSUME NEW t \in Threads, Step(t) PROVE TypeOK'
    <2>1. CASE Start(t)
      BY <1>2, <2>1 DEF Start, Go
    <2>2. CASE TakeSem(t)
      BY <1>2, <2>2 DEF TakeSem, Go
    <2>3. CASE TakeMutex(t)
      BY <1>2, <2>3 DEF TakeMutex, Go
    <2>4. CASE Draw(t)
      BY <1>2, <2>4 DEF Draw, Go
    <2>5. CASE ReleaseMutex(t)
      BY <1>2, <2>5 DEF ReleaseMutex, Go
    <2>6. CASE ReleaseSem(t)
      <3>1. Successor(t) \in Threads
        BY <1>2, <2>6 DEF Successor, ReleaseSem, Go, Chosen
      <3> QED
        BY <1>2, <2>6, <3>1 DEF ReleaseSem, Go
    <2> QED
      BY <1>2, <2>1, <2>2, <2>3, <2>4, <2>5, <2>6 DEF Step
  <1>3. ASSUME NEW p \in Pages, UserStep(p) PROVE TypeOK'
    BY <1>3 DEF UserStep, Choose, Serve, Return, Go
  <1>4. CASE UNCHANGED vars
    BY <1>4 DEF vars
  <1> QED
    BY <1>1, <1>2, <1>3, <1>4 DEF Next

(* A step that keeps the semaphores and leaves every thread as active as   *)
(* it was keeps the baton where it is.                                     *)
LEMMA BatonStays ==
  ASSUME Inv, pc' \in [Threads -> Places], sem' = sem,
         pc[Lcd] # "off", pc'[Lcd] # "off",
         \A t \in Threads : Active(t)' = Active(t)
  PROVE  OneOwner' /\ NeverLost' /\ BeforeLcd'
  <1>1. \A t \in Threads : Holds(t)' = Holds(t)
    BY DEF Holds
  <1> QED
    BY <1>1 DEF Inv, OneOwner, NeverLost, BeforeLcd

LEMMA InvStep == Inv /\ [Next]_vars => Inv'
  <1> SUFFICES ASSUME Inv, [Next]_vars PROVE Inv'
    OBVIOUS
  <1> USE ThreadAssumption
  <1>t. TypeOK'
    BY TypeStep DEF Inv
  <1>l. Lcd \in Threads /\ Pages \subseteq Threads
    BY DEF Threads
  <1>y. TypeOK
    BY DEF Inv
  \* The places of the other threads do not change when t moves.
  <1>g. ASSUME NEW t \in Threads, NEW a, NEW b, Go(t, a, b)
        PROVE  /\ pc[t] = a /\ pc'[t] = b
               /\ \A u \in Threads : u # t => pc'[u] = pc[u]
    BY <1>g, <1>y DEF Go, TypeOK
  <1>1. CASE BookSystemInit
    <2>1. \A u \in Threads : Active(u)' = Active(u)
      BY <1>1, <1>g, <1>l DEF BookSystemInit, Active
    <2>2. OneOwner' /\ NeverLost' /\ BeforeLcd'
      BY <1>1, <1>g, <1>l, <1>t, <2>1, BatonStays DEF BookSystemInit, TypeOK
    <2>3. Chosen' /\ Drawn'
      BY <1>1, <1>g, <1>l, <2>1 DEF BookSystemInit, Inv, Chosen, Drawn, Holds
    <2> QED
      BY <1>t, <2>2, <2>3 DEF Inv
  <1>2. ASSUME NEW t \in Threads, Step(t) PROVE Inv'
    <2>1. CASE Start(t)
      <3>1. CASE t = Lcd
        <4>1. pc'[Lcd] = "boot" /\ sem' = sem /\ \A u \in Threads : sem[u] = 0
          BY <2>1, <3>1, <1>g, <1>l DEF Start, Inv, BeforeLcd
        <4>2. \A u \in Threads : u # Lcd => pc'[u] = "off"
          BY <2>1, <3>1, <1>g, <1>l DEF Start, Inv, BeforeLcd
        <4>3. \A u \in Threads : Holds(u)' <=> u = Lcd
          BY <4>1, <4>2, <1>l DEF Holds, Active
        <4>4. OneOwner' /\ NeverLost' /\ BeforeLcd' /\ Chosen' /\ Drawn'
          BY <4>1, <4>2, <4>3, <1>l DEF OneOwner, NeverLost, BeforeLcd, Chosen, Drawn
        <4> QED
          BY <1>t, <4>4 DEF Inv
      <3>2. CASE t # Lcd
        <4>1. Go(t, "off", "wait") /\ pc[Lcd] # "off" /\ UNCHANGED <<sem, lcd_index, screen>>
          BY <2>1, <3>2 DEF Start
        <4>2. \A u \in Threads : Active(u)' = Active(u)
          BY <4>1, <1>g DEF Active
        <4>3. OneOwner' /\ NeverLost' /\ BeforeLcd'
          BY <4>1, <4>2, <1>g, <1>l, <1>t, <3>2, BatonStays DEF TypeOK
        <4>4. Chosen' /\ Drawn'
          BY <4>1, <4>2, <1>g, <1>l, <3>2 DEF Inv, Chosen, Drawn, Holds
        <4> QED
          BY <1>t, <4>3, <4>4 DEF Inv
      <3> QED
        BY <3>1, <3>2
    <2>2. CASE TakeSem(t)
      \* t had the unit of its semaphore, so nobody else held anything.
      <3>1. Go(t, "wait", "lock") /\ sem[t] > 0 /\ sem' = [sem EXCEPT ![t] = @ - 1]
            /\ UNCHANGED <<lcd_index, screen>>
        BY <2>2 DEF TakeSem
      <3>2. sem[t] = 1 /\ sem'[t] = 0 /\ pc'[t] = "lock"
            /\ \A u \in Threads : u # t => sem'[u] = sem[u] /\ pc'[u] = pc[u]
        BY <3>1, <1>g, <1>y DEF Inv, OneOwner, TypeOK
      <3>3. \A u \in Threads : Holds(u) <=> u = t
        BY <3>1 DEF Inv, OneOwner, Holds
      <3>4. \A u \in Threads : Holds(u)' <=> u = t
        BY <3>2, <3>3 DEF Holds, Active
      <3>5. OneOwner'
        BY <3>2, <3>3, <3>4, <1>y DEF OneOwner, Holds, Inv, Active
      <3>6. NeverLost' /\ BeforeLcd'
        BY <3>1, <3>2, <3>4, <1>l DEF NeverLost, BeforeLcd, Inv
      <3>7. Chosen' /\ Drawn'
        BY <3>1, <3>2, <3>3, <3>4, <1>l DEF Chosen, Drawn, Inv
      <3> QED
        BY <1>t, <3>5, <3>6, <3>7 DEF Inv
    <2>3. CASE TakeMutex(t)
      <3>1. Go(t, "lock", "draw") /\ UNCHANGED <<sem, lcd_index, screen>>
        BY <2>3 DEF TakeMutex
      <3>2. \A u \in Threads : Active(u)' = Active(u)
        BY <3>1, <1>g DEF Active
      <3>3. pc[Lcd] # "off" /\ pc'[Lcd] # "off"
        BY <3>1, <1>g, <1>l DEF Inv, BeforeLcd
      <3>4. OneOwner' /\ NeverLost' /\ BeforeLcd'
        BY <3>1, <3>2, <3>3, <1>t, BatonStays DEF TypeOK
      <3>5. Chosen' /\ Drawn'
        BY <3>1, <3>2, <1>g, <1>l DEF Inv, Chosen, Drawn, Holds
      <3> QED
        BY <1>t, <3>4, <3>5 DEF Inv
    <2>4. CASE Draw(t)
      \* Only the active thread has anything on the LCD to lose.
      <3>1. Go(t, "draw", "unlock") /\ screen' = t /\ UNCHANGED <<sem, lcd_index>>
        BY <2>4 DEF Draw
      <3>2. \A u \in Threads : Active(u)' = Active(u)
        BY <3>1, <1>g DEF Active
      <3>3. pc[Lcd] # "off" /\ pc'[Lcd] # "off"
        BY <3>1, <1>g, <1>l DEF Inv, BeforeLcd
      <3>4. OneOwner' /\ NeverLost' /\ BeforeLcd'
        BY <3>1, <3>2, <3>3, <1>t, BatonStays DEF TypeOK
      <3>5. \A u \in Threads : Active(u) => u = t
        BY <3>1, <1>g DEF Inv, OneOwner, Holds, Active
      <3>6. Drawn'
        BY <3>1, <3>5, <1>g DEF Drawn, Active
      <3>7. Chosen'
        BY <3>1, <3>2, <1>g, <1>l DEF Inv, Chosen, Holds
      <3> QED
        BY <1>t, <3>4, <3>6, <3>7 DEF Inv
    <2>5. CASE ReleaseMutex(t)
      <3>1. Go(t, "unlock", "serve") /\ UNCHANGED <<sem, lcd_index, screen>>
        BY <2>5 DEF ReleaseMutex
      <3>2. \A u \in Threads : Active(u)' = Active(u)
        BY <3>1, <1>g DEF Active
      <3>3. pc[Lcd] # "off" /\ pc'[Lcd] # "off"
        BY <3>1, <1>g, <1>l DEF Inv, BeforeLcd
      <3>4. OneOwner' /\ NeverLost' /\ BeforeLcd'
        BY <3>1, <3>2, <3>3, <1>t, BatonStays DEF TypeOK
      <3>5. Chosen' /\ Drawn'
        BY <3>1, <3>2, <1>g, <1>l DEF Inv, Chosen, Drawn, Holds
      <3> QED
        BY <1>t, <3>4, <3>5 DEF Inv
    <2>6. CASE ReleaseSem(t)
      \* The baton leaves t for the semaphore of its successor s.
      <3> DEFINE s == Successor(t)
      <3>1. Go(t, "give", "wait") /\ sem' = [sem EXCEPT ![s] = @ + 1]
            /\ UNCHANGED <<lcd_index, screen>>
        BY <2>6 DEF ReleaseSem
      <3>2. s \in Threads /\ s # t /\ (s # Lcd => lcd_index = s)
        BY <3>1, <1>g, <1>l DEF Successor, Inv, Chosen, Threads
      <3>3. \A u \in Threads : Holds(u) <=> u = t
        BY <3>1, <1>g DEF Inv, OneOwner, Holds, Active
      <3>4. \A u \in Threads : sem[u] = 0
        BY <3>1, <3>3, <1>g, <1>y DEF Inv, OneOwner, Holds, Active, TypeOK
      <3> HIDE DEF s
      <3>5. /\ sem'[s] = 1
            /\ \A u \in Threads : u # s => sem'[u] = 0
            /\ \A u \in Threads : ~Active(u)'
        BY <3>1, <3>2, <3>3, <3>4, <1>g, <1>y DEF Active, Holds, TypeOK
      <3>6. \A u \in Threads : Holds(u)' <=> u = s
        BY <3>5 DEF Holds
      <3>7. OneOwner' /\ NeverLost'
        BY <3>2, <3>5, <3>6 DEF OneOwner, NeverLost
      <3>8. BeforeLcd'
        BY <3>1, <1>g, <1>l DEF Inv, BeforeLcd
      <3>9. Chosen'
        BY <3>1, <3>2, <3>5, <3>6, <1>l DEF Chosen, Active
      <3>10. Drawn'
        BY <3>5 DEF Drawn, Active
      <3> QED
        BY <1>t, <3>7, <3>8, <3>9, <3>10 DEF Inv
    <2> QED
      BY <1>2, <2>1, <2>2, <2>3, <2>4, <2>5, <2>6 DEF Step
  <1>3. ASSUME NEW p \in Pages, UserStep(p) PROVE Inv'
    <2>1. CASE Choose(p)
      <3>1. Go(Lcd, "serve", "give") /\ lcd_index' = p /\ UNCHANGED <<sem, screen>>
        BY <2>1 DEF Choose
      <3>2. \A u \in Threads : Active(u)' = Active(u)
        BY <3>1, <1>g, <1>l DEF Active
      <3>3. OneOwner' /\ NeverLost' /\ BeforeLcd'
        BY <3>1, <3>2, <1>g, <1>l, <1>t, BatonStays DEF TypeOK
      <3>4. \A q \in Pages : ~Holds(q)
        BY <3>1, <1>g, <1>l DEF Inv, OneOwner, Holds, Active
      <3>5. Chosen' /\ Drawn'
        BY <3>1, <3>2, <3>4, <1>g, <1>l DEF Inv, Chosen, Drawn, Holds
      <3> QED
        BY <1>t, <3>3, <3>5 DEF Inv
    <2>2. CASE Serve(p)
      <3>1. pc[p] = "serve" /\ screen' = p /\ UNCHANGED <<pc, sem, lcd_index>>
        BY <2>2 DEF Serve
      <3>2. screen = p
        BY <3>1, <1>l DEF Inv, Drawn
      <3> QED
        BY <1>t, <3>1, <3>2 DEF Inv, OneOwner, NeverLost, BeforeLcd, Chosen, Drawn, Holds, Active
    <2>3. CASE Return(p)
      <3>1. Go(p, "serve", "give") /\ UNCHANGED <<sem, lcd_index, screen>>
        BY <2>3 DEF Return
      <3>2. \A u \in Threads : Active(u)' = Active(u)
        BY <3>1, <1>g, <1>l DEF Active
      <3>3. pc[Lcd] # "off" /\ pc'[Lcd] # "off"
        BY <3>1, <1>g, <1>l DEF Inv, BeforeLcd
      <3>4. OneOwner' /\ NeverLost' /\ BeforeLcd'
        BY <3>1, <3>2, <3>3, <1>t, BatonStays DEF TypeOK
      <3>5. Chosen' /\ Drawn'
        BY <3>1, <3>2, <1>g, <1>l DEF Inv, Chosen, Drawn, Holds
      <3> QED
        BY <1>t, <3>4, <3>5 DEF Inv
    <2> QED
      BY <1>3, <2>1, <2>2, <2>3 DEF UserStep
  <1>4. CASE UNCHANGED vars
    BY <1>4 DEF vars, Inv, TypeOK, OneOwner, NeverLost, BeforeLcd, Chosen, Drawn, Holds, Active
  <1> QED
    BY <1>1, <1>2, <1>3, <1>4 DEF Next

LEMMA InvHolds == Spec => []Inv
  BY InitInv, InvStep, PTL DEF Spec

(* Every variable keeps the range its C declaration is used with.          *)
THEOREM TypeCorrect == Spec => []TypeOK
  <1>1. Inv => TypeOK
    BY DEF Inv
  <1> QED
    BY <1>1, InvHolds, PTL

(* For any number of pages: the screen is never handed to two threads.     *)
THEOREM ExclusiveScreen == Spec => []OneOwner
  <1>1. Inv => OneOwner
    BY DEF Inv
  <1> QED
    BY <1>1, InvHolds, PTL

(* For any number of pages: the screen is always somebody's.               *)
THEOREM HandoffNeverLost == Spec => []NeverLost
  <1>1. Inv => NeverLost
    BY DEF Inv
  <1> QED
    BY <1>1, InvHolds, PTL

(* The loops of main.c need no mutex to draw: a serving thread's drawing   *)
(* is the one on the LCD.                                                  *)
THEOREM ServingIsShown == Spec => []ShownWhileServing
  <1>1. Inv => ShownWhileServing
    BY DEF Inv, Drawn, ShownWhileServing
  <1> QED
    BY <1>1, InvHolds, PTL

(* A page is at work only on the cover's latest choice.                    *)
THEOREM ServedAsChosen == Spec => []ChosenPageServes
  <1>1. Inv => ChosenPageServes
    BY DEF Inv, Chosen, Holds, ChosenPageServes
  <1> QED
    BY <1>1, InvHolds, PTL
=============================================================================
