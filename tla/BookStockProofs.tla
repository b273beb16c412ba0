--------------------------- MODULE BookStockProofs ---------------------------
(***************************************************************************)
(* What is proved of the list of books (Others/book.c) and of the change   *)
(* page (User/main.c) for any nodes, names, books at start and rows: the   *)
(* ring is whole, book_num counts it, and it is the catalogue.             *)
(***************************************************************************)
EXTENDS BookStock, FiniteSetTheorems, SequenceTheorems, TLAPS

-----------------------------------------------------------------------------
(* Following next from a head                                              *)

Follow(nd, h) == LET at[k \in Nat] == IF k = 0 THEN h ELSE nd[at[k - 1]].next IN at

(* A non-empty set of naturals has a least element.                        *)
LEMMA Least ==
  ASSUME NEW T, T \subseteq Nat, T # {}
  PROVE  \E x \in T : \A y \in T : x <= y
<1> DEFINE F == {0..n : n \in T}
           R == StrictSubsetOrdering(Nat)
<1>1. IsWellFoundedOn(R, FiniteSubsetsOf(Nat))
  BY FS_StrictSubsetOrderingWellFounded
<1>2. F \subseteq FiniteSubsetsOf(Nat) /\ F # {}
  <2>1. \A n \in T : IsFiniteSet(0..n)
    BY FS_Interval
  <2>2. \A n \in T : 0..n \in SUBSET Nat
    OBVIOUS
  <2>3. \A n \in T : 0..n \in FiniteSubsetsOf(Nat)
    BY <2>1, <2>2 DEF FiniteSubsetsOf
  <2> QED BY <2>3
<1>3. \E X \in F : \A Y \in F : <<Y, X>> \notin R
  <2> HIDE DEF F, R
  <2> QED BY <1>1, <1>2, WFMin
<1>4. PICK x \in T : \A y \in T : <<0..y, 0..x>> \notin R
  BY <1>3
<1>5. ASSUME NEW y \in T, y < x PROVE FALSE
  <2>1. 0..y \in SUBSET Nat /\ 0..x \in SUBSET Nat
    OBVIOUS
  <2>2. 0..y \subseteq 0..x
    BY <1>5
  <2>3. x \in 0..x /\ x \notin 0..y
    BY <1>5
  <2>4. <<0..y, 0..x>> \in R
    BY <2>1, <2>2, <2>3 DEF StrictSubsetOrdering
  <2> QED BY <2>4, <1>4
<1> QED BY <1>5

(* The walk along next exists: each of its beginnings does, and two of     *)
(* them agree as far as both go.                                           *)
LEMMA Unrolled ==
  ASSUME NEW nd, NEW h
  PROVE  Follow(nd, h) =
           [k \in Nat |-> IF k = 0 THEN h ELSE nd[Follow(nd, h)[k - 1]].next]
<1> DEFINE Goes(g, n) == g = [k \in 0..n |-> IF k = 0 THEN h ELSE nd[g[k - 1]].next]
<1>1. ASSUME NEW n \in Nat PROVE \E g : Goes(g, n)
  <2> DEFINE T == {m \in Nat : ~ \E g : Goes(g, m)}
  <2>1. CASE T = {}
    BY <2>1
  <2>2. CASE T # {}
    <3>1. PICK m \in T : \A y \in T : m <= y
      <4> HIDE DEF T
      <4>1. T \subseteq Nat
        BY DEF T
      <4> QED BY <4>1, <2>2, Least
    <3>2. CASE m = 0
      <4>1. Goes([k \in 0..0 |-> h], 0)
        OBVIOUS
      <4> QED BY <4>1, <3>2, <3>1
    <3>3. CASE m # 0
      <4>1. m - 1 \in Nat /\ m \in Nat /\ m - 1 \notin T
        <5>1. m \in Nat
          BY <3>1
        <5> HIDE DEF T
        <5> QED BY <5>1, <3>1, <3>3
      <4>2. PICK g : Goes(g, m - 1)
        BY <4>1
      <4> DEFINE f == [k \in 0..m |-> IF k = m THEN nd[g[m - 1]].next ELSE g[k]]
      <4>3. ASSUME NEW k \in 0..m
            PROVE  f[k] = IF k = 0 THEN h ELSE nd[f[k - 1]].next
        <5>1. CASE k = m
          <6>1. f[k] = nd[g[m - 1]].next /\ f[k - 1] = g[m - 1] /\ k # 0
            BY <5>1, <4>1, <3>3
          <6> QED BY <6>1, <5>1
        <5>2. CASE k # m
          <6>1. k \in 0..(m - 1)
            BY <5>2, <4>1
          <6>2. f[k] = g[k]
            BY <5>2
          <6>3. g[k] = IF k = 0 THEN h ELSE nd[g[k - 1]].next
            BY <6>1, <4>2
          <6>4. k # 0 => f[k - 1] = g[k - 1]
            BY <6>1, <4>1
          <6> HIDE DEF f
          <6> QED BY <6>2, <6>3, <6>4
        <5> QED BY <5>1, <5>2
      <4>4. Goes(f, m)
        <5>1. f = [k \in 0..m |-> f[k]]
          OBVIOUS
        <5> HIDE DEF f
        <5> QED BY <4>3, <5>1
      <4> QED BY <4>4, <3>1
    <3> QED BY <3>2, <3>3
  <2> QED BY <2>1, <2>2
<1>2. ASSUME NEW n \in Nat, NEW m \in Nat, NEW f, NEW g, Goes(f, n), Goes(g, m),
             NEW j \in 0..n, j <= m
      PROVE  f[j] = g[j]
  <2> DEFINE T == {k \in Nat : k <= n /\ k <= m /\ f[k] # g[k]}
  <2>1. CASE T = {}
    <3>1. j \in Nat /\ j <= n /\ j <= m
      <4> HIDE DEF Goes
      <4> QED BY <1>2
    <3>2. j \notin T
      BY <2>1
    <3> QED BY <3>1, <3>2
  <2>2. CASE T # {}
    <3>1. PICK k \in T : \A y \in T : k <= y
      <4> HIDE DEF T
      <4>1. T \subseteq Nat
        BY DEF T
      <4> QED BY <4>1, <2>2, Least
    <3>2. k \in 0..n /\ k \in 0..m
      BY <3>1
    <3>3. /\ f[k] = IF k = 0 THEN h ELSE nd[f[k - 1]].next
          /\ g[k] = IF k = 0 THEN h ELSE nd[g[k - 1]].next
      BY <3>2, <1>2
    <3>4. k # 0 => k - 1 \in Nat /\ k - 1 \notin T /\ k - 1 <= n /\ k - 1 <= m
      BY <3>1, <3>2
    <3>5. k # 0 => f[k - 1] = g[k - 1]
      BY <3>4
    <3> QED BY <3>1, <3>3, <3>5
  <2> QED BY <2>1, <2>2
<1> DEFINE G(n) == CHOOSE g : Goes(g, n)
           at == [k \in Nat |-> G(k)[k]]
<1>3. \A n \in Nat : Goes(G(n), n)
  <2> HIDE DEF Goes
  <2> QED BY <1>1
<1>4. ASSUME NEW k \in Nat
      PROVE  at[k] = IF k = 0 THEN h ELSE nd[at[k - 1]].next
  <2>0. at[k] = G(k)[k] /\ (k # 0 => at[k - 1] = G(k - 1)[k - 1])
    <3> HIDE DEF G
    <3> QED OBVIOUS
  <2>1. G(k)[k] = IF k = 0 THEN h ELSE nd[G(k)[k - 1]].next
    <3>1. Goes(G(k), k)
      BY <1>3
    <3> HIDE DEF G
    <3> QED BY <3>1
  <2>2. CASE k = 0
    <3> HIDE DEF at, G
    <3> QED BY <2>0, <2>1, <2>2
  <2>3. CASE k # 0
    <3>1. G(k)[k - 1] = G(k - 1)[k - 1]
      <4>1. k - 1 \in Nat /\ k - 1 \in 0..k /\ k - 1 <= k - 1
        BY <2>3
      <4>2. Goes(G(k), k) /\ Goes(G(k - 1), k - 1)
        BY <1>3, <4>1
      <4> HIDE DEF G, Goes, at
      <4> QED BY <4>1, <4>2, <1>2
    <3> HIDE DEF at, G
    <3> QED BY <2>0, <2>1, <3>1, <2>3
  <2> QED BY <2>2, <2>3
<1>5. at = [k \in Nat |-> IF k = 0 THEN h ELSE nd[at[k - 1]].next]
  <2>1. at = [k \in Nat |-> at[k]]
    OBVIOUS
  <2> HIDE DEF at
  <2> QED BY <2>1, <1>4
<1>6. \E g : g = [k \in Nat |-> IF k = 0 THEN h ELSE nd[g[k - 1]].next]
  <2> HIDE DEF at
  <2> QED BY <1>5
<1> QED BY <1>6 DEF Follow

LEMMA FollowStep ==
  ASSUME NEW nd, NEW h
  PROVE  /\ Follow(nd, h)[0] = h
         /\ \A k \in Nat : Follow(nd, h)[k + 1] = nd[Follow(nd, h)[k]].next
<1> DEFINE w == Follow(nd, h)
<1>1. w = [k \in Nat |-> IF k = 0 THEN h ELSE nd[w[k - 1]].next]
  BY Unrolled
<1> HIDE DEF w
<1>2. \A k \in Nat : w[k] = IF k = 0 THEN h ELSE nd[w[k - 1]].next
  BY <1>1
<1>3. ASSUME NEW k \in Nat PROVE w[k + 1] = nd[w[k]].next
  <2>1. k + 1 \in Nat /\ k + 1 # 0 /\ (k + 1) - 1 = k
    OBVIOUS
  <2> QED BY <2>1, <1>2
<1>4. w[0] = h
  BY <1>2
<1> QED BY <1>3, <1>4 DEF w

(* Whatever goes on from the head in the same way is the walk.             *)
LEMMA FollowIs ==
  ASSUME NEW nd, NEW h, NEW n \in Nat, NEW s, s[0] = h,
         \A k \in 0..(n - 1) : s[k + 1] = nd[s[k]].next
  PROVE  \A k \in 0..n : Follow(nd, h)[k] = s[k]
<1> DEFINE w == Follow(nd, h)
           T == {k \in 0..n : w[k] # s[k]}
<1>1. w[0] = h /\ \A k \in Nat : w[k + 1] = nd[w[k]].next
  BY FollowStep
<1> HIDE DEF w
<1>2. CASE T = {}
  BY <1>2 DEF w
<1>3. CASE T # {}
  <2>1. PICK m \in T : \A y \in T : m <= y
    <3>1. T \subseteq Nat
      OBVIOUS
    <3> HIDE DEF T
    <3> QED BY <3>1, <1>3, Least
  <2>2. m \in 1..n
    BY <2>1, <1>1
  <2>3. m - 1 \in 0..(n - 1) /\ m - 1 \in 0..n /\ m - 1 \notin T /\ (m - 1) + 1 = m
    BY <2>1, <2>2
  <2>4. w[m - 1] = s[m - 1]
    BY <2>3
  <2>5. w[m] = nd[w[m - 1]].next /\ s[m] = nd[s[m - 1]].next
    <3>1. m - 1 \in Nat
      BY <2>3
    <3>2. w[(m - 1) + 1] = nd[w[m - 1]].next
      BY <3>1, <1>1
    <3>3. s[(m - 1) + 1] = nd[s[m - 1]].next
      BY <2>3
    <3> QED BY <3>2, <3>3, <2>3
  <2> QED BY <2>1, <2>4, <2>5
<1> QED BY <1>2, <1>3

-----------------------------------------------------------------------------
(* A ring of n nodes: next passes each of them once and comes back to the  *)
(* head, and prev undoes next.                                             *)
Ring(nd, h, n) ==
  /\ n \in Nat \ {0}
  /\ \A k \in 0..(n - 1) : Follow(nd, h)[k] \in DOMAIN nd
  /\ \A a \in DOMAIN nd : \E k \in 0..(n - 1) : a = Follow(nd, h)[k]
  /\ \A j, k \in 0..(n - 1) : Follow(nd, h)[j] = Follow(nd, h)[k] => j = k
  /\ Follow(nd, h)[n] = h
  /\ \A k \in 0..(n - 1) : nd[Follow(nd, h)[k + 1]].prev = Follow(nd, h)[k]

Typed(nd) == \A x \in DOMAIN nd : nd[x] \in Node

(* What create_book_item and delete_book leave alone.                      *)
SameBook(x, y) == x.id = y.id /\ x.text = y.text /\ x.state = y.state

(* create_book_item on any nodes and any head.                             *)
Created(nd, h, a, row, id, state) ==
  [x \in DOMAIN nd \cup {a} |->
     IF x = a THEN [text |-> row, id |-> id, state |-> state,
                    next |-> h, prev |-> nd[h].prev]
     ELSE [nd[x] EXCEPT !.next = IF x = nd[h].prev THEN a ELSE @,
                        !.prev = IF x = h THEN a ELSE @]]

Prolonged(nd, nd2, h, n, a) ==
  /\ DOMAIN nd2 = DOMAIN nd \cup {a}
  /\ Ring(nd2, h, n + 1)
  /\ \A k \in 0..(n - 1) : Follow(nd2, h)[k] = Follow(nd, h)[k]
  /\ Follow(nd2, h)[n] = a
  /\ \A x \in DOMAIN nd : SameBook(nd2[x], nd[x])
  /\ nd[h].prev \in DOMAIN nd /\ h \in DOMAIN nd

(* A new node closes the ring in front of the head.                        *)
LEMMA Linked ==
  ASSUME NEW nd, NEW h, NEW n \in Nat, n # 0, Ring(nd, h, n), Typed(nd),
         NEW a, a \notin DOMAIN nd, NEW row, NEW id, NEW state, NEW nd2,
         nd2 = Created(nd, h, a, row, id, state)
  PROVE  Prolonged(nd, nd2, h, n, a)
<1> DEFINE w == Follow(nd, h)
           s == [k \in 0..(n + 1) |-> IF k < n THEN w[k] ELSE IF k = n THEN a ELSE h]
<1>1. w[0] = h /\ \A k \in Nat : w[k + 1] = nd[w[k]].next
  BY FollowStep
<1>2. /\ \A k \in 0..(n - 1) : w[k] \in DOMAIN nd
      /\ \A x \in DOMAIN nd : \E k \in 0..(n - 1) : x = w[k]
      /\ \A j, k \in 0..(n - 1) : w[j] = w[k] => j = k
      /\ w[n] = h
      /\ \A k \in 0..(n - 1) : nd[w[k + 1]].prev = w[k]
  BY DEF Ring
<1> HIDE DEF w
<1>3. h \in DOMAIN nd /\ nd[h].prev = w[n - 1] /\ n - 1 \in 0..(n - 1) /\ (n - 1) + 1 = n
  <2>1. 0 \in 0..(n - 1) /\ n - 1 \in 0..(n - 1) /\ (n - 1) + 1 = n
    OBVIOUS
  <2> QED BY <2>1, <1>1, <1>2
<1>4. /\ DOMAIN nd2 = DOMAIN nd \cup {a}
      /\ nd2[a] = [text |-> row, id |-> id, state |-> state,
                   next |-> h, prev |-> nd[h].prev]
      /\ \A x \in DOMAIN nd : nd2[x] =
           [nd[x] EXCEPT !.next = IF x = nd[h].prev THEN a ELSE @,
                         !.prev = IF x = h THEN a ELSE @]
  BY DEF Created
<1>5. ASSUME NEW x \in DOMAIN nd
      PROVE  /\ SameBook(nd2[x], nd[x])
             /\ nd2[x].next = IF x = w[n - 1] THEN a ELSE nd[x].next
             /\ nd2[x].prev = IF x = h THEN a ELSE nd[x].prev
  <2>1. nd[x] \in Node
    BY DEF Typed
  <2>2. nd2[x] = [nd[x] EXCEPT !.next = IF x = w[n - 1] THEN a ELSE @,
                               !.prev = IF x = h THEN a ELSE @]
    BY <1>4, <1>3
  <2> QED BY <2>1, <2>2 DEF Node, SameBook
<1>6. nd2[a].next = h /\ nd2[a].prev = w[n - 1]
  <2>1. nd2[a] = [text |-> row, id |-> id, state |-> state,
                  next |-> h, prev |-> nd[h].prev]
    BY <1>4
  <2>2. nd[h].prev = w[n - 1]
    BY <1>3
  <2> QED BY <2>1, <2>2
<1>7. /\ s[0] = h /\ s[n] = a /\ s[n + 1] = h
      /\ \A k \in 0..(n - 1) : s[k] = w[k]
  BY <1>2, <1>1
<1>8. \A k \in 0..n : s[k + 1] = nd2[s[k]].next
  <2> HIDE DEF s
  <2> SUFFICES ASSUME NEW k \in 0..n PROVE s[k + 1] = nd2[s[k]].next
    OBVIOUS
  <2>1. CASE k = n
    BY <2>1, <1>7, <1>6
  <2>2. CASE k = n - 1
    <3>1. s[k] = w[n - 1] /\ s[k + 1] = a /\ w[n - 1] \in DOMAIN nd
      BY <2>2, <1>7, <1>3, <1>2
    <3> QED BY <3>1, <1>5
  <2>3. CASE k # n /\ k # n - 1
    <3>1. k \in 0..(n - 1) /\ k + 1 \in 0..(n - 1) /\ k \in Nat
      BY <2>3
    <3>2. s[k] = w[k] /\ s[k + 1] = w[k + 1] /\ w[k] \in DOMAIN nd /\ w[k] # w[n - 1]
      BY <3>1, <1>7, <1>2, <1>3, <2>3
    <3>3. nd2[w[k]].next = nd[w[k]].next
      BY <3>2, <1>5
    <3> QED BY <3>1, <3>2, <3>3, <1>1
  <2> QED BY <2>1, <2>2, <2>3
<1> DEFINE w2 == Follow(nd2, h)
<1>9. \A k \in 0..(n + 1) : w2[k] = s[k]
  <2>1. n + 1 \in Nat /\ (n + 1) - 1 = n
    OBVIOUS
  <2> HIDE DEF s
  <2>2. \A k \in 0..((n + 1) - 1) : s[k + 1] = nd2[s[k]].next
    BY <2>1, <1>8
  <2>3. s[0] = h
    BY <1>7
  <2> QED BY <2>1, <2>2, <2>3, FollowIs
<1> HIDE DEF s, w2
<1>10. /\ \A k \in 0..(n - 1) : w2[k] = w[k]
       /\ w2[n] = a /\ w2[n + 1] = h
  <2>1. /\ \A k \in 0..(n - 1) : k \in 0..(n + 1)
        /\ n \in 0..(n + 1) /\ n + 1 \in 0..(n + 1)
    OBVIOUS
  <2> QED BY <2>1, <1>9, <1>7
<1>11. /\ n + 1 \in Nat \ {0}
       /\ \A k \in 0..((n + 1) - 1) : k = n \/ k \in 0..(n - 1)
  OBVIOUS
<1>12. \A k \in 0..((n + 1) - 1) : w2[k] \in DOMAIN nd2
  BY <1>11, <1>10, <1>4, <1>2
<1>13. \A x \in DOMAIN nd2 : \E k \in 0..((n + 1) - 1) : x = w2[k]
  <2>1. n \in 0..((n + 1) - 1) /\ \A k \in 0..(n - 1) : k \in 0..((n + 1) - 1)
    OBVIOUS
  <2>2. ASSUME NEW x \in DOMAIN nd PROVE \E k \in 0..((n + 1) - 1) : x = w2[k]
    BY <2>1, <1>2, <1>10
  <2> QED BY <2>1, <2>2, <1>4, <1>10
<1>14. \A j, k \in 0..((n + 1) - 1) : w2[j] = w2[k] => j = k
  BY <1>11, <1>10, <1>2
<1>15. \A k \in 0..((n + 1) - 1) : nd2[w2[k + 1]].prev = w2[k]
  <2> SUFFICES ASSUME NEW k \in 0..((n + 1) - 1) PROVE nd2[w2[k + 1]].prev = w2[k]
    OBVIOUS
  <2>1. CASE k = n
    BY <2>1, <1>10, <1>5, <1>3
  <2>2. CASE k = n - 1
    <3>1. k + 1 = n /\ w2[k + 1] = a /\ w2[k] = w[n - 1]
      BY <2>2, <1>10, <1>3
    <3> QED BY <3>1, <1>6
  <2>3. CASE k # n /\ k # n - 1
    <3>1. k \in 0..(n - 1) /\ k + 1 \in 0..(n - 1) /\ 0 \in 0..(n - 1) /\ k + 1 # 0
      BY <2>3
    <3>2. w2[k] = w[k] /\ w2[k + 1] = w[k + 1] /\ w[k + 1] \in DOMAIN nd /\ w[k + 1] # h
      BY <3>1, <1>10, <1>2, <1>1
    <3> QED BY <3>1, <3>2, <1>5, <1>2
  <2> QED BY <2>1, <2>2, <2>3
<1>16. Ring(nd2, h, n + 1)
  BY <1>10, <1>11, <1>12, <1>13, <1>14, <1>15 DEF Ring, w2
<1>17. nd[h].prev \in DOMAIN nd
  BY <1>3, <1>2
<1> QED BY <1>3, <1>4, <1>5, <1>10, <1>16, <1>17 DEF Prolonged, w, w2

(* delete_book on any nodes.                                               *)
Deleted(nd, a) ==
  [x \in DOMAIN nd \ {a} |->
     [nd[x] EXCEPT !.next = IF x = nd[a].prev THEN nd[a].next ELSE @,
                   !.prev = IF x = nd[a].next THEN nd[a].prev ELSE @]]

Shortened(nd, nd2, h, n, p, a) ==
  /\ DOMAIN nd2 = DOMAIN nd \ {a}
  /\ Ring(nd2, h, n - 1)
  /\ \A k \in 0..(p - 1) : Follow(nd2, h)[k] = Follow(nd, h)[k]
  /\ \A k \in p..(n - 1) : Follow(nd2, h)[k] = Follow(nd, h)[k + 1]
  /\ \A x \in DOMAIN nd2 : SameBook(nd2[x], nd[x])
  /\ a \in DOMAIN nd /\ h \in DOMAIN nd2

(* Without a node that is not the head the ring is still one: those behind *)
(* it move up by one.                                                      *)
LEMMA Unlinked ==
  ASSUME NEW nd, NEW h, NEW n \in Nat, n # 0, Ring(nd, h, n), Typed(nd),
         NEW p \in 1..(n - 1), NEW a, a = Follow(nd, h)[p], NEW nd2,
         nd2 = Deleted(nd, a)
  PROVE  Shortened(nd, nd2, h, n, p, a)
<1> DEFINE w == Follow(nd, h)
           s == [k \in 0..(n - 1) |-> IF k < p THEN w[k] ELSE w[k + 1]]
<1>1. w[0] = h /\ \A k \in Nat : w[k + 1] = nd[w[k]].next
  BY FollowStep
<1>2. /\ \A k \in 0..(n - 1) : w[k] \in DOMAIN nd
      /\ \A x \in DOMAIN nd : \E k \in 0..(n - 1) : x = w[k]
      /\ \A j, k \in 0..(n - 1) : w[j] = w[k] => j = k
      /\ w[n] = h
      /\ \A k \in 0..(n - 1) : nd[w[k + 1]].prev = w[k]
  BY DEF Ring
<1>3. a = w[p]
  OBVIOUS
<1> HIDE DEF w
<1>4. /\ p \in 0..(n - 1) /\ p - 1 \in 0..(n - 1) /\ (p - 1) + 1 = p /\ p \in Nat
      /\ 0 \in 0..(n - 1) /\ n - 1 \in Nat /\ n - 1 # 0
  OBVIOUS
<1>5. /\ a \in DOMAIN nd /\ nd[a].next = w[p + 1] /\ nd[a].prev = w[p - 1]
      /\ w[p - 1] \in DOMAIN nd
  <2>1. nd[w[(p - 1) + 1]].prev = w[p - 1]
    BY <1>2, <1>4
  <2> QED BY <2>1, <1>1, <1>2, <1>3, <1>4
<1>6. \A j, k \in 1..n : w[j] = w[k] => j = k
  <2> SUFFICES ASSUME NEW j \in 1..n, NEW k \in 1..n, w[j] = w[k] PROVE j = k
    OBVIOUS
  <2>0. w[n] = w[0]
    BY <1>1, <1>2
  <2>1. CASE j = n /\ k # n
    <3>1. w[k] = w[0] /\ k \in 0..(n - 1) /\ k # 0
      BY <2>0, <2>1
    <3> QED BY <3>1, <1>2, <1>4
  <2>2. CASE j # n /\ k = n
    <3>1. w[j] = w[0] /\ j \in 0..(n - 1) /\ j # 0
      BY <2>0, <2>2
    <3> QED BY <3>1, <1>2, <1>4
  <2>3. CASE j # n /\ k # n
    <3>1. j \in 0..(n - 1) /\ k \in 0..(n - 1)
      BY <2>3
    <3> QED BY <3>1, <1>2
  <2> QED BY <2>1, <2>2, <2>3
<1>7. DOMAIN nd2 = DOMAIN nd \ {a}
  BY DEF Deleted
<1>8. ASSUME NEW x \in DOMAIN nd, x # a
      PROVE  /\ SameBook(nd2[x], nd[x])
             /\ nd2[x].next = IF x = w[p - 1] THEN w[p + 1] ELSE nd[x].next
             /\ nd2[x].prev = IF x = w[p + 1] THEN w[p - 1] ELSE nd[x].prev
  <2>1. nd[x] \in Node
    BY DEF Typed
  <2>2. nd2[x] = [nd[x] EXCEPT !.next = IF x = nd[a].prev THEN nd[a].next ELSE @,
                               !.prev = IF x = nd[a].next THEN nd[a].prev ELSE @]
    BY <1>8 DEF Deleted
  <2>3. nd2[x] = [nd[x] EXCEPT !.next = IF x = w[p - 1] THEN w[p + 1] ELSE @,
                               !.prev = IF x = w[p + 1] THEN w[p - 1] ELSE @]
    BY <2>2, <1>5
  <2> QED BY <2>1, <2>3 DEF Node, SameBook
<1>9. /\ \A k \in 0..(p - 1) : s[k] = w[k]
      /\ \A k \in p..(n - 1) : s[k] = w[k + 1]
      /\ s[0] = h /\ s[n - 1] = h
  <2>1. /\ \A k \in 0..(p - 1) : k \in 0..(n - 1) /\ k < p
        /\ \A k \in p..(n - 1) : k \in 0..(n - 1) /\ ~(k < p)
        /\ 0 \in 0..(p - 1) /\ n - 1 \in p..(n - 1) /\ (n - 1) + 1 = n
    OBVIOUS
  <2>2. /\ \A k \in 0..(p - 1) : s[k] = w[k]
        /\ \A k \in p..(n - 1) : s[k] = w[k + 1]
    BY <2>1
  <2> HIDE DEF s
  <2> QED BY <2>1, <2>2, <1>1, <1>2
<1> HIDE DEF s
<1>10. \A k \in 0..(n - 1) : k # p => w[k] # a
  BY <1>2, <1>3, <1>4
<1>11. \A k \in 0..((n - 1) - 1) : s[k + 1] = nd2[s[k]].next
  <2> SUFFICES ASSUME NEW k \in 0..((n - 1) - 1) PROVE s[k + 1] = nd2[s[k]].next
    OBVIOUS
  <2>1. CASE k = p - 1
    <3>1. k \in 0..(p - 1) /\ k + 1 = p /\ p \in p..(n - 1) /\ p - 1 # p
      BY <2>1
    <3>2. s[k] = w[p - 1] /\ s[k + 1] = w[p + 1] /\ w[p - 1] # a
      BY <3>1, <2>1, <1>9, <1>10, <1>4
    <3> QED BY <3>2, <1>5, <1>8
  <2>2. CASE k < p - 1
    <3>1. /\ k \in 0..(p - 1) /\ k + 1 \in 0..(p - 1) /\ k \in 0..(n - 1) /\ k # p
          /\ k # p - 1 /\ k \in Nat
      BY <2>2
    <3>2. /\ s[k] = w[k] /\ s[k + 1] = w[k + 1] /\ w[k] \in DOMAIN nd /\ w[k] # a
          /\ w[k] # w[p - 1]
      BY <3>1, <1>9, <1>10, <1>2, <1>4
    <3>3. w[k + 1] = nd[w[k]].next
      BY <3>1, <1>1
    <3> QED BY <3>2, <3>3, <1>8
  <2>3. CASE k > p - 1
    <3>1. /\ k \in p..(n - 1) /\ k + 1 \in p..(n - 1) /\ k + 1 \in 0..(n - 1)
          /\ k + 1 # p /\ k + 1 # p - 1 /\ k + 1 \in Nat
      BY <2>3
    <3>2. /\ s[k] = w[k + 1] /\ s[k + 1] = w[(k + 1) + 1]
          /\ w[k + 1] \in DOMAIN nd /\ w[k + 1] # a /\ w[k + 1] # w[p - 1]
      BY <3>1, <1>9, <1>10, <1>2, <1>4
    <3>3. w[(k + 1) + 1] = nd[w[k + 1]].next
      BY <3>1, <1>1
    <3> QED BY <3>2, <3>3, <1>8
  <2> QED BY <2>1, <2>2, <2>3
<1> DEFINE w2 == Follow(nd2, h)
<1>12. \A k \in 0..(n - 1) : w2[k] = s[k]
  BY <1>4, <1>9, <1>11, FollowIs
<1> HIDE DEF w2
<1>13. /\ \A k \in 0..(p - 1) : w2[k] = w[k]
       /\ \A k \in p..(n - 1) : w2[k] = w[k + 1]
       /\ w2[n - 1] = h
  <2>1. /\ \A k \in 0..(p - 1) : k \in 0..(n - 1)
        /\ \A k \in p..(n - 1) : k \in 0..(n - 1)
        /\ n - 1 \in 0..(n - 1)
    OBVIOUS
  <2> QED BY <2>1, <1>12, <1>9
<1>14. \A k \in 0..((n - 1) - 1) :
         \/ k \in 0..(p - 1) /\ k \in 0..(n - 1) /\ k # p
         \/ k \in p..(n - 1) /\ k + 1 \in 0..(n - 1) /\ k + 1 # p
  OBVIOUS
<1>15. \A k \in 0..((n - 1) - 1) : w2[k] \in DOMAIN nd2
  BY <1>14, <1>13, <1>10, <1>2, <1>7
<1>16. ASSUME NEW x \in DOMAIN nd2 PROVE \E k \in 0..((n - 1) - 1) : x = w2[k]
  <2>1. PICK j \in 0..(n - 1) : x = w[j]
    BY <1>7, <1>2
  <2>2. j # p
    BY <2>1, <1>7, <1>3
  <2>3. CASE j < p
    <3>1. j \in 0..(p - 1) /\ j \in 0..((n - 1) - 1)
      BY <2>3
    <3> QED BY <3>1, <2>1, <1>13
  <2>4. CASE j > p
    <3>1. j - 1 \in p..(n - 1) /\ j - 1 \in 0..((n - 1) - 1) /\ (j - 1) + 1 = j
      BY <2>4
    <3>2. w2[j - 1] = w[(j - 1) + 1]
      BY <3>1, <1>13
    <3> QED BY <3>1, <3>2, <2>1
  <2> QED BY <2>2, <2>3, <2>4
<1>17. \A j, k \in 0..((n - 1) - 1) : w2[j] = w2[k] => j = k
  <2> SUFFICES ASSUME NEW j \in 0..((n - 1) - 1), NEW k \in 0..((n - 1) - 1), w2[j] = w2[k]
               PROVE  j = k
    OBVIOUS
  <2> DEFINE Old(x) == IF x < p THEN x ELSE x + 1
  <2>1. ASSUME NEW x \in 0..((n - 1) - 1)
        PROVE  w2[x] = w[Old(x)] /\ Old(x) \in 0..(n - 1)
    <3>1. CASE x < p
      <4>1. x \in 0..(p - 1)
        BY <3>1
      <4> QED BY <4>1, <3>1, <1>13
    <3>2. CASE ~(x < p)
      <4>1. x \in p..(n - 1)
        BY <3>2
      <4> QED BY <4>1, <3>2, <1>13
    <3> QED BY <3>1, <3>2
  <2>2. Old(j) = Old(k)
    <3> HIDE DEF Old
    <3>1. /\ w2[j] = w[Old(j)] /\ Old(j) \in 0..(n - 1)
          /\ w2[k] = w[Old(k)] /\ Old(k) \in 0..(n - 1)
      BY <2>1
    <3>2. w[Old(j)] = w[Old(k)]
      BY <3>1
    <3> QED BY <3>1, <3>2, <1>2
  <2> QED BY <2>2
<1>18. \A k \in 0..((n - 1) - 1) : nd2[w2[k + 1]].prev = w2[k]
  <2> SUFFICES ASSUME NEW k \in 0..((n - 1) - 1) PROVE nd2[w2[k + 1]].prev = w2[k]
    OBVIOUS
  <2>0. /\ \A j \in 1..n : j # p => w[j] \in DOMAIN nd /\ w[j] # a
        /\ p \in 1..n /\ p + 1 \in 1..n
    <3>1. \A j \in 1..n : j = n \/ j \in 0..(n - 1)
      OBVIOUS
    <3>2. p \in 1..n /\ p + 1 \in 1..n
      OBVIOUS
    <3>3. w[n] \in DOMAIN nd
      BY <1>1, <1>2, <1>4
    <3> QED BY <3>1, <3>2, <3>3, <1>2, <1>3, <1>6
  <2>1. CASE k = p - 1
    <3>1. k \in 0..(p - 1) /\ k + 1 = p /\ p \in p..(n - 1) /\ p + 1 # p
      BY <2>1
    <3>2. w2[k] = w[p - 1] /\ w2[k + 1] = w[p + 1]
      BY <3>1, <2>1, <1>13
    <3>3. w[p + 1] \in DOMAIN nd /\ w[p + 1] # a
      BY <2>0, <3>1
    <3> QED BY <3>2, <3>3, <1>8
  <2>2. CASE k < p - 1
    <3>1. /\ k \in 0..(p - 1) /\ k + 1 \in 0..(p - 1) /\ k \in 0..(n - 1)
          /\ k + 1 \in 1..n /\ k + 1 # p /\ k + 1 # p + 1
      BY <2>2
    <3>2. w2[k] = w[k] /\ w2[k + 1] = w[k + 1]
      BY <3>1, <1>13
    <3>3. w[k + 1] \in DOMAIN nd /\ w[k + 1] # a /\ w[k + 1] # w[p + 1]
      BY <3>1, <2>0, <1>6
    <3>4. nd[w[k + 1]].prev = w[k]
      BY <3>1, <1>2
    <3> QED BY <3>2, <3>3, <3>4, <1>8
  <2>3. CASE k > p - 1
    <3>1. /\ k \in p..(n - 1) /\ k + 1 \in p..(n - 1) /\ k + 1 \in 0..(n - 1)
          /\ (k + 1) + 1 \in 1..n /\ (k + 1) + 1 # p /\ (k + 1) + 1 # p + 1
      BY <2>3
    <3>2. w2[k] = w[k + 1] /\ w2[k + 1] = w[(k + 1) + 1]
      BY <3>1, <1>13
    <3>3. /\ w[(k + 1) + 1] \in DOMAIN nd /\ w[(k + 1) + 1] # a
          /\ w[(k + 1) + 1] # w[p + 1]
      BY <3>1, <2>0, <1>6
    <3>4. nd[w[(k + 1) + 1]].prev = w[k + 1]
      BY <3>1, <1>2
    <3> QED BY <3>2, <3>3, <3>4, <1>8
  <2> QED BY <2>1, <2>2, <2>3
<1>19. Ring(nd2, h, n - 1)
  BY <1>4, <1>13, <1>15, <1>16, <1>17, <1>18 DEF Ring, w2
<1>20. h \in DOMAIN nd2
  <2>1. 0 \in 0..(n - 1) /\ 0 # p
    OBVIOUS
  <2> QED BY <2>1, <1>1, <1>2, <1>7, <1>10
<1>21. \A x \in DOMAIN nd2 : SameBook(nd2[x], nd[x])
  BY <1>7, <1>8
<1> QED BY <1>5, <1>7, <1>13, <1>19, <1>20, <1>21 DEF Shortened, w, w2

-----------------------------------------------------------------------------
(* A list of books: a finite ring of n nodes whose numbers ascend from the *)
(* head's 0 and never pass the last one given out.                         *)
Numbered(nd, h, n, last) ==
  /\ nd[h].id = 0
  /\ \A j, k \in 0..(n - 1) :
       j < k => nd[Follow(nd, h)[j]].id < nd[Follow(nd, h)[k]].id
  /\ \A k \in 0..(n - 1) :
       k <= nd[Follow(nd, h)[k]].id /\ nd[Follow(nd, h)[k]].id <= last
  /\ \A x \in DOMAIN nd : nd[x].text = nd[x].id

Sound(nd, h, n, last) ==
  /\ IsFiniteSet(DOMAIN nd) /\ n = Cardinality(DOMAIN nd)
  /\ DOMAIN nd \subseteq Addr /\ Typed(nd)
  /\ n \in Nat /\ n # 0
  /\ Ring(nd, h, n)
  /\ Numbered(nd, h, n, last)

LEMMA SoundHead ==
  ASSUME NEW a \in Addr, NEW nd,
         nd = [x \in {a} |-> [text |-> 0, id |-> 0, state |-> 0, next |-> a, prev |-> a]]
  PROVE  Sound(nd, a, 1, 0)
<1> DEFINE w == Follow(nd, a)
<1>1. w[0] = a /\ \A k \in Nat : w[k + 1] = nd[w[k]].next
  BY FollowStep
<1> HIDE DEF w
<1>2. /\ DOMAIN nd = {a}
      /\ nd[a] = [text |-> 0, id |-> 0, state |-> 0, next |-> a, prev |-> a]
  OBVIOUS
<1>3. w[0] = a /\ w[1] = a
  <2>1. w[0 + 1] = nd[w[0]].next
    BY <1>1
  <2> QED BY <2>1, <1>1, <1>2
<1>4. \A k \in 0..(1 - 1) : k = 0
  OBVIOUS
<1>5. Ring(nd, a, 1)
  BY <1>2, <1>3, <1>4 DEF Ring, w
<1>6. Numbered(nd, a, 1, 0)
  BY <1>2, <1>3, <1>4 DEF Numbered, w
<1>7. Typed(nd)
  BY <1>2, StockAssumption DEF Typed, Node
<1>8. IsFiniteSet({a}) /\ Cardinality({a}) = 1
  BY FS_Singleton
<1> QED BY <1>2, <1>5, <1>6, <1>7, <1>8 DEF Sound

(* A new book with the next number.                                        *)
LEMMA SoundCreated ==
  ASSUME NEW nd, NEW h, NEW n, NEW last \in Nat, Sound(nd, h, n, last),
         last + 1 \in 0..Rows, NEW a \in Addr, a \notin DOMAIN nd, NEW nd2,
         nd2 = Created(nd, h, a, last + 1, last + 1, 1)
  PROVE  Sound(nd2, h, n + 1, last + 1)
<1> DEFINE w == Follow(nd, h)
           w2 == Follow(nd2, h)
<1>0. nd2[a] = [text |-> last + 1, id |-> last + 1, state |-> 1,
               next |-> h, prev |-> nd[h].prev]
  BY DEF Created
<1>1. /\ n \in Nat /\ n # 0 /\ Ring(nd, h, n) /\ Typed(nd)
      /\ IsFiniteSet(DOMAIN nd) /\ n = Cardinality(DOMAIN nd) /\ DOMAIN nd \subseteq Addr
  BY DEF Sound
<1>2. /\ DOMAIN nd2 = DOMAIN nd \cup {a}
      /\ Ring(nd2, h, n + 1)
      /\ \A k \in 0..(n - 1) : w2[k] = w[k]
      /\ w2[n] = a
      /\ \A x \in DOMAIN nd : SameBook(nd2[x], nd[x])
      /\ nd[h].prev \in DOMAIN nd /\ h \in DOMAIN nd
  <2>1. Prolonged(nd, nd2, h, n, a)
    BY <1>1, Linked
  <2> QED BY <2>1 DEF Prolonged
<1>3. \A k \in 0..(n - 1) : w[k] \in DOMAIN nd
  BY <1>1 DEF Ring
<1>4. /\ nd[h].id = 0
      /\ \A j, k \in 0..(n - 1) : j < k => nd[w[j]].id < nd[w[k]].id
      /\ \A k \in 0..(n - 1) : k <= nd[w[k]].id /\ nd[w[k]].id <= last
      /\ \A x \in DOMAIN nd : nd[x].text = nd[x].id
  BY DEF Sound, Numbered
<1> HIDE DEF w, w2
<1>5. Typed(nd2)
  <2> SUFFICES ASSUME NEW x \in DOMAIN nd2 PROVE nd2[x] \in Node
    BY DEF Typed
  <2>1. CASE x = a
    <3>1. h \in Addr /\ nd[h].prev \in Addr
      BY <1>1, <1>2
    <3> QED BY <2>1, <3>1, <1>0 DEF Node
  <2>2. CASE x # a
    <3>1. x \in DOMAIN nd /\ nd[x] \in Node
      BY <2>2, <1>1, <1>2 DEF Typed
    <3>2. nd2[x] = [nd[x] EXCEPT !.next = IF x = nd[h].prev THEN a ELSE @,
                                 !.prev = IF x = h THEN a ELSE @]
      BY <3>1, <2>2 DEF Created
    <3> QED BY <3>1, <3>2 DEF Node
  <2> QED BY <2>1, <2>2
<1>6. \A x \in DOMAIN nd : nd2[x].id = nd[x].id /\ nd2[x].text = nd[x].text
  BY <1>2 DEF SameBook
<1>7. nd2[a].id = last + 1 /\ nd2[a].text = last + 1
  BY <1>0
<1>8. /\ \A k \in 0..(n - 1) : nd2[w2[k]].id = nd[w[k]].id
      /\ nd2[w2[n]].id = last + 1
  BY <1>2, <1>3, <1>6, <1>7
<1>9. \A x \in DOMAIN nd : nd[x].id \in Nat
  BY <1>1 DEF Typed, Node
<1>10. n <= last + 1
  <2>1. n - 1 \in 0..(n - 1)
    BY <1>1
  <2>2. n - 1 <= nd[w[n - 1]].id /\ nd[w[n - 1]].id <= last /\ nd[w[n - 1]].id \in Nat
    BY <2>1, <1>3, <1>4, <1>9
  <2> QED BY <2>2, <1>1
<1>11. \A k \in 0..((n + 1) - 1) : k \in 0..(n - 1) \/ k = n
  BY <1>1
<1>12. \A j, k \in 0..((n + 1) - 1) : j < k => nd2[w2[j]].id < nd2[w2[k]].id
  <2> SUFFICES ASSUME NEW j \in 0..((n + 1) - 1), NEW k \in 0..((n + 1) - 1), j < k
               PROVE  nd2[w2[j]].id < nd2[w2[k]].id
    OBVIOUS
  <2>1. j \in 0..(n - 1)
    BY <1>1
  <2>2. CASE k = n
    <3>1. nd2[w2[j]].id = nd[w[j]].id /\ nd[w[j]].id <= last /\ nd[w[j]].id \in Nat
      BY <2>1, <1>3, <1>4, <1>8, <1>9
    <3> QED BY <3>1, <2>2, <1>8
  <2>3. CASE k # n
    <3>1. k \in 0..(n - 1)
      BY <2>3, <1>11
    <3> QED BY <3>1, <2>1, <1>4, <1>8
  <2> QED BY <2>2, <2>3
<1>13. \A k \in 0..((n + 1) - 1) : k <= nd2[w2[k]].id /\ nd2[w2[k]].id <= last + 1
  <2> SUFFICES ASSUME NEW k \in 0..((n + 1) - 1)
               PROVE  k <= nd2[w2[k]].id /\ nd2[w2[k]].id <= last + 1
    OBVIOUS
  <2>1. CASE k = n
    BY <2>1, <1>8, <1>10
  <2>2. CASE k # n
    <3>1. k \in 0..(n - 1)
      BY <2>2, <1>11
    <3>2. nd2[w2[k]].id = nd[w[k]].id /\ nd[w[k]].id \in Nat
      BY <3>1, <1>3, <1>8, <1>9
    <3>3. k <= nd[w[k]].id /\ nd[w[k]].id <= last
      BY <3>1, <1>4
    <3> QED BY <3>2, <3>3
  <2> QED BY <2>1, <2>2
<1>14. Numbered(nd2, h, n + 1, last + 1)
  <2>1. nd2[h].id = 0
    BY <1>2, <1>4, <1>6
  <2>2. \A x \in DOMAIN nd2 : nd2[x].text = nd2[x].id
    BY <1>2, <1>4, <1>6, <1>7
  <2> QED BY <2>1, <2>2, <1>12, <1>13 DEF Numbered, w2
<1>15. IsFiniteSet(DOMAIN nd2) /\ Cardinality(DOMAIN nd2) = n + 1
  BY <1>1, <1>2, FS_AddElement
<1>16. n + 1 \in Nat /\ n + 1 # 0 /\ DOMAIN nd2 \subseteq Addr
  BY <1>1, <1>2
<1> QED BY <1>2, <1>5, <1>14, <1>15, <1>16 DEF Sound

(* A book that is struck off.                                              *)
LEMMA SoundDeleted ==
  ASSUME NEW nd, NEW h, NEW n, NEW last \in Nat, Sound(nd, h, n, last),
         NEW p \in 1..(n - 1), NEW a, a = Follow(nd, h)[p], NEW nd2, nd2 = Deleted(nd, a)
  PROVE  Sound(nd2, h, n - 1, last)
<1> DEFINE w == Follow(nd, h)
           w2 == Follow(nd2, h)
<1>1. /\ n \in Nat /\ n # 0 /\ Ring(nd, h, n) /\ Typed(nd)
      /\ IsFiniteSet(DOMAIN nd) /\ n = Cardinality(DOMAIN nd) /\ DOMAIN nd \subseteq Addr
  BY DEF Sound
<1>2. /\ DOMAIN nd2 = DOMAIN nd \ {a}
      /\ Ring(nd2, h, n - 1)
      /\ \A k \in 0..(p - 1) : w2[k] = w[k]
      /\ \A k \in p..(n - 1) : w2[k] = w[k + 1]
      /\ \A x \in DOMAIN nd2 : SameBook(nd2[x], nd[x])
      /\ a \in DOMAIN nd /\ h \in DOMAIN nd2
  <2>1. Shortened(nd, nd2, h, n, p, a)
    BY <1>1, Unlinked
  <2> QED BY <2>1 DEF Shortened
<1>3. \A k \in 0..(n - 1) : w[k] \in DOMAIN nd
  BY <1>1 DEF Ring
<1>4. /\ nd[h].id = 0
      /\ \A j, k \in 0..(n - 1) : j < k => nd[w[j]].id < nd[w[k]].id
      /\ \A k \in 0..(n - 1) : k <= nd[w[k]].id /\ nd[w[k]].id <= last
      /\ \A x \in DOMAIN nd : nd[x].text = nd[x].id
  BY DEF Sound, Numbered
<1> HIDE DEF w, w2
<1>5. Typed(nd2)
  <2> SUFFICES ASSUME NEW x \in DOMAIN nd2 PROVE nd2[x] \in Node
    BY DEF Typed
  <2>1. x \in DOMAIN nd /\ x # a /\ nd[x] \in Node /\ nd[a] \in Node
    BY <1>1, <1>2 DEF Typed
  <2>2. nd2[x] = [nd[x] EXCEPT !.next = IF x = nd[a].prev THEN nd[a].next ELSE @,
                               !.prev = IF x = nd[a].next THEN nd[a].prev ELSE @]
    BY <2>1 DEF Deleted
  <2> QED BY <2>1, <2>2 DEF Node
<1>6. \A x \in DOMAIN nd2 : nd2[x].id = nd[x].id /\ nd2[x].text = nd[x].text
  BY <1>2 DEF SameBook
<1>7. \A x \in DOMAIN nd : nd[x].id \in Nat
  BY <1>1 DEF Typed, Node
<1> DEFINE Old(k) == IF k < p THEN k ELSE k + 1
<1>8. ASSUME NEW k \in 0..((n - 1) - 1)
      PROVE  /\ Old(k) \in 0..(n - 1) /\ k <= Old(k)
             /\ w2[k] = w[Old(k)]
             /\ nd2[w2[k]].id = nd[w[Old(k)]].id
  <2>1. Old(k) \in 0..(n - 1) /\ k <= Old(k)
    BY <1>1
  <2>2. w2[k] = w[Old(k)]
    <3>1. CASE k < p
      <4>1. k \in 0..(p - 1)
        BY <3>1
      <4> QED BY <4>1, <3>1, <1>2
    <3>2. CASE ~(k < p)
      <4>1. k \in p..(n - 1)
        BY <3>2, <1>1
      <4> QED BY <4>1, <3>2, <1>2
    <3> QED BY <3>1, <3>2
  <2>3. w2[k] \in DOMAIN nd2
    BY <1>2 DEF Ring, w2
  <2> QED BY <2>1, <2>2, <2>3, <1>6
<1>9. \A j, k \in 0..((n - 1) - 1) : j < k => nd2[w2[j]].id < nd2[w2[k]].id
  <2> SUFFICES ASSUME NEW j \in 0..((n - 1) - 1), NEW k \in 0..((n - 1) - 1), j < k
               PROVE  nd2[w2[j]].id < nd2[w2[k]].id
    OBVIOUS
  <2>1. Old(j) < Old(k)
    BY <1>1
  <2> HIDE DEF Old
  <2>2. /\ Old(j) \in 0..(n - 1) /\ nd2[w2[j]].id = nd[w[Old(j)]].id
        /\ Old(k) \in 0..(n - 1) /\ nd2[w2[k]].id = nd[w[Old(k)]].id
    BY <1>8
  <2> QED BY <2>1, <2>2, <1>4
<1>10. \A k \in 0..((n - 1) - 1) : k <= nd2[w2[k]].id /\ nd2[w2[k]].id <= last
  <2> SUFFICES ASSUME NEW k \in 0..((n - 1) - 1)
               PROVE  k <= nd2[w2[k]].id /\ nd2[w2[k]].id <= last
    OBVIOUS
  <2> HIDE DEF Old
  <2>1. /\ Old(k) \in 0..(n - 1) /\ k <= Old(k)
        /\ nd2[w2[k]].id = nd[w[Old(k)]].id
    BY <1>8
  <2>2. /\ Old(k) <= nd[w[Old(k)]].id /\ nd[w[Old(k)]].id <= last
        /\ nd[w[Old(k)]].id \in Nat
    BY <2>1, <1>3, <1>4, <1>7
  <2> QED BY <2>1, <2>2
<1>11. Numbered(nd2, h, n - 1, last)
  <2>1. nd2[h].id = 0
    BY <1>2, <1>4, <1>6
  <2>2. \A x \in DOMAIN nd2 : nd2[x].text = nd2[x].id
    BY <1>2, <1>4, <1>6
  <2> QED BY <2>1, <2>2, <1>9, <1>10 DEF Numbered, w2
<1>12. IsFiniteSet(DOMAIN nd2) /\ Cardinality(DOMAIN nd2) = n - 1
  BY <1>1, <1>2, FS_RemoveElement
<1>13. n - 1 \in Nat /\ n - 1 # 0 /\ DOMAIN nd2 \subseteq Addr
  BY <1>1, <1>2
<1> QED BY <1>2, <1>5, <1>11, <1>12, <1>13 DEF Sound

Marked(nd, nd2, h, n, b, s) ==
  /\ DOMAIN nd2 = DOMAIN nd
  /\ \A k \in 0..n : Follow(nd2, h)[k] = Follow(nd, h)[k]
  /\ \A x \in DOMAIN nd : /\ nd2[x].id = nd[x].id /\ nd2[x].text = nd[x].text
                          /\ nd2[x].state = IF x = b THEN s ELSE nd[x].state

(* A book that is marked: nothing but its state changes.                   *)
LEMMA SoundMarked ==
  ASSUME NEW nd, NEW h, NEW n, NEW last, Sound(nd, h, n, last),
         NEW b \in DOMAIN nd, NEW s \in {0, 1}, NEW nd2, nd2 = [nd EXCEPT ![b].state = s]
  PROVE  Sound(nd2, h, n, last) /\ Marked(nd, nd2, h, n, b, s)
<1> DEFINE w == Follow(nd, h)
           w2 == Follow(nd2, h)
<1>1. /\ n \in Nat /\ n # 0 /\ Ring(nd, h, n) /\ Typed(nd) /\ Numbered(nd, h, n, last)
      /\ IsFiniteSet(DOMAIN nd) /\ n = Cardinality(DOMAIN nd) /\ DOMAIN nd \subseteq Addr
  BY DEF Sound
<1>2. DOMAIN nd2 = DOMAIN nd
  OBVIOUS
<1>3. \A x \in DOMAIN nd : nd2[x] = IF x = b THEN [nd[x] EXCEPT !.state = s] ELSE nd[x]
  OBVIOUS
<1>4. ASSUME NEW x \in DOMAIN nd
      PROVE  /\ nd2[x] \in Node
             /\ nd2[x].id = nd[x].id /\ nd2[x].text = nd[x].text
             /\ nd2[x].next = nd[x].next /\ nd2[x].prev = nd[x].prev
             /\ nd2[x].state = IF x = b THEN s ELSE nd[x].state
  <2>1. nd[x] \in Node
    BY <1>1 DEF Typed
  <2>2. CASE x = b
    <3>1. nd2[x] = [nd[x] EXCEPT !.state = s]
      BY <1>3, <2>2
    <3> QED BY <2>1, <2>2, <3>1 DEF Node
  <2>3. CASE x # b
    BY <1>3, <2>1, <2>3
  <2> QED BY <2>2, <2>3
<1>5. /\ w[0] = h /\ \A k \in Nat : w[k + 1] = nd[w[k]].next
  BY FollowStep
<1>6. /\ \A k \in 0..(n - 1) : w[k] \in DOMAIN nd
      /\ \A a \in DOMAIN nd : \E k \in 0..(n - 1) : a = w[k]
      /\ \A j, k \in 0..(n - 1) : w[j] = w[k] => j = k
      /\ w[n] = h
      /\ \A k \in 0..(n - 1) : nd[w[k + 1]].prev = w[k]
  BY <1>1 DEF Ring
<1> HIDE DEF w
<1>7. \A k \in 0..(n - 1) : w[k + 1] = nd2[w[k]].next
  <2>1. \A k \in 0..(n - 1) : k \in Nat
    BY <1>1
  <2> QED BY <2>1, <1>4, <1>5, <1>6
<1>8. \A k \in 0..n : w2[k] = w[k]
  <2>1. w[0] = h /\ n \in Nat
    BY <1>1, <1>5
  <2>2. \A k \in 0..n : Follow(nd2, h)[k] = w[k]
    BY ONLY <2>1, <1>7, FollowIs
  <2> QED BY <2>2
<1> HIDE DEF w2
<1>9. \A k \in 0..n : w[k] \in DOMAIN nd
  <2>1. \A k \in 0..n : k = n \/ k \in 0..(n - 1)
    BY <1>1
  <2>2. 0 \in 0..(n - 1)
    BY <1>1
  <2>3. w[n] = w[0]
    BY <1>5, <1>6
  <2> QED BY <2>1, <2>2, <2>3, <1>6
<1>10. \A k \in 0..(n - 1) : k \in 0..n /\ k + 1 \in 0..n
  BY <1>1
<1>11. Ring(nd2, h, n)
  <2>1. \A k \in 0..(n - 1) : w2[k] = w[k] /\ w2[k + 1] = w[k + 1]
    BY <1>8, <1>10
  <2>2. w2[n] = h
    BY <1>1, <1>6, <1>8
  <2>3. \A k \in 0..(n - 1) : nd2[w2[k + 1]].prev = w2[k]
    BY <2>1, <1>4, <1>6, <1>9, <1>10
  <2>4. /\ \A k \in 0..(n - 1) : w2[k] \in DOMAIN nd2
        /\ \A a \in DOMAIN nd2 : \E k \in 0..(n - 1) : a = w2[k]
        /\ \A j, k \in 0..(n - 1) : w2[j] = w2[k] => j = k
    BY <2>1, <1>2, <1>6
  <2> QED BY <2>2, <2>3, <2>4, <1>1 DEF Ring, w2
<1>12. Numbered(nd2, h, n, last)
  <2>1. \A k \in 0..(n - 1) : nd2[w2[k]].id = nd[w[k]].id
    BY <1>4, <1>6, <1>8, <1>10
  <2>2. h \in DOMAIN nd
    BY <1>1, <1>6, <1>9
  <2>3. /\ nd[h].id = 0
        /\ \A j, k \in 0..(n - 1) : j < k => nd[w[j]].id < nd[w[k]].id
        /\ \A k \in 0..(n - 1) : k <= nd[w[k]].id /\ nd[w[k]].id <= last
        /\ \A x \in DOMAIN nd : nd[x].text = nd[x].id
    BY <1>1 DEF Numbered, w
  <2>4. nd2[h].id = 0 /\ \A x \in DOMAIN nd2 : nd2[x].text = nd2[x].id
    BY <2>2, <2>3, <1>2, <1>4
  <2>5. /\ \A j, k \in 0..(n - 1) : j < k => nd2[w2[j]].id < nd2[w2[k]].id
        /\ \A k \in 0..(n - 1) : k <= nd2[w2[k]].id /\ nd2[w2[k]].id <= last
    BY <2>1, <2>3
  <2> QED BY <2>4, <2>5 DEF Numbered, w2
<1>13. Typed(nd2)
  BY <1>2, <1>4 DEF Typed
<1> QED BY <1>1, <1>2, <1>4, <1>8, <1>11, <1>12, <1>13 DEF Sound, Marked, w, w2

(* Numbers that are used up do no harm.                                    *)
LEMMA SoundLater ==
  ASSUME NEW nd, NEW h, NEW n, NEW last \in Nat, NEW later \in Nat, last <= later,
         Sound(nd, h, n, last)
  PROVE  Sound(nd, h, n, later)
<1>1. ASSUME NEW k \in 0..(n - 1) PROVE nd[Follow(nd, h)[k]].id <= later
  <2>1. Follow(nd, h)[k] \in DOMAIN nd
    BY DEF Sound, Ring
  <2>2. nd[Follow(nd, h)[k]].id \in Nat
    BY <2>1 DEF Sound, Typed, Node
  <2>3. nd[Follow(nd, h)[k]].id <= last
    BY DEF Sound, Numbered
  <2> QED BY <2>2, <2>3
<1> QED BY <1>1 DEF Sound, Numbered

LEMMA SoundFacts ==
  ASSUME NEW nd, NEW h, NEW n, NEW last \in Nat, Sound(nd, h, n, last)
  PROVE  /\ DOMAIN nd \subseteq Addr /\ \A a \in DOMAIN nd : nd[a] \in Node
         /\ h \in DOMAIN nd /\ nd[h].id = 0
         /\ n \in Nat /\ n # 0 /\ n = Cardinality(DOMAIN nd) /\ n <= last + 1
<1>1. n \in Nat /\ n # 0
  BY DEF Sound
<1>2. 0 \in 0..(n - 1) /\ n - 1 \in 0..(n - 1)
  BY <1>1
<1>3. Follow(nd, h)[0] = h
  BY FollowStep
<1>4. h \in DOMAIN nd
  BY <1>2, <1>3 DEF Sound, Ring
<1>5. n - 1 <= nd[Follow(nd, h)[n - 1]].id /\ nd[Follow(nd, h)[n - 1]].id <= last
  BY <1>2 DEF Sound, Numbered
<1>6. nd[Follow(nd, h)[n - 1]].id \in Nat
  <2>1. Follow(nd, h)[n - 1] \in DOMAIN nd
    BY <1>2 DEF Sound, Ring
  <2> QED BY <2>1 DEF Sound, Typed, Node
<1>7. n <= last + 1
  BY <1>1, <1>5, <1>6
<1> QED BY <1>1, <1>4, <1>7 DEF Sound, Typed, Numbered

-----------------------------------------------------------------------------
(* The invariant.  Until the change page starts, the numbers given out are *)
(* those of book_system_init; from then on book_num counts the ring.       *)
Last == IF change_id # 0 THEN change_id ELSE IF i = 0 THEN 0 ELSE i - 1

Table == [r \in 0..Rows |-> IF r \in DOMAIN InitNames THEN InitNames[r] ELSE NULL]

Inv ==
  /\ TypeOK
  /\ book_head = NULL => DOMAIN node = {} /\ i = 0 /\ change_id = 0
  /\ book_head # NULL => i # 0 /\ Sound(node, book_head, Size, Last)
  /\ change_id = 0 => /\ book_num = Len(InitNames) /\ name = Table
                      /\ book_head # NULL => Size = i
  /\ change_id # 0 => Booted /\ book_num = Size - 1

LEMMA WalkFollows == Walk = Follow(node, book_head)
BY DEF Walk, Follow

LEMMA NamesType ==
  /\ Len(InitNames) \in Nat /\ Len(InitNames) >= 1 /\ Len(InitNames) <= Rows
  /\ Rows \in Nat /\ Rows <= 255 /\ DOMAIN InitNames = 1..Len(InitNames)
  /\ Table \in [0..Rows -> Name \cup {NULL}]
<1>1. /\ Len(InitNames) \in Nat /\ Len(InitNames) >= 1 /\ Len(InitNames) <= Rows
      /\ Rows \in Nat /\ Rows <= 255
  BY StockAssumption
<1>2. DOMAIN InitNames = 1..Len(InitNames) /\ \A r \in DOMAIN InitNames : InitNames[r] \in Name
  BY StockAssumption, LenProperties, ElementOfSeq
<1>3. Table \in [0..Rows -> Name \cup {NULL}]
  BY <1>2 DEF Table
<1> QED BY <1>1, <1>2, <1>3

LEMMA LastType ==
  ASSUME TypeOK
  PROVE  Last \in Nat /\ Rows \in Nat /\ i \in Nat /\ change_id \in Nat
BY StockAssumption DEF TypeOK, Last

(* The search ends at the first node looked for, or at the head.           *)
LEMMA Searched ==
  ASSUME Sound(node, book_head, Size, Last), NEW nodes
  PROVE  \E p \in 1..Size :
           /\ Search(nodes) = Walk[p]
           /\ Walk[p] \in nodes \cup {book_head}
           /\ \A j \in 1..(p - 1) : Walk[j] \notin nodes \cup {book_head}
<1> DEFINE w == Walk
           wanted == nodes \cup {book_head}
           T == {k \in 1..Size : w[k] \in wanted}
<1>1. Size \in Nat /\ Size # 0 /\ w[Size] = book_head
  BY WalkFollows DEF Sound, Ring
<1>2. Size \in T /\ T \subseteq Nat
  BY <1>1
<1>3. PICK p \in T : \A y \in T : p <= y
  <2> HIDE DEF T
  <2> QED BY <1>2, Least
<1>4. p \in 1..Size /\ w[p] \in wanted /\ \A j \in 1..(p - 1) : w[j] \notin wanted
  <2>1. ASSUME NEW j \in 1..(p - 1), w[j] \in wanted PROVE FALSE
    <3>1. j \in T /\ ~(p <= j)
      BY <2>1, <1>1
    <3> QED BY <3>1, <1>3
  <2> HIDE DEF wanted, w
  <2> QED BY <2>1, <1>3
<1> DEFINE First(k) == w[k] \in wanted /\ \A j \in 1..(k - 1) : w[j] \notin wanted
<1>5. Search(nodes) = w[CHOOSE k \in 1..Size : First(k)]
  BY DEF Search, Size
<1>6. PICK q \in 1..Size : q = (CHOOSE k \in 1..Size : First(k)) /\ First(q)
  <2>1. \E k \in 1..Size : First(k)
    BY <1>4
  <2> HIDE DEF First
  <2> QED BY <2>1
<1>7. Search(nodes) = w[q]
  <2> HIDE DEF First, w
  <2> QED BY <1>5, <1>6
<1> QED BY <1>6, <1>7

(* Each step keeps the invariant.                                          *)
LEMMA MakeHeadInv ==
  ASSUME Inv, MakeHead
  PROVE  Inv'
<1>1. PICK a \in Free :
        /\ book_head' = a
        /\ node' = [x \in {a} |-> [text |-> 0, id |-> 0, state |-> 0, next |-> a, prev |-> a]]
  BY DEF MakeHead
<1>2. /\ book_head = NULL /\ change_id = 0 /\ i' = 1
      /\ book_num' = book_num /\ name' = name /\ change_id' = change_id
      /\ book_num = Len(InitNames) /\ name = Table /\ TypeOK
  BY DEF MakeHead, Inv
<1>3. a \in Addr /\ a # NULL /\ Last' = 0
  BY <1>1, <1>2, StockAssumption DEF Free, Last
<1>4. Sound(node', book_head', 1, 0)
  BY <1>1, <1>3, SoundHead
<1>5. Size' = 1
  BY <1>4 DEF Sound, Size
<1>6. TypeOK'
  <2>1. /\ DOMAIN node' \subseteq Addr /\ \A x \in DOMAIN node' : node'[x] \in Node
        /\ book_head' \in DOMAIN node'
    BY <1>4, SoundFacts
  <2>2. 1 \in 0..(Len(InitNames) + 1)
    BY NamesType
  <2> QED BY <2>1, <2>2, <1>2 DEF TypeOK
<1> QED BY <1>1, <1>2, <1>3, <1>4, <1>5, <1>6 DEF Inv

LEMMA MakeBookInv ==
  ASSUME Inv, MakeBook
  PROVE  Inv'
<1>1. PICK a \in Free : node' = create_book_item(a, i, i, 1)
  BY DEF MakeBook
<1>2. /\ book_head # NULL /\ change_id = 0 /\ i <= book_num /\ i' = i + 1
      /\ book_head' = book_head /\ book_num' = book_num /\ name' = name
      /\ change_id' = change_id
      /\ book_num = Len(InitNames) /\ name = Table /\ Size = i /\ i # 0 /\ TypeOK
      /\ Sound(node, book_head, Size, Last)
  BY DEF MakeBook, Inv
<1>3. /\ i \in Nat /\ Last = i - 1 /\ Last \in Nat /\ Last + 1 = i /\ Last' = i
      /\ Last + 1 \in 0..Rows /\ i + 1 \in 0..(Len(InitNames) + 1)
  BY <1>2, NamesType DEF Last, TypeOK
<1>4. node' = Created(node, book_head, a, Last + 1, Last + 1, 1)
  BY <1>1, <1>3 DEF create_book_item, Created
<1>5. Sound(node', book_head, Size + 1, Last + 1)
  <2>1. a \in Addr /\ a \notin DOMAIN node
    BY DEF Free
  <2> QED BY <2>1, <1>2, <1>3, <1>4, SoundCreated
<1>6. Size' = Size + 1
  BY <1>5 DEF Sound, Size
<1>7. TypeOK'
  <2>1. /\ DOMAIN node' \subseteq Addr /\ \A x \in DOMAIN node' : node'[x] \in Node
        /\ book_head \in DOMAIN node'
    BY <1>3, <1>5, SoundFacts
  <2> QED BY <2>1, <1>2, <1>3 DEF TypeOK
<1>8. Sound(node', book_head', Size', Last')
  BY <1>2, <1>3, <1>5, <1>6
<1>9. Size' = i' /\ i' # 0
  BY <1>2, <1>3, <1>6
<1> QED BY <1>2, <1>7, <1>8, <1>9 DEF Inv

LEMMA StartChangeInv ==
  ASSUME Inv, StartChange
  PROVE  Inv'
<1>1. /\ Booted /\ change_id = 0 /\ change_id' = book_num % 256
      /\ UNCHANGED <<node, book_head, book_num, name, i>>
      /\ book_num = Len(InitNames) /\ Size = i /\ TypeOK
      /\ book_head # NULL /\ i # 0
      /\ Sound(node, book_head, Size, Last)
  BY DEF StartChange, Booted, Inv
<1>2. /\ change_id' = Len(InitNames) /\ change_id' # 0 /\ change_id' \in 0..Rows
      /\ i = Len(InitNames) + 1
  BY <1>1, NamesType DEF TypeOK, Booted
<1>3. Last = Len(InitNames) /\ Last' = Last
  BY <1>1, <1>2, NamesType DEF Last
<1>4. book_num' = Size' - 1
  BY <1>1, <1>2, NamesType DEF Size
<1>5. TypeOK' /\ Booted' /\ Size' = Size
  BY <1>1, <1>2 DEF TypeOK, Booted, Size
<1> QED BY <1>1, <1>2, <1>3, <1>4, <1>5 DEF Inv

LEMMA AddInv ==
  ASSUME Inv, NEW n \in Name, Add(n)
  PROVE  Inv'
<1>1. /\ Booted /\ change_id # 0 /\ change_id < Rows /\ change_id' = change_id + 1
      /\ name' = [name EXCEPT ![change_id'] = n]
      /\ book_head' = book_head /\ i' = i
      /\ book_num = Size - 1 /\ TypeOK /\ book_head # NULL /\ i # 0
      /\ Sound(node, book_head, Size, Last)
  BY DEF Add, Changing, Booted, Inv
<1>2. /\ Last \in Nat /\ Last = change_id /\ Last' = Last + 1 /\ Last + 1 = change_id'
      /\ Last + 1 \in 0..Rows /\ change_id' # 0 /\ Booted'
  BY <1>1, LastType DEF Last, Booted, TypeOK
<1>3. name' \in [0..Rows -> Name \cup {NULL}]
  BY <1>1 DEF TypeOK
<1>4. Sound(node', book_head, Size', Last') /\ book_num' = Size' - 1
  <2>1. CASE \E a \in Free : /\ node' = create_book_item(a, change_id', change_id', 1)
                             /\ book_num' = book_num + 1
    <3>1. PICK a \in Free : /\ node' = create_book_item(a, change_id', change_id', 1)
                            /\ book_num' = book_num + 1
      BY <2>1
    <3>2. node' = Created(node, book_head, a, Last + 1, Last + 1, 1)
      BY <3>1, <1>2 DEF create_book_item, Created
    <3>3. a \in Addr /\ a \notin DOMAIN node
      BY DEF Free
    <3>4. Sound(node', book_head, Size + 1, Last + 1)
      BY <3>2, <3>3, <1>1, <1>2, SoundCreated
    <3>5. Size' = Size + 1 /\ Size \in Nat
      BY <3>4, <1>1 DEF Sound, Size
    <3> QED BY <3>1, <3>4, <3>5, <1>1, <1>2
  <2>2. CASE node' = node /\ book_num' = book_num
    <3>1. Sound(node, book_head, Size, Last + 1)
      BY <1>1, <1>2, SoundLater
    <3>2. Size' = Size
      BY <2>2 DEF Size
    <3> QED BY <2>2, <3>1, <3>2, <1>1, <1>2
  <2> QED BY <2>1, <2>2 DEF Add
<1>5. /\ DOMAIN node' \subseteq Addr /\ \A x \in DOMAIN node' : node'[x] \in Node
      /\ book_head \in DOMAIN node'
      /\ Size' \in Nat /\ Size' # 0 /\ Size' <= Last' + 1
  BY <1>2, <1>4, SoundFacts
<1>6. book_num' \in 0..Rows
  <2>1. Last' \in 0..Rows /\ Rows \in Nat
    BY <1>2, NamesType
  <2>2. book_num' = Size' - 1
    BY <1>4
  <2>3. Size' \in Nat /\ Size' # 0 /\ Size' <= Last' + 1
    BY <1>5
  <2>4. \A x \in Nat, y \in 0..Rows : x # 0 /\ x <= y + 1 => x - 1 \in 0..Rows
    BY <2>1
  <2> QED BY ONLY <2>1, <2>2, <2>3, <2>4
<1>7. TypeOK'
  BY <1>1, <1>2, <1>3, <1>5, <1>6 DEF TypeOK
<1> QED BY <1>1, <1>2, <1>4, <1>7 DEF Inv

(* What Delete takes out is a book in the ring, the first of its name.     *)
LEMMA Struck ==
  ASSUME Inv, NEW n, Delete(n)
  PROVE  \E p \in 1..(Size - 1) :
           /\ node' = Deleted(node, Walk[p])
           /\ name[node[Walk[p]].text] = n
           /\ \A j \in 1..(p - 1) : Walk[j] \in DOMAIN node => name[node[Walk[j]].text] # n
<1> DEFINE nodes == {x \in DOMAIN node : name[node[x].text] = n}
<1>1. book_head # NULL /\ Sound(node, book_head, Size, Last) /\ TypeOK
  BY DEF Delete, Changing, Booted, Inv
<1>2. node[Search(nodes)].id # 0 /\ node' = delete_book(Search(nodes))
  BY DEF Delete, book_find
<1> HIDE DEF nodes
<1>3. PICK p \in 1..Size : /\ Search(nodes) = Walk[p]
                           /\ Walk[p] \in nodes \cup {book_head}
                           /\ \A j \in 1..(p - 1) : Walk[j] \notin nodes \cup {book_head}
  BY <1>1, Searched
<1>4. /\ Size \in Nat /\ node[book_head].id = 0 /\ Last \in Nat
  BY <1>1, LastType, SoundFacts
<1>5. Walk[Size] = book_head
  BY <1>1, WalkFollows DEF Sound, Ring
<1>6. Walk[p] # book_head /\ p # Size
  BY <1>2, <1>3, <1>4, <1>5
<1>7. p \in 1..(Size - 1)
  BY <1>4, <1>6
<1>8. Walk[p] \in nodes /\ \A j \in 1..(p - 1) : Walk[j] \notin nodes
  BY <1>3, <1>6
<1>9. node' = Deleted(node, Walk[p])
  BY <1>2, <1>3 DEF delete_book, Deleted
<1> QED BY <1>7, <1>8, <1>9 DEF nodes

LEMMA DeleteInv ==
  ASSUME Inv, NEW n \in Name, Delete(n)
  PROVE  Inv'
<1>1. /\ Booted /\ change_id # 0 /\ book_num' = book_num - 1
      /\ UNCHANGED <<book_head, name, change_id, i>>
      /\ book_num = Size - 1 /\ TypeOK /\ book_head # NULL /\ i # 0
      /\ Sound(node, book_head, Size, Last)
  BY DEF Delete, Changing, Booted, Inv
<1>2. PICK p \in 1..(Size - 1) : node' = Deleted(node, Walk[p])
  BY Struck
<1>3. Last \in Nat /\ Last' = Last
  BY <1>1, LastType DEF Last
<1>4. Sound(node', book_head, Size - 1, Last)
  BY <1>1, <1>2, <1>3, WalkFollows, SoundDeleted
<1>5. Size' = Size - 1
  BY <1>4 DEF Sound, Size
<1>6. /\ DOMAIN node' \subseteq Addr /\ \A x \in DOMAIN node' : node'[x] \in Node
      /\ book_head \in DOMAIN node'
      /\ Size - 1 \in Nat /\ Size - 1 # 0
  BY <1>3, <1>4, SoundFacts
<1>7. book_num' = Size' - 1 /\ book_num' \in 0..Rows
  BY <1>1, <1>5, <1>6, LastType DEF TypeOK
<1>8. TypeOK' /\ Booted'
  BY <1>1, <1>6, <1>7 DEF TypeOK, Booted
<1>9. Sound(node', book_head', Size', Last')
  BY <1>1, <1>3, <1>4, <1>5
<1> QED BY <1>1, <1>7, <1>8, <1>9 DEF Inv

LEMMA MarkInv ==
  ASSUME Inv, NEW id, NEW s \in {0, 1}, Mark(id, s)
  PROVE  Inv'
<1>1. /\ Booted /\ UNCHANGED <<book_head, book_num, name, change_id, i>>
      /\ TypeOK /\ book_head # NULL /\ i # 0
      /\ Sound(node, book_head, Size, Last)
  BY DEF Mark, Booted, Inv
<1>2. PICK b \in DOMAIN node : node' = [node EXCEPT ![b].state = s]
  <2> DEFINE nodes == {a \in DOMAIN node : node[a].id = id}
  <2>1. node' = [node EXCEPT ![Search(nodes)].state = s]
    BY DEF Mark, book_id_find
  <2>2. nodes \subseteq DOMAIN node
    OBVIOUS
  <2> HIDE DEF nodes
  <2>3. Search(nodes) \in nodes \cup {book_head}
    BY <1>1, Searched
  <2>4. book_head \in DOMAIN node
    BY <1>1, LastType, SoundFacts
  <2> QED BY <2>1, <2>2, <2>3, <2>4
<1>3. Last \in Nat /\ Last' = Last
  BY <1>1, LastType DEF Last
<1>4. Sound(node', book_head, Size, Last) /\ DOMAIN node' = DOMAIN node
  <2>1. Sound(node', book_head, Size, Last) /\ Marked(node, node', book_head, Size, b, s)
    BY <1>1, <1>2, SoundMarked
  <2> QED BY <2>1 DEF Marked
<1>5. Size' = Size
  BY <1>4 DEF Size
<1>6. /\ DOMAIN node' \subseteq Addr /\ \A x \in DOMAIN node' : node'[x] \in Node
      /\ book_head \in DOMAIN node'
  BY <1>3, <1>4, SoundFacts
<1>7. TypeOK' /\ Booted'
  BY <1>1, <1>6 DEF TypeOK, Booted
<1>8. Sound(node', book_head', Size', Last')
  BY <1>1, <1>3, <1>4, <1>5
<1> QED BY <1>1, <1>5, <1>7, <1>8 DEF Inv

LEMMA InvCorrect == Spec => []Inv
<1>1. Init => Inv
  <2> SUFFICES ASSUME Init PROVE Inv
    OBVIOUS
  <2>1. name = Table
    BY DEF Init, Table
  <2>2. /\ DOMAIN node = {} /\ book_head = NULL /\ i = 0 /\ change_id = 0
        /\ book_num = Len(InitNames)
    BY DEF Init
  <2>3. TypeOK
    BY <2>1, <2>2, NamesType DEF TypeOK
  <2> QED BY <2>1, <2>2, <2>3 DEF Inv
<1>2. Inv /\ [Next]_vars => Inv'
  <2> SUFFICES ASSUME Inv, [Next]_vars PROVE Inv'
    OBVIOUS
  <2>1. CASE UNCHANGED vars
    BY <2>1 DEF Inv, TypeOK, Size, Last, Booted, vars
  <2> QED
    BY <2>1, MakeHeadInv, MakeBookInv, StartChangeInv, AddInv, DeleteInv, MarkInv DEF Next
<1> QED BY <1>1, <1>2, PTL DEF Spec

-----------------------------------------------------------------------------
(* Types: no number, row or count leaves its range, whatever is typed and  *)
(* whether malloc succeeds or not (book.c, the change page of main.c).     *)
THEOREM TypeCorrect == Spec => []TypeOK
<1>1. Inv => TypeOK
  BY DEF Inv
<1> QED BY <1>1, InvCorrect, PTL

(* The ring passes every allocated node once, in the order of the numbers, *)
(* forwards and backwards: create_book_item and delete_book leave no node  *)
(* out and none that was freed in.                                         *)
THEOREM RingWhole == Spec => []RingSound
<1>1. Inv => RingSound
  <2> SUFFICES ASSUME Inv, book_head # NULL PROVE RingSound
    BY DEF RingSound
  <2> DEFINE w == Walk
             n == Size
  <2>1. Sound(node, book_head, n, Last)
    BY DEF Inv
  <2>2. /\ n \in Nat
        /\ \A k \in 0..(n - 1) : w[k] \in DOMAIN node
        /\ \A a \in DOMAIN node : \E k \in 0..(n - 1) : a = w[k]
        /\ w[n] = book_head
        /\ \A k \in 0..(n - 1) : node[w[k + 1]].prev = w[k]
    BY <2>1, WalkFollows DEF Sound, Ring
  <2>3. \A j, k \in 0..(n - 1) : j < k => node[w[j]].id < node[w[k]].id
    BY <2>1, WalkFollows DEF Sound, Numbered
  <2>4. \A k \in Nat : w[k + 1] = node[w[k]].next
    BY FollowStep, WalkFollows
  <2> HIDE DEF w, n
  <2>5. {w[k] : k \in 0..(n - 1)} = DOMAIN node
    BY <2>2
  <2>6. ASSUME NEW a \in DOMAIN node PROVE node[node[a].next].prev = a
    <3>1. PICK k \in 0..(n - 1) : a = w[k]
      BY <2>2
    <3>2. k \in Nat
      BY <2>2
    <3>3. node[a].next = w[k + 1]
      BY <3>1, <3>2, <2>4
    <3> QED BY <3>1, <3>3, <2>2
  <2>7. ASSUME NEW k \in 1..(n - 1) PROVE node[w[k - 1]].id < node[w[k]].id
    <3>1. k - 1 \in 0..(n - 1) /\ k \in 0..(n - 1) /\ k - 1 < k
      BY <2>2
    <3> QED BY <3>1, <2>3
  <2> QED BY <2>2, <2>5, <2>6, <2>7 DEF RingSound, w, n
<1> QED BY <1>1, InvCorrect, PTL

(* book_num is the number of books in the ring, also after a malloc that   *)
(* failed and a name that was not found.                                   *)
THEOREM CountCorrect == Spec => []CountMatches
<1>1. Inv => CountMatches
  <2> SUFFICES ASSUME Inv, Booted PROVE book_num = Size - 1
    BY DEF CountMatches
  <2>1. CASE change_id # 0
    BY <2>1 DEF Inv
  <2>2. CASE change_id = 0
    <3>1. book_num = Len(InitNames) /\ Size = i
      BY <2>2 DEF Inv, Booted
    <3>2. i > Len(InitNames) /\ i <= Len(InitNames) + 1 /\ i \in Nat
      <4>1. TypeOK
        BY DEF Inv
      <4> QED BY <4>1, NamesType DEF Booted, TypeOK
    <3> QED BY <3>1, <3>2, NamesType
  <2> QED BY <2>1, <2>2
<1> QED BY <1>1, InvCorrect, PTL

-----------------------------------------------------------------------------
(* The refinement: the books the catalogue sees are the nodes behind the   *)
(* head.                                                                   *)
Entry(nd, nm, a) == [id |-> nd[a].id, name |-> nm[nd[a].text], state |-> nd[a].state]

Books(nd, h, nm, n) == [k \in 1..(n - 1) |-> Entry(nd, nm, Follow(nd, h)[k])]

Book == [id : Nat, name : Name \cup {NULL}, state : {0, 1}]

Named(nm) == nm \in [0..Rows -> Name \cup {NULL}]

Entries(nd, h, nm, n) ==
  /\ Books(nd, h, nm, n) \in Seq(Book)
  /\ Len(Books(nd, h, nm, n)) = n - 1
  /\ \A k \in 1..(n - 1) : /\ Follow(nd, h)[k] \in DOMAIN nd
                           /\ Books(nd, h, nm, n)[k] = Entry(nd, nm, Follow(nd, h)[k])

LEMMA BooksSeq ==
  ASSUME NEW nd, NEW h, NEW nm, NEW n, NEW last, Sound(nd, h, n, last), Named(nm)
  PROVE  Entries(nd, h, nm, n)
<1> DEFINE w == Follow(nd, h)
           b == Books(nd, h, nm, n)
<1>1. n \in Nat /\ n # 0 /\ n - 1 \in Nat
  BY DEF Sound
<1>2. ASSUME NEW k \in 1..(n - 1) PROVE w[k] \in DOMAIN nd /\ Entry(nd, nm, w[k]) \in Book
  <2>1. k \in 0..(n - 1)
    BY <1>1
  <2>2. w[k] \in DOMAIN nd
    BY <2>1 DEF Sound, Ring
  <2> HIDE DEF w
  <2>3. nd[w[k]] \in Node
    BY <2>2 DEF Sound, Typed
  <2>4. /\ nd[w[k]].id \in Nat /\ nd[w[k]].text \in 0..Rows /\ nd[w[k]].state \in {0, 1}
    BY <2>3 DEF Node
  <2>5. nm[nd[w[k]].text] \in Name \cup {NULL}
    BY <2>4 DEF Named
  <2> QED BY <2>2, <2>4, <2>5 DEF Entry, Book
<1>3. b = [k \in 1..(n - 1) |-> Entry(nd, nm, w[k])]
  BY DEF Books
<1> HIDE DEF b, w
<1>4. b \in [1..(n - 1) -> Book]
  BY <1>2, <1>3
<1>5. b \in Seq(Book) /\ Len(b) = n - 1
  BY <1>1, <1>4
<1> QED BY <1>2, <1>3, <1>5 DEF Entries, b, w

LEMMA BooksAppend ==
  ASSUME NEW nd, NEW h, NEW nm, NEW n, NEW last \in Nat, Sound(nd, h, n, last),
         last + 1 \in 0..Rows, NEW a \in Addr, a \notin DOMAIN nd, NEW nd2,
         nd2 = Created(nd, h, a, last + 1, last + 1, 1),
         NEW nm2, Named(nm), Named(nm2), \A r \in 0..last : nm2[r] = nm[r]
  PROVE  Books(nd2, h, nm2, n + 1) =
           Append(Books(nd, h, nm, n), [id |-> last + 1, name |-> nm2[last + 1], state |-> 1])
<1> DEFINE w == Follow(nd, h)
           w2 == Follow(nd2, h)
           new == [id |-> last + 1, name |-> nm2[last + 1], state |-> 1]
           b == Books(nd, h, nm, n)
           b2 == Books(nd2, h, nm2, n + 1)
<1>1. n \in Nat /\ n # 0 /\ Ring(nd, h, n) /\ Typed(nd)
  BY DEF Sound
<1>2. /\ \A k \in 0..(n - 1) : w2[k] = w[k]
      /\ w2[n] = a
      /\ \A x \in DOMAIN nd : SameBook(nd2[x], nd[x])
  <2>1. Prolonged(nd, nd2, h, n, a)
    BY <1>1, Linked
  <2> QED BY <2>1 DEF Prolonged
<1>3. Sound(nd2, h, n + 1, last + 1)
  BY SoundCreated
<1>4. /\ b \in Seq(Book) /\ Len(b) = n - 1
      /\ \A k \in 1..(n - 1) : w[k] \in DOMAIN nd /\ b[k] = Entry(nd, nm, w[k])
  BY BooksSeq DEF Entries
<1>5. /\ b2 \in Seq(Book) /\ Len(b2) = (n + 1) - 1
      /\ \A k \in 1..((n + 1) - 1) : b2[k] = Entry(nd2, nm2, w2[k])
  <2>1. Entries(nd2, h, nm2, n + 1)
    BY <1>3, BooksSeq
  <2> QED BY <2>1 DEF Entries
<1>6. \A x \in DOMAIN nd : nd[x].text \in 0..last
  <2> SUFFICES ASSUME NEW x \in DOMAIN nd PROVE nd[x].text \in 0..last
    OBVIOUS
  <2>1. PICK k \in 0..(n - 1) : x = w[k]
    BY <1>1 DEF Ring
  <2>2. nd[x].id <= last /\ nd[x].text = nd[x].id
    BY <2>1 DEF Sound, Numbered
  <2>3. nd[x].id \in Nat
    BY <1>1 DEF Typed, Node
  <2> QED BY <2>2, <2>3
<1>7. new \in Book
  BY DEF Book, Named
<1>8. Entry(nd2, nm2, a) = new
  <2>1. nd2[a] = [text |-> last + 1, id |-> last + 1, state |-> 1,
                  next |-> h, prev |-> nd[h].prev]
    BY DEF Created
  <2> QED BY <2>1 DEF Entry
<1> HIDE DEF w, w2, b, b2, new
<1>9. \A x \in DOMAIN nd : Entry(nd2, nm2, x) = Entry(nd, nm, x)
  BY <1>2, <1>6 DEF SameBook, Entry
<1> DEFINE app == Append(b, new)
<1>10. /\ app \in Seq(Book) /\ Len(app) = Len(b) + 1
       /\ \A k \in 1..Len(b) : app[k] = b[k]
       /\ app[Len(b) + 1] = new
  BY <1>4, <1>7, AppendProperties
<1> HIDE DEF app
<1>11. ASSUME NEW k \in 1..Len(b2) PROVE b2[k] = app[k]
  <2>1. k \in 1..n /\ b2[k] = Entry(nd2, nm2, w2[k])
    BY <1>1, <1>5
  <2>2. CASE k = n
    <3>1. b2[k] = new
      BY <2>1, <2>2, <1>2, <1>8
    <3>2. Len(b) + 1 = n
      BY <1>1, <1>4
    <3> QED BY <3>1, <3>2, <2>2, <1>10
  <2>3. CASE k # n
    <3>1. k \in 0..(n - 1) /\ k \in 1..(n - 1) /\ k \in 1..Len(b)
      BY <2>1, <2>3, <1>1, <1>4
    <3>2. w2[k] = w[k] /\ w[k] \in DOMAIN nd /\ b[k] = Entry(nd, nm, w[k])
      BY <3>1, <1>2, <1>4
    <3> QED BY <3>1, <3>2, <2>1, <1>9, <1>10
  <2> QED BY <2>2, <2>3
<1>12. Len(b2) = Len(app)
  BY <1>1, <1>4, <1>5, <1>10
<1>13. b2 = app
  BY <1>5, <1>10, <1>11, <1>12, SeqEqual
<1> QED BY <1>13 DEF app, b, b2, new

(* The catalogue without its p-th book.                                    *)
LEMMA RemovedAt ==
  ASSUME NEW s \in Seq(Book), NEW p \in 1..Len(s)
  PROVE  /\ C!RemoveAt(s, p) \in Seq(Book)
         /\ Len(C!RemoveAt(s, p)) = Len(s) - 1
         /\ \A k \in 1..(Len(s) - 1) :
              C!RemoveAt(s, p)[k] = IF k < p THEN s[k] ELSE s[k + 1]
<1> DEFINE l == SubSeq(s, 1, p - 1)
           r == SubSeq(s, p + 1, Len(s))
<1>1. Len(s) \in Nat /\ p \in Nat
  BY LenProperties
<1>2. /\ l \in Seq(Book) /\ Len(l) = p - 1 /\ \A k \in 1..(p - 1) : l[k] = s[k]
  BY <1>1
<1>3. /\ r \in Seq(Book) /\ Len(r) = Len(s) - p
      /\ \A k \in 1..(Len(s) - p) : r[k] = s[k + p]
  BY <1>1
<1> HIDE DEF l, r
<1>4. /\ l \o r \in Seq(Book) /\ Len(l \o r) = Len(l) + Len(r)
      /\ \A k \in 1..(Len(l) + Len(r)) :
           (l \o r)[k] = IF k <= Len(l) THEN l[k] ELSE r[k - Len(l)]
  BY <1>2, <1>3, ConcatProperties
<1>5. C!RemoveAt(s, p) = l \o r
  BY DEF C!RemoveAt, l, r
<1>6. ASSUME NEW k \in 1..(Len(s) - 1)
      PROVE  (l \o r)[k] = IF k < p THEN s[k] ELSE s[k + 1]
  <2>1. k \in 1..(Len(l) + Len(r))
    BY <1>1, <1>2, <1>3
  <2>2. CASE k < p
    <3>1. k <= Len(l) /\ k \in 1..(p - 1)
      BY <2>2, <1>1, <1>2
    <3> QED BY <3>1, <2>1, <2>2, <1>2, <1>4
  <2>3. CASE ~(k < p)
    <3>1. /\ ~(k <= Len(l)) /\ k - Len(l) \in 1..(Len(s) - p)
          /\ (k - Len(l)) + p = k + 1
      BY <2>3, <1>1, <1>2
    <3> QED BY <3>1, <2>1, <2>3, <1>3, <1>4
  <2> QED BY <2>2, <2>3
<1>7. Len(l \o r) = Len(s) - 1
  BY <1>1, <1>2, <1>3, <1>4
<1> QED BY ONLY <1>4, <1>5, <1>6, <1>7

LEMMA BooksRemove ==
  ASSUME NEW nd, NEW h, NEW nm, NEW n, NEW last \in Nat, Sound(nd, h, n, last), Named(nm),
         NEW p \in 1..(n - 1), NEW nd2, nd2 = Deleted(nd, Follow(nd, h)[p])
  PROVE  Books(nd2, h, nm, n - 1) = C!RemoveAt(Books(nd, h, nm, n), p)
<1> DEFINE w == Follow(nd, h)
           w2 == Follow(nd2, h)
           b == Books(nd, h, nm, n)
           b2 == Books(nd2, h, nm, n - 1)
           rem == C!RemoveAt(b, p)
<1>1. n \in Nat /\ n # 0 /\ Ring(nd, h, n) /\ Typed(nd)
  BY DEF Sound
<1>2. /\ \A k \in 0..(p - 1) : w2[k] = w[k]
      /\ \A k \in p..(n - 1) : w2[k] = w[k + 1]
      /\ \A x \in DOMAIN nd2 : SameBook(nd2[x], nd[x])
  <2>1. Shortened(nd, nd2, h, n, p, w[p])
    BY <1>1, Unlinked
  <2> QED BY <2>1 DEF Shortened
<1>3. Sound(nd2, h, n - 1, last)
  BY SoundDeleted
<1>4. /\ b \in Seq(Book) /\ Len(b) = n - 1
      /\ \A k \in 1..(n - 1) : w[k] \in DOMAIN nd /\ b[k] = Entry(nd, nm, w[k])
  BY BooksSeq DEF Entries
<1>5. /\ b2 \in Seq(Book) /\ Len(b2) = (n - 1) - 1
      /\ \A k \in 1..((n - 1) - 1) : w2[k] \in DOMAIN nd2 /\ b2[k] = Entry(nd2, nm, w2[k])
  <2>1. Entries(nd2, h, nm, n - 1)
    BY <1>3, BooksSeq
  <2> QED BY <2>1 DEF Entries
<1> HIDE DEF w, w2, b, b2
<1>6. /\ rem \in Seq(Book) /\ Len(rem) = Len(b) - 1
      /\ \A k \in 1..(Len(b) - 1) : rem[k] = IF k < p THEN b[k] ELSE b[k + 1]
  BY <1>4, RemovedAt
<1> HIDE DEF rem
<1>7. \A x \in DOMAIN nd2 : Entry(nd2, nm, x) = Entry(nd, nm, x)
  BY <1>2 DEF SameBook, Entry
<1>8. ASSUME NEW k \in 1..Len(b2) PROVE b2[k] = rem[k]
  <2>1. /\ k \in 1..((n - 1) - 1) /\ k \in 1..(Len(b) - 1)
        /\ k \in 1..(n - 1) /\ k + 1 \in 1..(n - 1)
    BY <1>1, <1>4, <1>5
  <2>2. b2[k] = Entry(nd, nm, w2[k])
    BY <2>1, <1>5, <1>7
  <2>3. CASE k < p
    <3>1. k \in 0..(p - 1)
      BY <2>3, <2>1
    <3>2. w2[k] = w[k] /\ rem[k] = b[k] /\ b[k] = Entry(nd, nm, w[k])
      BY <3>1, <2>1, <2>3, <1>2, <1>4, <1>6
    <3> QED BY <3>2, <2>2
  <2>4. CASE ~(k < p)
    <3>1. k \in p..(n - 1)
      BY <2>4, <2>1
    <3>2. w2[k] = w[k + 1] /\ rem[k] = b[k + 1] /\ b[k + 1] = Entry(nd, nm, w[k + 1])
      BY <3>1, <2>1, <2>4, <1>2, <1>4, <1>6
    <3> QED BY <3>2, <2>2
  <2> QED BY <2>3, <2>4
<1>9. Len(b2) = Len(rem)
  BY <1>1, <1>4, <1>5, <1>6
<1>10. b2 = rem
  BY <1>5, <1>6, <1>8, <1>9, SeqEqual
<1> QED BY <1>10 DEF b, b2, rem

Restated(nd, nd2, h, nm, n, x, s) ==
  /\ x = h => Books(nd2, h, nm, n) = Books(nd, h, nm, n)
  /\ \A p \in 1..(n - 1) : x = Follow(nd, h)[p] =>
       Books(nd2, h, nm, n) = [Books(nd, h, nm, n) EXCEPT ![p].state = s]

(* A book that is marked, and the head that is, which is no book.          *)
LEMMA BooksMark ==
  ASSUME NEW nd, NEW h, NEW nm, NEW n, NEW last, Sound(nd, h, n, last), Named(nm),
         NEW x \in DOMAIN nd, NEW s \in {0, 1}, NEW nd2, nd2 = [nd EXCEPT ![x].state = s]
  PROVE  Restated(nd, nd2, h, nm, n, x, s)
<1> DEFINE w == Follow(nd, h)
           w2 == Follow(nd2, h)
           b == Books(nd, h, nm, n)
           b2 == Books(nd2, h, nm, n)
<1>1. n \in Nat /\ n # 0 /\ Ring(nd, h, n)
  BY DEF Sound
<1>2. Sound(nd2, h, n, last) /\ Marked(nd, nd2, h, n, x, s)
  BY SoundMarked
<1>3. /\ \A k \in 0..n : w2[k] = w[k]
      /\ \A y \in DOMAIN nd : /\ nd2[y].id = nd[y].id /\ nd2[y].text = nd[y].text
                              /\ nd2[y].state = IF y = x THEN s ELSE nd[y].state
  BY <1>2 DEF Marked
<1>4. \A j, k \in 0..(n - 1) : w[j] = w[k] => j = k
  BY <1>1 DEF Ring
<1>5. w[0] = h
  BY FollowStep
<1>6. /\ b \in Seq(Book) /\ Len(b) = n - 1
      /\ \A k \in 1..(n - 1) : w[k] \in DOMAIN nd /\ b[k] = Entry(nd, nm, w[k])
  BY BooksSeq DEF Entries
<1>7. /\ b2 \in Seq(Book) /\ Len(b2) = n - 1
      /\ \A k \in 1..(n - 1) : b2[k] = Entry(nd2, nm, w2[k])
  <2>1. Entries(nd2, h, nm, n)
    BY <1>2, BooksSeq
  <2> QED BY <2>1 DEF Entries
<1> HIDE DEF w, w2, b, b2
<1>8. ASSUME NEW k \in 1..(n - 1)
      PROVE  /\ b[k] = Entry(nd, nm, w[k])
             /\ b2[k] = [id |-> nd[w[k]].id, name |-> nm[nd[w[k]].text],
                         state |-> IF w[k] = x THEN s ELSE nd[w[k]].state]
  <2>1. k \in 0..n
    BY <1>1
  <2>2. w2[k] = w[k] /\ w[k] \in DOMAIN nd /\ b2[k] = Entry(nd2, nm, w2[k])
    BY <2>1, <1>3, <1>6, <1>7
  <2>3. Entry(nd2, nm, w[k]) = [id |-> nd[w[k]].id, name |-> nm[nd[w[k]].text],
                                state |-> IF w[k] = x THEN s ELSE nd[w[k]].state]
    BY <2>2, <1>3 DEF Entry
  <2> QED BY <2>2, <2>3, <1>6
<1>9. ASSUME x = h PROVE b2 = b
  <2>1. ASSUME NEW k \in 1..(n - 1) PROVE b2[k] = b[k]
    <3>1. k \in 0..(n - 1) /\ 0 \in 0..(n - 1) /\ k # 0
      BY <1>1
    <3>2. w[k] # x
      BY <3>1, <1>4, <1>5, <1>9
    <3> QED BY <3>2, <1>8 DEF Entry
  <2>2. Len(b2) = Len(b) /\ \A k \in 1..Len(b2) : b2[k] = b[k]
    BY <2>1, <1>6, <1>7
  <2> QED BY <2>2, <1>6, <1>7, SeqEqual
<1>10. ASSUME NEW p \in 1..(n - 1), x = w[p]
       PROVE  b2 = [b EXCEPT ![p].state = s]
  <2> DEFINE e == [b[p] EXCEPT !.state = s]
             ex == [b EXCEPT ![p] = e]
  <2>1. b[p] \in Book /\ p \in 1..Len(b)
    BY <1>1, <1>6
  <2>2. e = [id |-> nd[w[p]].id, name |-> nm[nd[w[p]].text], state |-> s]
    <3>1. b[p] = Entry(nd, nm, w[p])
      BY <1>6
    <3> QED BY <3>1 DEF Entry
  <2>3. e \in Book
    BY <2>1 DEF Book
  <2> HIDE DEF e
  <2>4. /\ ex \in Seq(Book) /\ Len(ex) = Len(b)
        /\ \A j \in 1..Len(b) : ex[j] = IF j = p THEN e ELSE b[j]
    BY <2>1, <2>3, <1>6, ExceptSeq
  <2> HIDE DEF ex
  <2>5. ASSUME NEW k \in 1..(n - 1) PROVE b2[k] = ex[k]
    <3>1. k \in 1..Len(b) /\ k \in 0..(n - 1) /\ p \in 0..(n - 1)
      BY <1>1, <1>6
    <3>2. CASE k = p
      <4>1. b2[k] = [id |-> nd[w[k]].id, name |-> nm[nd[w[k]].text], state |-> s]
        BY <3>2, <1>8, <1>10
      <4> QED BY <4>1, <3>1, <3>2, <2>2, <2>4
    <3>3. CASE k # p
      <4>1. w[k] # x
        BY <3>1, <3>3, <1>4, <1>10
      <4>2. b2[k] = b[k]
        BY <4>1, <1>8 DEF Entry
      <4> QED BY <4>2, <3>1, <3>3, <2>4
    <3> QED BY <3>2, <3>3
  <2>6. Len(b2) = Len(ex) /\ \A k \in 1..Len(b2) : b2[k] = ex[k]
    BY <2>4, <2>5, <1>6, <1>7
  <2>7. b2 = ex
    BY <2>4, <2>6, <1>7, SeqEqual
  <2> QED BY <2>7 DEF ex, e
<1> QED BY <1>9, <1>10 DEF Restated, w, b, b2

CatList == [k \in 1..(IF book_head = NULL THEN 0 ELSE Size - 1) |->
              LET a == Walk[k]
              IN  [id |-> node[a].id, name |-> name[node[a].text], state |-> node[a].state]]

LEMMA CatListIs ==
  /\ book_head = NULL => CatList = << >>
  /\ book_head # NULL => CatList = Books(node, book_head, name, Size)
<1>1. ASSUME book_head = NULL PROVE CatList = << >>
  BY <1>1 DEF CatList
<1>2. ASSUME book_head # NULL PROVE CatList = Books(node, book_head, name, Size)
  BY <1>2, WalkFollows DEF CatList, Books, Entry
<1> QED BY <1>1, <1>2

ListedAs == /\ book_head = NULL => CatList = << >>
            /\ book_head # NULL => CatList = Books(node, book_head, name, Size)

LEMMA ListedNext == ListedAs'
<1>1. ListedAs
  BY CatListIs DEF ListedAs
<1> QED BY <1>1, PTL

LEMMA NextList ==
  ASSUME book_head' # NULL
  PROVE  CatList' = Books(node', book_head', name', Size')
BY ListedNext DEF ListedAs

LEMMA MakeBookStocks ==
  ASSUME Inv, MakeBook
  PROVE  \E n \in Name : C!Stock(n)
<1>1. PICK a \in Free : node' = create_book_item(a, i, i, 1)
  BY DEF MakeBook
<1>2. /\ book_head # NULL /\ change_id = 0 /\ i <= book_num /\ i' = i + 1
      /\ book_head' = book_head /\ name' = name /\ change_id' = change_id
      /\ book_num = Len(InitNames) /\ name = Table /\ i # 0 /\ TypeOK
      /\ Sound(node, book_head, Size, Last)
  BY DEF MakeBook, Inv
<1>3. /\ i \in Nat /\ Last = i - 1 /\ Last \in Nat /\ Last + 1 = i /\ Last' = i
      /\ Last + 1 \in 0..Rows /\ i \in 1..Len(InitNames)
  BY <1>2, NamesType DEF Last, TypeOK
<1>4. node' = Created(node, book_head, a, Last + 1, Last + 1, 1)
  BY <1>1, <1>3 DEF create_book_item, Created
<1>5. a \in Addr /\ a \notin DOMAIN node
  BY DEF Free
<1>6. Size' = Size + 1
  <2>1. Sound(node', book_head, Size + 1, Last + 1)
    BY <1>2, <1>3, <1>4, <1>5, SoundCreated
  <2> QED BY <2>1 DEF Sound, Size
<1>7. Named(name)
  BY <1>2 DEF TypeOK, Named
<1>8. Books(node', book_head, name, Size + 1) =
        Append(Books(node, book_head, name, Size),
               [id |-> Last + 1, name |-> name[Last + 1], state |-> 1])
  BY <1>2, <1>3, <1>4, <1>5, <1>7, BooksAppend
<1>9. CatList' = Append(CatList, [id |-> Last', name |-> name[i], state |-> 1])
  <2>1. CatList = Books(node, book_head, name, Size)
    BY <1>2, CatListIs
  <2>2. CatList' = Books(node', book_head, name, Size + 1)
    BY <1>2, <1>6, NextList
  <2>3. Last + 1 = i /\ Last' = i
    BY <1>3
  <2> QED BY ONLY <1>8, <2>1, <2>2, <2>3
<1>10. PICK n \in Name : n = name[i]
  <2>1. i \in DOMAIN InitNames /\ i \in 0..Rows
    BY <1>3, NamesType
  <2>2. name[i] = InitNames[i]
    BY <2>1, <1>2 DEF Table
  <2>3. name[i] \in Name
    BY <2>2, <1>3, StockAssumption, ElementOfSeq
  <2> QED BY <2>3
<1>11. Last' = Last + 1
  BY <1>3
<1>12. C!Stock(n)
  BY <1>9, <1>10, <1>11 DEF C!Stock, CatList, Last
<1> QED BY <1>12

LEMMA AddStocks ==
  ASSUME Inv, NEW n \in Name, Add(n)
  PROVE  C!Stock(n)
<1>1. /\ change_id # 0 /\ change_id < Rows /\ change_id' = change_id + 1
      /\ name' = [name EXCEPT ![change_id'] = n]
      /\ book_head' = book_head /\ i' = i
      /\ TypeOK /\ book_head # NULL
      /\ Sound(node, book_head, Size, Last)
  BY DEF Add, Changing, Booted, Inv
<1>2. /\ Last \in Nat /\ Last = change_id /\ Last' = Last + 1 /\ Last + 1 = change_id'
      /\ Last + 1 \in 0..Rows
  BY <1>1, LastType DEF Last, TypeOK
<1>3. Named(name) /\ Named(name') /\ name'[Last + 1] = n /\ \A r \in 0..Last : name'[r] = name[r]
  <2>1. name \in [0..Rows -> Name \cup {NULL}]
    BY <1>1 DEF TypeOK
  <2>2. name' = [name EXCEPT ![Last + 1] = n]
    BY <1>1, <1>2
  <2>3. \A r \in 0..Last : r \in 0..Rows /\ r # Last + 1
    BY <1>2, NamesType
  <2> QED BY <2>1, <2>2, <2>3, <1>2 DEF Named
<1>4. CatList = Books(node, book_head, name, Size)
  BY <1>1, CatListIs
<1>5. CatList' = Books(node', book_head, name', Size')
  BY <1>1, NextList
<1>6. CASE \E a \in Free : node' = create_book_item(a, change_id', change_id', 1)
  <2>1. PICK a \in Free : node' = create_book_item(a, change_id', change_id', 1)
    BY <1>6
  <2>2. node' = Created(node, book_head, a, Last + 1, Last + 1, 1)
    BY <2>1, <1>2 DEF create_book_item, Created
  <2>3. a \in Addr /\ a \notin DOMAIN node
    BY DEF Free
  <2>4. Size' = Size + 1
    <3>1. Sound(node', book_head, Size + 1, Last + 1)
      BY <1>1, <1>2, <2>2, <2>3, SoundCreated
    <3> QED BY <3>1 DEF Sound, Size
  <2>5. Books(node', book_head, name', Size + 1) =
          Append(Books(node, book_head, name, Size),
                 [id |-> Last + 1, name |-> name'[Last + 1], state |-> 1])
    <3>1. Sound(node, book_head, Size, Last) /\ Last \in Nat /\ Last + 1 \in 0..Rows
      BY <1>1, <1>2
    <3> QED BY ONLY <1>3, <2>2, <2>3, <3>1, BooksAppend
  <2>6. CatList' = Append(CatList, [id |-> Last', name |-> n, state |-> 1])
    <3>1. CatList' = Books(node', book_head, name', Size + 1)
      BY <1>5, <2>4
    <3>2. Last + 1 = Last' /\ name'[Last + 1] = n
      BY <1>2, <1>3
    <3> QED BY ONLY <1>4, <2>5, <3>1, <3>2
  <2>7. Last' = Last + 1
    BY <1>2
  <2> QED BY <2>6, <2>7 DEF C!Stock, CatList, Last
<1>7. CASE node' = node
  <2>1. Size' = Size
    BY <1>7 DEF Size
  <2>2. Sound(node, book_head, Size, Last + 1)
    BY <1>1, <1>2, SoundLater
  <2>3. Books(node, book_head, name', Size) = Books(node, book_head, name, Size)
    <3> DEFINE w == Follow(node, book_head)
               m == Size
               nm == name'
    <3>1. ASSUME NEW k \in 1..(m - 1) PROVE Entry(node, nm, w[k]) = Entry(node, name, w[k])
      <4>1. k \in 0..(m - 1)
        BY <1>1 DEF Sound
      <4>2. w[k] \in DOMAIN node
        BY <4>1, <1>1 DEF Sound, Ring
      <4>3. /\ node[w[k]].id <= Last /\ node[w[k]].text = node[w[k]].id
        BY <4>1, <4>2, <1>1 DEF Sound, Numbered
      <4>4. node[w[k]].id \in Nat
        BY <4>2, <1>1 DEF Sound, Typed, Node
      <4> HIDE DEF w, m, nm
      <4>5. node[w[k]].text \in 0..Last
        BY <4>3, <4>4, <1>2
      <4>6. nm[node[w[k]].text] = name[node[w[k]].text]
        BY <4>5, <1>3 DEF nm
      <4> QED BY <4>6 DEF Entry
    <3> HIDE DEF w, m, nm
    <3>2. [k \in 1..(m - 1) |-> Entry(node, nm, w[k])] =
          [k \in 1..(m - 1) |-> Entry(node, name, w[k])]
      BY <3>1
    <3> QED BY <3>2 DEF Books, w, m, nm
  <2>4. CatList' = CatList
    BY <1>4, <1>5, <1>7, <2>1, <2>3
  <2>5. Last' = Last + 1
    BY <1>2
  <2> QED BY <2>4, <2>5 DEF C!Stock, CatList, Last
<1> QED BY <1>6, <1>7 DEF Add

LEMMA DeleteStrikesOff ==
  ASSUME Inv, NEW n \in Name, Delete(n)
  PROVE  C!StrikeOff(n)
<1>1. /\ UNCHANGED <<book_head, name, change_id, i>>
      /\ TypeOK /\ book_head # NULL /\ Sound(node, book_head, Size, Last)
  BY DEF Delete, Changing, Booted, Inv
<1>2. PICK p \in 1..(Size - 1) :
        /\ node' = Deleted(node, Walk[p])
        /\ name[node[Walk[p]].text] = n
        /\ \A j \in 1..(p - 1) : Walk[j] \in DOMAIN node => name[node[Walk[j]].text] # n
  BY Struck
<1>3. Last \in Nat /\ Last' = Last /\ Named(name)
  BY <1>1, LastType DEF Last, TypeOK, Named
<1>4. node' = Deleted(node, Follow(node, book_head)[p])
  BY <1>2, WalkFollows
<1>5. Size' = Size - 1
  <2>1. Sound(node', book_head, Size - 1, Last)
    BY <1>1, <1>3, <1>4, SoundDeleted
  <2> QED BY <2>1 DEF Sound, Size
<1>6. Books(node', book_head, name, Size - 1) =
        C!RemoveAt(Books(node, book_head, name, Size), p)
  <2>1. Sound(node, book_head, Size, Last)
    BY <1>1
  <2> QED BY ONLY <1>3, <1>4, <2>1, BooksRemove
<1>7. CatList = Books(node, book_head, name, Size)
  BY <1>1, CatListIs
<1>8. CatList' = Books(node', book_head, name, Size - 1)
  BY <1>1, <1>5, NextList
<1>9. CatList' = C!RemoveAt(CatList, p)
  BY ONLY <1>6, <1>7, <1>8
<1>10. /\ Len(CatList) = Size - 1 /\ CatList \in Seq(Book)
       /\ \A k \in 1..(Size - 1) : /\ Walk[k] \in DOMAIN node
                                   /\ CatList[k].name = name[node[Walk[k]].text]
  <2>1. Entries(node, book_head, name, Size)
    BY <1>1, <1>3, BooksSeq
  <2> QED BY <2>1, <1>7, WalkFollows DEF Entries, Entry
<1>11. p \in DOMAIN CatList /\ \A j \in 1..(p - 1) : j \in 1..(Size - 1)
  <2>1. \A j \in 1..(p - 1) : j \in 1..(Size - 1)
    BY <1>1 DEF Sound
  <2>2. DOMAIN CatList = 1..(Size - 1)
    BY <1>10, LenProperties
  <2> QED BY <2>1, <2>2
<1>12. CatList[p].name = n /\ \A j \in 1..(p - 1) : CatList[j].name # n
  BY <1>2, <1>10, <1>11
<1> QED BY <1>3, <1>9, <1>11, <1>12 DEF C!StrikeOff, CatList, Last

LEMMA MarkMarks ==
  ASSUME Inv, NEW id \in 1..Rows, NEW s \in {0, 1}, Mark(id, s)
  PROVE  (id \in 1..Last /\ C!Mark(id, s)) \/ UNCHANGED <<CatList, Last>>
<1> DEFINE nodes == {a \in DOMAIN node : node[a].id = id}
<1>1. /\ UNCHANGED <<book_head, name, change_id, i>>
      /\ TypeOK /\ book_head # NULL /\ Sound(node, book_head, Size, Last)
      /\ node' = [node EXCEPT ![Search(nodes)].state = s]
  BY DEF Mark, book_id_find, Booted, Inv
<1> HIDE DEF nodes
<1>2. PICK p \in 1..Size : /\ Search(nodes) = Walk[p]
                           /\ Walk[p] \in nodes \cup {book_head}
  BY <1>1, Searched
<1>3. Last \in Nat /\ Last' = Last /\ Named(name)
  BY <1>1, LastType DEF Last, TypeOK, Named
<1>4. book_head \in DOMAIN node /\ node[book_head].id = 0
  BY <1>1, <1>3, SoundFacts
<1>5. PICK x \in DOMAIN node : x = Walk[p] /\ node' = [node EXCEPT ![x].state = s]
  BY <1>1, <1>2, <1>4 DEF nodes
<1>6. /\ x = book_head => Books(node', book_head, name, Size) = Books(node, book_head, name, Size)
      /\ \A k \in 1..(Size - 1) : x = Follow(node, book_head)[k] =>
           Books(node', book_head, name, Size) =
             [Books(node, book_head, name, Size) EXCEPT ![k].state = s]
  <2>1. Sound(node, book_head, Size, Last) /\ node' = [node EXCEPT ![x].state = s]
    BY <1>1, <1>5
  <2>2. Restated(node, node', book_head, name, Size, x, s)
    BY <1>3, <2>1, BooksMark
  <2> QED BY <2>2 DEF Restated
<1>7. Size' = Size
  <2>1. DOMAIN node' = DOMAIN node
    BY <1>5
  <2> QED BY <2>1 DEF Size
<1>8. CatList = Books(node, book_head, name, Size)
  BY <1>1, CatListIs
<1>9. CatList' = Books(node', book_head, name, Size)
  BY <1>1, <1>7, NextList
<1>10. CASE x = book_head
  <2>1. Books(node', book_head, name, Size) = Books(node, book_head, name, Size)
    BY <1>6, <1>10
  <2>2. CatList' = CatList
    BY ONLY <1>8, <1>9, <2>1
  <2> QED BY <2>2, <1>3
<1>11. CASE x # book_head
  <2>1. node[x].id = id
    BY <1>2, <1>5, <1>11 DEF nodes
  <2>2. p # Size
    BY <1>1, <1>5, <1>11, WalkFollows DEF Sound, Ring
  <2>3. p \in 1..(Size - 1) /\ p \in 0..(Size - 1)
    BY <1>1, <2>2 DEF Sound
  <2>4. Books(node', book_head, name, Size) =
          [Books(node, book_head, name, Size) EXCEPT ![p].state = s]
    BY <1>5, <1>6, <2>3, WalkFollows
  <2>5. CatList' = [CatList EXCEPT ![p].state = s]
    BY ONLY <1>8, <1>9, <2>4
  <2>6. p \in DOMAIN CatList /\ CatList[p].id = id
    <3>1. Entries(node, book_head, name, Size)
      BY <1>1, <1>3, BooksSeq
    <3>2. DOMAIN CatList = 1..(Size - 1)
      BY <3>1, <1>8, LenProperties DEF Entries
    <3>3. CatList[p].id = node[x].id
      BY <3>1, <1>5, <1>8, <2>3, WalkFollows DEF Entries, Entry
    <3> QED BY <3>2, <3>3, <2>1, <2>3
  <2>7. id \in 1..Last
    <3>1. node[x].id <= Last
      BY <1>1, <1>5, <2>3, WalkFollows DEF Sound, Numbered
    <3> QED BY <3>1, <2>1, <1>3
  <2>8. C!Mark(id, s)
    BY <1>3, <2>5, <2>6 DEF C!Mark, CatList, Last
  <2> QED BY <2>7, <2>8
<1> QED BY <1>10, <1>11

LEMMA CatalogueStep ==
  ASSUME Inv, Inv', [Next]_vars
  PROVE  \/ \E n \in Name : C!Stock(n) \/ C!StrikeOff(n)
         \/ \E id \in 1..Last, s \in {0, 1} : C!Mark(id, s)
         \/ UNCHANGED <<CatList, Last>>
<1>1. CASE MakeHead
  <2>1. /\ book_head = NULL /\ i = 0 /\ change_id = 0 /\ change_id' = 0 /\ i' = 1
        /\ book_head' # NULL /\ Size' = i'
    BY <1>1 DEF MakeHead, Inv
  <2>2. CatList = << >>
    BY <2>1, CatListIs
  <2>3. CatList' = Books(node', book_head', name', 1)
    BY <2>1, NextList
  <2>4. CatList' = CatList
    BY <2>2, <2>3 DEF Books
  <2>5. Last' = Last
    BY <2>1 DEF Last
  <2> QED BY <2>4, <2>5
<1>2. CASE MakeBook
  BY <1>2, MakeBookStocks
<1>3. CASE StartChange
  <2>1. /\ UNCHANGED <<node, book_head, book_num, name, i>>
        /\ Booted /\ change_id = 0 /\ change_id' = book_num % 256
        /\ book_num = Len(InitNames) /\ TypeOK
    BY <1>3 DEF StartChange, Inv
  <2>2. /\ change_id' = Len(InitNames) /\ change_id' # 0
        /\ i = Len(InitNames) + 1 /\ i # 0
    BY <2>1, NamesType DEF TypeOK, Booted
  <2>3. Last' = Last
    BY <2>1, <2>2, NamesType DEF Last
  <2>4. CatList' = CatList
    BY <2>1 DEF CatList, Walk, Size
  <2> QED BY <2>3, <2>4
<1>4. ASSUME NEW n \in Name, Add(n) PROVE C!Stock(n)
  BY <1>4, AddStocks
<1>5. ASSUME NEW n \in Name, Delete(n) PROVE C!StrikeOff(n)
  BY <1>5, DeleteStrikesOff
<1>6. ASSUME NEW id \in 1..Rows, NEW s \in {0, 1}, Mark(id, s)
      PROVE  (id \in 1..Last /\ C!Mark(id, s)) \/ UNCHANGED <<CatList, Last>>
  BY <1>6, MarkMarks
<1>7. CASE UNCHANGED vars
  BY <1>7 DEF vars, CatList, Walk, Size, Last
<1> QED BY <1>1, <1>2, <1>3, <1>4, <1>5, <1>6, <1>7 DEF Next

(* Whatever is added, deleted, searched in vain or refused by malloc, the  *)
(* ring and its table of names are the catalogue: the books in the order   *)
(* they came, each with the number and the name it was given.              *)
THEOREM Refinement == Spec => ImplementsCatalogue
<1>1. Init => C!CatalogueInit
  BY DEF Init, C!CatalogueInit
<1>2. Inv /\ Inv' /\ [Next]_vars => [C!CatalogueNext]_(C!catalogue)
  <2> SUFFICES ASSUME Inv, Inv', [Next]_vars PROVE [C!CatalogueNext]_(C!catalogue)
    OBVIOUS
  <2>1. CASE \E n \in Name : C!Stock(n) \/ C!StrikeOff(n)
    BY <2>1 DEF C!CatalogueNext
  <2>2. CASE \E id \in 1..Last, s \in {0, 1} : C!Mark(id, s)
    BY <2>2 DEF C!CatalogueNext, Last
  <2>3. CASE UNCHANGED <<CatList, Last>>
    BY <2>3 DEF C!catalogue, CatList, Last
  <2> QED BY <2>1, <2>2, <2>3, CatalogueStep
<1> QED BY <1>1, <1>2, InvCorrect, PTL DEF Spec, ImplementsCatalogue, C!CatalogueSpec
=============================================================================
