--------------------------- MODULE RtKernelProofs ---------------------------
(***************************************************************************)
(* Lemmas about the lists of threads and the scheduler of RtKernel, for    *)
(* any threads and priorities.  Fit says that the ready lists are the      *)
(* ready threads, once each, and Picked that the most urgent of them runs; *)
(* every kernel call keeps both.                                           *)
(***************************************************************************)
EXTENDS RtKernel, FiniteSetTheorems, SequenceTheorems, TLAPS

-----------------------------------------------------------------------------
(* Lists of threads                                                        *)

(* No thread is linked twice into a list.                                  *)
Once(list) == \A i, j \in DOMAIN list : list[i] = list[j] => i = j

(* The nodes of r are in the order they have in list.                      *)
Within(r, list) ==
  \A i, j \in DOMAIN r : i < j =>
    \E x, y \in DOMAIN list : x < y /\ r[i] = list[x] /\ r[j] = list[y]

(* The keys of list only grow, and a key is repeated by neighbours only.   *)
Ordered(list, key) == \A i, j \in DOMAIN list : i < j => key[list[i]] <= key[list[j]]

(* Who keeps its order stays in order.                                     *)
LEMMA WithinOrder ==
  ASSUME NEW r, NEW list, NEW key, Within(r, list), Ordered(list, key)
  PROVE  Ordered(r, key)
BY DEF Within, Ordered

(* A set of numbers has a least one.                                       *)
LEMMA Least ==
  ASSUME NEW T, T \subseteq Nat, T # {}
  PROVE  \E x \in T : \A y \in T : x <= y
<1> DEFINE F == {0..n : n \in T}
           R == StrictSubsetOrdering(Nat)
<1>1. IsWellFoundedOn(R, FiniteSubsetsOf(Nat))
  BY FS_StrictSubsetOrderingWellFounded
<1>2. F \subseteq FiniteSubsetsOf(Nat) /\ F # {}
  <2>1. \A n \in T : IsFiniteSet(0..n)
    BY FS_Interval
  <2>2. \A n \in T : 0..n \in SUBSET Nat
    OBVIOUS
  <2>3. \A n \in T : 0..n \in FiniteSubsetsOf(Nat)
    BY <2>1, <2>2 DEF FiniteSubsetsOf
  <2> QED BY <2>3
<1>3. \E X \in F : \A Y \in F : <<Y, X>> \notin R
  <2> HIDE DEF F, R
  <2> QED BY <1>1, <1>2, WFMin
<1>4. PICK x \in T : \A y \in T : <<0..y, 0..x>> \notin R
  BY <1>3
<1>5. ASSUME NEW y \in T, y < x PROVE FALSE
  <2>1. 0..y \in SUBSET Nat /\ 0..x \in SUBSET Nat
    OBVIOUS
  <2>2. 0..y \subseteq 0..x
    BY <1>5
  <2>3. x \in 0..x /\ x \notin 0..y
    BY <1>5
  <2>4. <<0..y, 0..x>> \in R
    BY <2>1, <2>2, <2>3 DEF StrictSubsetOrdering
  <2> QED BY <2>4, <1>4
<1> QED BY <1>5

(* The ready threads of one priority in any order.                         *)
LEMMA Listed ==
  ASSUME NEW S \in SUBSET Thread, IsFiniteSet(S)
  PROVE  /\ SetToSeq(S) \in Seq(Thread)
         /\ Once(SetToSeq(S))
         /\ ToSet(SetToSeq(S)) = S
<1> DEFINE n == Cardinality(S)
           q == SetToSeq(S)
<1>1. n \in Nat /\ ExistsBijection(1..n, S)
  BY FS_CardinalityType
<1>2. PICK g \in [1..n -> S] : IsInjective(g)
  BY <1>1 DEF ExistsBijection, Bijection, Injection
<1>3. q \in [1..n -> S] /\ IsInjective(q)
  <2> HIDE DEF n
  <2>1. \E f \in [1..n -> S] : IsInjective(f)
    BY <1>2
  <2> QED BY <2>1 DEF SetToSeq, n
<1> HIDE DEF q
<1>4. q \in Injection(1..n, S)
  BY <1>3 DEF Injection
<1>5. q \in Surjection(1..n, S)
  <2>1. Cardinality(1..n) = n /\ n = Cardinality(S)
    BY <1>1, FS_Interval
  <2> HIDE DEF n
  <2> QED BY <2>1, <1>4, FS_Injection
<1>6. DOMAIN q = 1..n
  BY <1>3
<1>7. ToSet(q) = S
  BY <1>3, <1>5, <1>6 DEF ToSet, Surjection
<1>8. q \in Seq(Thread)
  <2>1. q \in [1..n -> Thread]
    BY <1>3
  <2>2. \E m \in Nat : q \in [1..m -> Thread]
    BY <1>1, <2>1
  <2> QED BY <2>2, SeqDef
<1>9. Once(q)
  BY <1>3 DEF Once, IsInjective
<1> QED BY <1>7, <1>8, <1>9 DEF q

(* rt_list_insert_before the head of the list: t is its last.              *)
LEMMA Linked ==
  ASSUME NEW list \in Seq(Thread), NEW t \in Thread, Once(list), t \notin ToSet(list)
  PROVE  /\ Append(list, t) \in Seq(Thread)
         /\ Once(Append(list, t))
         /\ ToSet(Append(list, t)) = ToSet(list) \cup {t}
<1> DEFINE n == Len(list)
           a == Append(list, t)
<1>1. /\ a \in Seq(Thread) /\ Len(a) = n + 1
      /\ \A i \in 1..n : a[i] = list[i]
      /\ a[n + 1] = t
  BY AppendProperties
<1>2. n \in Nat /\ DOMAIN list = 1..n /\ DOMAIN a = 1..(n + 1)
  BY <1>1, LenProperties
<1> HIDE DEF n, a
<1>3. \A i \in 1..(n + 1) : i \in 1..n \/ i = n + 1
  BY <1>2
<1>4. \A i \in 1..n : list[i] # t /\ list[i] \in ToSet(list)
  BY <1>2 DEF ToSet
<1>5. Once(a)
  BY <1>1, <1>2, <1>3, <1>4 DEF Once
<1>6. ToSet(a) = ToSet(list) \cup {t}
  <2>1. \A x \in ToSet(a) : x \in ToSet(list) \cup {t}
    BY <1>1, <1>2, <1>3, <1>4 DEF ToSet
  <2>2. \A x \in ToSet(list) : x \in ToSet(a)
    <3>1. SUFFICES ASSUME NEW i \in 1..n PROVE list[i] \in ToSet(a)
      BY <1>2 DEF ToSet
    <3>2. i \in 1..(n + 1) /\ a[i] = list[i]
      BY <1>1, <1>2
    <3> QED BY <3>2, <1>2 DEF ToSet
  <2>3. t \in ToSet(a)
    <3>1. n + 1 \in 1..(n + 1)
      BY <1>2
    <3> QED BY <1>1, <1>2, <3>1 DEF ToSet
  <2> QED BY <2>1, <2>2, <2>3
<1> QED BY <1>1, <1>5, <1>6 DEF a

(* rt_list_remove of the node of t.                                        *)
LEMMA TakenOut ==
  ASSUME NEW list \in Seq(Thread), NEW t, Once(list)
  PROVE  /\ RemoveFirst(list, t) \in Seq(Thread)
         /\ Once(RemoveFirst(list, t))
         /\ ToSet(RemoveFirst(list, t)) = ToSet(list) \ {t}
         /\ Within(RemoveFirst(list, t), list)
<1> DEFINE n == Len(list)
           I == {i \in 1..n : list[i] = t}
<1>1. n \in Nat /\ DOMAIN list = 1..n /\ list \in [1..n -> Thread]
  BY LenProperties
<1>2. CASE I = {}
  <2>1. RemoveFirst(list, t) = list
    BY <1>2 DEF RemoveFirst
  <2>2. t \notin ToSet(list)
    BY <1>1, <1>2 DEF ToSet
  <2>3. Within(list, list)
    BY DEF Within
  <2> QED BY <2>1, <2>2, <2>3
<1>3. CASE I # {}
  <2>1. PICK k \in I : \A i \in I : i = k
    BY <1>1, <1>3 DEF Once
  <2>2. SelectInSeq(list, LAMBDA v : v = t) = k
    <3>1. Min(I) = k
      <4> HIDE DEF I
      <4>1. \A x \in I : x = k
        BY <2>1
      <4>2. k \in I /\ \A y \in I : k <= y
        <5>1. k \in Nat
          BY <2>1, <1>1 DEF I
        <5> QED BY <2>1, <5>1
      <4> QED BY <4>1, <4>2 DEF Min
    <3> QED BY <3>1, <1>3 DEF SelectInSeq
  <2>3. RemoveFirst(list, t) = RemoveAt(list, k)
    BY <2>1, <2>2 DEF RemoveFirst
  <2> DEFINE r == RemoveFirst(list, t)
             a == SubSeq(list, 1, k - 1)
             b == SubSeq(list, k + 1, n)
  <2>4. k \in 1..n /\ list[k] = t
    BY <2>1
  <2>5. a \in Seq(Thread) /\ Len(a) = k - 1 /\ \A i \in 1..(k - 1) : a[i] = list[i]
    BY <1>1, <2>4, SubSeqProperties
  <2>6. b \in Seq(Thread) /\ Len(b) = n - k /\ \A i \in 1..(n - k) : b[i] = list[k + i]
    <3>1. k + 1 \in Int /\ n \in Int /\ \A i \in (k + 1)..n : list[i] \in Thread
      BY <1>1, <2>4
    <3>2. /\ b \in Seq(Thread)
          /\ Len(b) = IF k + 1 <= n THEN n - (k + 1) + 1 ELSE 0
          /\ \A i \in 1..(n - (k + 1) + 1) : b[i] = list[(k + 1) + i - 1]
      BY <3>1, SubSeqProperties
    <3> HIDE DEF b, n
    <3>3. n - (k + 1) + 1 = n - k /\ \A i \in 1..(n - k) : (k + 1) + i - 1 = k + i
      BY <1>1, <2>4
    <3>4. Len(b) = n - k
      BY <3>2, <1>1, <2>4
    <3> QED BY <3>2, <3>3, <3>4
  <2>7. r = a \o b
    BY <2>3 DEF RemoveAt
  <2> HIDE DEF I, n, a, b, r
  <2>8. /\ r \in Seq(Thread) /\ Len(r) = n - 1
        /\ \A i \in 1..(n - 1) : r[i] = IF i < k THEN list[i] ELSE list[i + 1]
    <3>1. r \in Seq(Thread) /\ Len(r) = n - 1
      <4>1. a \o b \in Seq(Thread) /\ Len(a \o b) = Len(a) + Len(b)
        BY <2>5, <2>6, ConcatProperties
      <4>2. Len(a) + Len(b) = n - 1
        BY <1>1, <2>4, <2>5, <2>6
      <4> QED BY <4>1, <4>2, <2>7
    <3>2. ASSUME NEW i \in 1..(n - 1) PROVE r[i] = IF i < k THEN list[i] ELSE list[i + 1]
      <4>1. r[i] = IF i <= Len(a) THEN a[i] ELSE b[i - Len(a)]
        BY <1>1, <2>4, <2>5, <2>6, <2>7, ConcatProperties
      <4>2. CASE i < k
        <5>1. i \in 1..(k - 1)
          BY <4>2, <1>1, <2>4
        <5> QED BY <4>1, <4>2, <5>1, <2>5
      <4>3. CASE ~(i < k)
        <5>1. i - (k - 1) \in 1..(n - k) /\ k + (i - (k - 1)) = i + 1 /\ ~(i <= k - 1)
          BY <4>3, <1>1, <2>4
        <5> QED BY <4>1, <4>3, <5>1, <2>5, <2>6
      <4> QED BY <4>2, <4>3
    <3> QED BY <3>1, <3>2
  <2>9. DOMAIN r = 1..(n - 1)
    BY <2>8, LenProperties
  <2>10. Once(r)
    <3>1. SUFFICES ASSUME NEW i \in 1..(n - 1), NEW j \in 1..(n - 1), r[i] = r[j] PROVE i = j
      BY <2>9 DEF Once
    <3> DEFINE x == IF i < k THEN i ELSE i + 1
               y == IF j < k THEN j ELSE j + 1
    <3>2. x \in 1..n /\ y \in 1..n
      BY <1>1, <2>4
    <3>3. list[x] = list[y]
      BY <2>8, <3>1
    <3>4. x = y
      <4> HIDE DEF x, y
      <4> QED BY <3>2, <3>3, <1>1 DEF Once
    <3> QED BY <3>4, <1>1, <2>4
  <2>11. ToSet(r) = ToSet(list) \ {t}
    <3>1. ASSUME NEW i \in 1..(n - 1) PROVE r[i] \in ToSet(list) \ {t}
      <4> DEFINE x == IF i < k THEN i ELSE i + 1
      <4>1. x \in 1..n /\ x # k /\ r[i] = list[x]
        BY <1>1, <2>4, <2>8
      <4> HIDE DEF x
      <4>2. list[x] # t
        BY <4>1, <2>4, <1>1 DEF Once
      <4> QED BY <4>1, <4>2, <1>1 DEF ToSet
    <3>2. ASSUME NEW i \in 1..n, list[i] # t PROVE list[i] \in ToSet(r)
      <4> DEFINE x == IF i < k THEN i ELSE i - 1
      <4>1. i # k
        BY <2>4, <3>2
      <4>2. x \in 1..(n - 1) /\ (IF x < k THEN x ELSE x + 1) = i
        BY <4>1, <1>1, <2>4
      <4>3. r[x] = list[i]
        <5> HIDE DEF x
        <5> QED BY <4>2, <2>8
      <4> HIDE DEF x
      <4> QED BY <4>2, <4>3, <2>9 DEF ToSet
    <3>3. \A e \in ToSet(r) : e \in ToSet(list) \ {t}
      BY <3>1, <2>9 DEF ToSet
    <3>4. \A e \in ToSet(list) \ {t} : e \in ToSet(r)
      BY <3>2, <1>1 DEF ToSet
    <3> QED BY <3>3, <3>4
  <2>12. Within(r, list)
    <3>1. SUFFICES ASSUME NEW i \in 1..(n - 1), NEW j \in 1..(n - 1), i < j
                   PROVE  \E x, y \in DOMAIN list : x < y /\ r[i] = list[x] /\ r[j] = list[y]
      BY <2>9 DEF Within
    <3> DEFINE x == IF i < k THEN i ELSE i + 1
               y == IF j < k THEN j ELSE j + 1
    <3>2. x \in 1..n /\ y \in 1..n /\ x < y
      BY <1>1, <2>4, <3>1
    <3>3. r[i] = list[x] /\ r[j] = list[y]
      BY <2>8
    <3> HIDE DEF x, y
    <3> QED BY <3>2, <3>3, <1>1
  <2> QED BY <2>8, <2>10, <2>11, <2>12 DEF r
<1> QED BY <1>2, <1>3
(* rt_list_insert_before the node at place.                                *)
LEMMA InsertedAt ==
  ASSUME NEW list \in Seq(Thread), NEW t \in Thread, NEW place \in 1..(Len(list) + 1)
  PROVE  /\ InsertAt(list, place, t) \in Seq(Thread)
         /\ Len(InsertAt(list, place, t)) = Len(list) + 1
         /\ \A i \in 1..(Len(list) + 1) :
              InsertAt(list, place, t)[i] = IF i < place THEN list[i]
                                            ELSE IF i = place THEN t ELSE list[i - 1]
<1> DEFINE n == Len(list)
           r == InsertAt(list, place, t)
           a == SubSeq(list, 1, place - 1)
           b == SubSeq(list, place, n)
           c == <<t>>
<1>1. n \in Nat /\ DOMAIN list = 1..n /\ list \in [1..n -> Thread]
  BY LenProperties
<1>2. a \in Seq(Thread) /\ Len(a) = place - 1 /\ \A i \in 1..(place - 1) : a[i] = list[i]
  BY <1>1, SubSeqProperties
<1>3. b \in Seq(Thread) /\ Len(b) = n + 1 - place
      /\ \A i \in 1..(n + 1 - place) : b[i] = list[place + i - 1]
  <2>1. place \in Int /\ n \in Int /\ \A i \in place..n : list[i] \in Thread
    BY <1>1
  <2>2. /\ b \in Seq(Thread)
        /\ Len(b) = IF place <= n THEN n - place + 1 ELSE 0
        /\ \A i \in 1..(n - place + 1) : b[i] = list[place + i - 1]
    BY <2>1, SubSeqProperties
  <2> HIDE DEF b, n
  <2>3. n - place + 1 = n + 1 - place /\ (IF place <= n THEN n - place + 1 ELSE 0) = n + 1 - place
    BY <1>1
  <2> QED BY <2>2, <2>3
<1>4. c \in Seq(Thread) /\ Len(c) = 1 /\ c[1] = t
  OBVIOUS
<1>5. r = a \o c \o b
  BY DEF InsertAt
<1> HIDE DEF a, b, c, r, n
<1>6. /\ a \o c \in Seq(Thread) /\ Len(a \o c) = place
      /\ \A i \in 1..place : (a \o c)[i] = IF i < place THEN list[i] ELSE t
  <2>1. /\ a \o c \in Seq(Thread) /\ Len(a \o c) = Len(a) + Len(c)
        /\ \A i \in 1..(Len(a) + Len(c)) : (a \o c)[i] = IF i <= Len(a) THEN a[i] ELSE c[i - Len(a)]
    BY <1>2, <1>4, ConcatProperties
  <2>2. place \in Nat /\ place >= 1 /\ Len(a) + Len(c) = place
    BY <1>1, <1>2, <1>4
  <2>3. ASSUME NEW i \in 1..place PROVE (a \o c)[i] = IF i < place THEN list[i] ELSE t
    <3>1. (a \o c)[i] = IF i <= place - 1 THEN a[i] ELSE c[i - (place - 1)]
      BY <2>1, <2>2, <1>2
    <3>2. CASE i < place
      <4>1. i \in 1..(place - 1) /\ i <= place - 1
        BY <2>2, <3>2
      <4> QED BY <3>1, <3>2, <4>1, <1>2
    <3>3. CASE ~(i < place)
      <4>1. ~(i <= place - 1) /\ i - (place - 1) = 1
        BY <2>2, <3>3
      <4> QED BY <3>1, <3>3, <4>1, <1>4
    <3> QED BY <3>2, <3>3
  <2> QED BY <2>1, <2>2, <2>3
<1> DEFINE ac == a \o c
<1> HIDE DEF ac
<1>7. /\ ac \o b \in Seq(Thread) /\ Len(ac \o b) = n + 1
      /\ \A i \in 1..(n + 1) : (ac \o b)[i] = IF i <= place THEN ac[i] ELSE b[i - place]
  <2>1. ac \in Seq(Thread) /\ Len(ac) = place
    BY <1>6 DEF ac
  <2>2. /\ ac \o b \in Seq(Thread) /\ Len(ac \o b) = Len(ac) + Len(b)
        /\ \A i \in 1..(Len(ac) + Len(b)) : (ac \o b)[i] = IF i <= Len(ac) THEN ac[i] ELSE b[i - Len(ac)]
    BY <1>3, <2>1, ConcatProperties
  <2>3. Len(ac) + Len(b) = n + 1
    BY <1>1, <1>3, <2>1
  <2> QED BY <2>1, <2>2, <2>3
<1>8. ASSUME NEW i \in 1..(n + 1)
      PROVE  r[i] = IF i < place THEN list[i] ELSE IF i = place THEN t ELSE list[i - 1]
  <2>1. r[i] = IF i <= place THEN ac[i] ELSE b[i - place]
    BY <1>5, <1>7 DEF ac
  <2>2. CASE i <= place
    <3>1. i \in 1..place
      BY <1>1, <2>2
    <3>2. ac[i] = IF i < place THEN list[i] ELSE t
      BY <3>1, <1>6 DEF ac
    <3>3. ~(i < place) => i = place
      BY <1>1, <2>2
    <3> QED BY <2>1, <2>2, <3>2, <3>3
  <2>3. CASE ~(i <= place)
    <3>1. i - place \in 1..(n + 1 - place) /\ place + (i - place) - 1 = i - 1
          /\ ~(i < place) /\ i # place
      BY <1>1, <2>3
    <3> QED BY <2>1, <2>3, <3>1, <1>3
  <2> QED BY <2>2, <2>3
<1>9. r \in Seq(Thread) /\ Len(r) = n + 1
  BY <1>5, <1>7 DEF ac
<1> QED BY <1>8, <1>9 DEF r, n

(* Before place are the nodes whose keys are not greater than that of t.   *)
Splits(list, key, t, place) ==
  /\ place \in 1..(Len(list) + 1)
  /\ \A i \in DOMAIN list : IF i < place THEN key[list[i]] <= key[t]
                                         ELSE key[t] <= key[list[i]]

(* A list in order stays in order when t is inserted where it splits it.   *)
LEMMA InsertedInOrder ==
  ASSUME NEW list \in Seq(Thread), NEW t \in Thread, Once(list), t \notin ToSet(list),
         NEW key, \A u \in ToSet(list) \cup {t} : key[u] \in Int, Ordered(list, key),
         NEW place, Splits(list, key, t, place)
  PROVE  /\ InsertAt(list, place, t) \in Seq(Thread)
         /\ Once(InsertAt(list, place, t))
         /\ ToSet(InsertAt(list, place, t)) = ToSet(list) \cup {t}
         /\ Ordered(InsertAt(list, place, t), key)
<1> DEFINE n == Len(list)
           r == InsertAt(list, place, t)
           At(i) == IF i < place THEN i ELSE i - 1
<1>1. n \in Nat /\ DOMAIN list = 1..n
  BY LenProperties
<1>2. /\ r \in Seq(Thread) /\ Len(r) = n + 1
      /\ \A i \in 1..(n + 1) : r[i] = IF i < place THEN list[i] ELSE IF i = place THEN t ELSE list[i - 1]
  BY InsertedAt DEF Splits
<1>3. DOMAIN r = 1..(n + 1)
  BY <1>2, LenProperties
<1> HIDE DEF r, n
<1>4. place \in 1..(n + 1) /\ place \in Nat
  BY <1>1 DEF n, Splits
<1>5. ASSUME NEW i \in 1..(n + 1), i # place
      PROVE  At(i) \in 1..n /\ r[i] = list[At(i)]
  BY <1>1, <1>2, <1>4, <1>5
<1>6. ASSUME NEW i \in 1..n PROVE list[i] # t /\ list[i] \in ToSet(list)
  BY <1>1 DEF ToSet
<1>7. r[place] = t
  BY <1>2, <1>4
<1>8. Once(r)
  <2>1. SUFFICES ASSUME NEW i \in 1..(n + 1), NEW j \in 1..(n + 1), r[i] = r[j] PROVE i = j
    BY <1>3 DEF Once
  <2>2. CASE i = place \/ j = place
    <3>1. ASSUME NEW k \in 1..(n + 1), k # place PROVE r[k] # t
      <4> HIDE DEF At
      <4> QED BY <3>1, <1>5, <1>6
    <3> QED BY <2>1, <2>2, <3>1, <1>7
  <2>3. CASE i # place /\ j # place
    <3>1. At(i) = At(j)
      <4> HIDE DEF At
      <4>1. At(i) \in 1..n /\ At(j) \in 1..n /\ list[At(i)] = list[At(j)]
        BY <1>5, <2>1, <2>3
      <4> QED BY <4>1, <1>1 DEF Once
    <3> QED BY <3>1, <2>3, <1>4
  <2> QED BY <2>2, <2>3
<1>9. ToSet(r) = ToSet(list) \cup {t}
  <2>1. ASSUME NEW i \in 1..(n + 1) PROVE r[i] \in ToSet(list) \cup {t}
    <3> HIDE DEF At
    <3> QED BY <1>5, <1>6, <1>7
  <2>2. ASSUME NEW i \in 1..n PROVE list[i] \in ToSet(r)
    <3> DEFINE j == IF i < place THEN i ELSE i + 1
    <3>1. j \in 1..(n + 1) /\ j # place /\ At(j) = i
      BY <1>1, <1>4
    <3>2. r[j] = list[i]
      <4> HIDE DEF At, j
      <4> QED BY <3>1, <1>5
    <3> HIDE DEF j
    <3> QED BY <3>1, <3>2, <1>3 DEF ToSet
  <2>3. t \in ToSet(r)
    BY <1>3, <1>4, <1>7 DEF ToSet
  <2>4. \A x \in ToSet(r) : x \in ToSet(list) \cup {t}
    BY <2>1, <1>3 DEF ToSet
  <2>5. \A x \in ToSet(list) : x \in ToSet(r)
    BY <2>2, <1>1 DEF ToSet
  <2> QED BY <2>3, <2>4, <2>5
<1>10. Ordered(r, key)
  <2>1. SUFFICES ASSUME NEW i \in 1..(n + 1), NEW j \in 1..(n + 1), i < j
                 PROVE  key[r[i]] <= key[r[j]]
    BY <1>3 DEF Ordered
  <2>2. CASE i = place
    <3>1. j # place /\ ~(At(j) < place)
      BY <2>1, <2>2, <1>4
    <3> HIDE DEF At
    <3>2. At(j) \in 1..n /\ r[j] = list[At(j)]
      BY <3>1, <1>5
    <3> QED BY <2>2, <3>1, <3>2, <1>1, <1>7 DEF Splits
  <2>3. CASE j = place
    <3>1. i # place /\ At(i) < place
      BY <2>1, <2>3, <1>4
    <3> HIDE DEF At
    <3>2. At(i) \in 1..n /\ r[i] = list[At(i)]
      BY <3>1, <1>5
    <3> QED BY <2>3, <3>1, <3>2, <1>1, <1>7 DEF Splits
  <2>4. CASE i # place /\ j # place
    <3>1. At(i) < At(j)
      BY <2>1, <2>4, <1>4
    <3> HIDE DEF At
    <3>2. At(i) \in 1..n /\ r[i] = list[At(i)] /\ At(j) \in 1..n /\ r[j] = list[At(j)]
      BY <2>4, <1>5
    <3> QED BY <3>1, <3>2, <1>1 DEF Ordered
  <2> QED BY <2>2, <2>3, <2>4
<1> QED BY <1>2, <1>8, <1>9, <1>10 DEF r

(* The place a search for the first greater key finds.                     *)
FirstOf(later) == CHOOSE i \in later : \A j \in later : i <= j

(* The first one that t goes before splits an ordered list.                *)
LEMMA FirstGreater ==
  ASSUME NEW list \in Seq(Thread), NEW key, NEW t,
         \A u \in ToSet(list) \cup {t} : key[u] \in Int,
         Ordered(list, key), NEW later,
         later = {i \in DOMAIN list : key[t] < key[list[i]]}, later # {}
  PROVE  Splits(list, key, t, FirstOf(later))
<1> DEFINE n == Len(list)
           First(i) == \A j \in later : i <= j
           place == CHOOSE i \in later : First(i)
<1>1. n \in Nat /\ DOMAIN list = 1..n
  BY LenProperties
<1>2. later \subseteq Nat
  BY <1>1
<1>3. place \in later /\ First(place)
  <2>1. \E i \in later : First(i)
    BY <1>2, Least
  <2> HIDE DEF First
  <2> QED BY <2>1
<1> HIDE DEF place
<1>4. \A i \in 1..n : key[list[i]] \in Int
  BY <1>1 DEF ToSet
<1>5. place \in 1..n /\ key[t] < key[list[place]]
  BY <1>1, <1>3
<1>6. ASSUME NEW i \in 1..n, i < place PROVE key[list[i]] <= key[t]
  <2>1. i \notin later
    BY <1>3, <1>5, <1>6
  <2>2. ~(key[t] < key[list[i]])
    BY <2>1, <1>1
  <2> QED BY <2>2, <1>4
<1>7. ASSUME NEW i \in 1..n, ~(i < place) PROVE key[t] <= key[list[i]]
  <2>1. CASE i = place
    BY <2>1, <1>4, <1>5
  <2>2. CASE i # place
    <3>1. place < i
      BY <1>5, <1>7, <2>2
    <3>2. key[list[place]] <= key[list[i]]
      BY <3>1, <1>1, <1>5 DEF Ordered
    <3> QED BY <3>2, <1>4, <1>5
  <2> QED BY <2>1, <2>2
<1>8. place \in 1..(n + 1)
  BY <1>1, <1>5
<1> QED BY <1>1, <1>6, <1>7, <1>8 DEF place, n, Splits, FirstOf

(* What is left of list without its first k nodes.                         *)
LEMMA Dropped ==
  ASSUME NEW list \in Seq(Thread), Once(list), NEW k \in 0..Len(list), NEW r,
         r = SubSeq(list, k + 1, Len(list))
  PROVE  /\ r \in Seq(Thread)
         /\ Once(r)
         /\ ToSet(r) = ToSet(list) \ {list[i] : i \in 1..k}
         /\ Within(r, list)
<1> DEFINE n == Len(list)
<1>1. n \in Nat /\ DOMAIN list = 1..n /\ list \in [1..n -> Thread]
  BY LenProperties
<1>2. r \in Seq(Thread) /\ Len(r) = n - k /\ \A i \in 1..(n - k) : r[i] = list[k + i]
  <2>1. k + 1 \in Int /\ n \in Int /\ \A i \in (k + 1)..n : list[i] \in Thread
    BY <1>1
  <2>2. /\ r \in Seq(Thread)
        /\ Len(r) = IF k + 1 <= n THEN n - (k + 1) + 1 ELSE 0
        /\ \A i \in 1..(n - (k + 1) + 1) : r[i] = list[(k + 1) + i - 1]
    BY <2>1, SubSeqProperties
  <2> HIDE DEF n
  <2>3. k \in Nat /\ k <= n
    BY <1>1 DEF n
  <2>4. n - (k + 1) + 1 = n - k /\ \A i \in 1..(n - k) : (k + 1) + i - 1 = k + i
    BY <1>1, <2>3
  <2>5. Len(r) = n - k
    BY <2>2, <1>1, <2>3
  <2> QED BY <2>2, <2>4, <2>5
<1>3. DOMAIN r = 1..(n - k)
  BY <1>2, LenProperties
<1>4. k \in Nat /\ k <= n
  BY <1>1
<1> HIDE DEF n
<1>5. \A i \in 1..(n - k) : k + i \in 1..n
  BY <1>1, <1>4
<1>6. Once(r)
  <2>1. SUFFICES ASSUME NEW i \in 1..(n - k), NEW j \in 1..(n - k), r[i] = r[j] PROVE i = j
    BY <1>3 DEF Once
  <2>2. list[k + i] = list[k + j] /\ k + i \in 1..n /\ k + j \in 1..n
    BY <2>1, <1>2, <1>5
  <2>3. k + i = k + j
    BY <2>2, <1>1 DEF Once
  <2> QED BY <2>3, <1>4
<1>7. Within(r, list)
  <2>1. SUFFICES ASSUME NEW i \in 1..(n - k), NEW j \in 1..(n - k), i < j
                 PROVE  \E x, y \in DOMAIN list : x < y /\ r[i] = list[x] /\ r[j] = list[y]
    BY <1>3 DEF Within
  <2>2. k + i < k + j /\ k + i \in 1..n /\ k + j \in 1..n
    BY <2>1, <1>4, <1>5
  <2> QED BY <2>2, <1>1, <1>2
<1>8. ToSet(r) = ToSet(list) \ {list[i] : i \in 1..k}
  <2>1. ASSUME NEW i \in 1..(n - k) PROVE r[i] \in ToSet(list) \ {list[j] : j \in 1..k}
    <3>1. k + i \in 1..n /\ r[i] = list[k + i]
      BY <1>2, <1>5
    <3>2. ASSUME NEW j \in 1..k PROVE list[j] # list[k + i]
      <4>1. j \in 1..n /\ j # k + i
        BY <1>1, <1>4
      <4> QED BY <3>1, <4>1, <1>1 DEF Once
    <3>3. list[k + i] \in ToSet(list)
      BY <3>1, <1>1 DEF ToSet
    <3> QED BY <3>1, <3>2, <3>3
  <2>2. ASSUME NEW i \in 1..n, i \notin 1..k PROVE list[i] \in ToSet(r)
    <3>1. i - k \in 1..(n - k) /\ k + (i - k) = i
      BY <2>2, <1>1, <1>4
    <3>2. r[i - k] = list[i]
      BY <3>1, <1>2
    <3> QED BY <3>1, <3>2, <1>3 DEF ToSet
  <2>3. \A x \in ToSet(r) : x \in ToSet(list) \ {list[j] : j \in 1..k}
    BY <2>1, <1>3 DEF ToSet
  <2>4. ASSUME NEW x \in ToSet(list) \ {list[j] : j \in 1..k} PROVE x \in ToSet(r)
    <3>1. PICK i \in 1..n : x = list[i]
      BY <1>1 DEF ToSet
    <3>2. i \notin 1..k
      BY <2>4, <3>1
    <3> QED BY <2>2, <3>1, <3>2
  <2> QED BY <2>3, <2>4
<1> QED BY <1>2, <1>6, <1>7, <1>8

-----------------------------------------------------------------------------
(* The scheduler                                                           *)

(* The states of a thread.                                                 *)
Stats == {"INIT", "READY", "SUSPEND", "CLOSE"}

(* The ready threads are those on the ready lists, each once and on the    *)
(* list of its current priority.                                           *)
Fit(s) ==
  /\ s \in [stat : [Thread -> Stats], prio : [Thread -> Priorities],
            table : [Priorities -> Seq(Thread)],
            cur : Thread, nest : Nat, armed : SUBSET Thread]
  /\ \A p \in Priorities :
       /\ Once(s.table[p])
       /\ ToSet(s.table[p]) = {t \in Thread : s.stat[t] = "READY" /\ s.prio[t] = p}
  /\ s.stat[Idle] = "READY"

(* The running thread is ready and, if scheduling is not locked, none that *)
(* is ready is more urgent.                                                *)
Picked(s) ==
  /\ s.stat[s.cur] = "READY"
  /\ s.nest = 0 => \A t \in Thread : s.stat[t] = "READY" => s.prio[s.cur] <= s.prio[t]

(* r is s after rt_schedule().                                             *)
Dispatched(s, r) ==
  /\ Fit(r)
  /\ Picked(r)
  /\ r.stat = s.stat
  /\ r.prio = s.prio
  /\ r.armed = s.armed
  /\ r.nest = s.nest

(* rt_schedule, unless it is locked, picks the most urgent ready thread.   *)
LEMMA Dispatch ==
  ASSUME NEW s, Fit(s), s.nest = 0 \/ s.stat[s.cur] = "READY"
  PROVE  Dispatched(s, rt_schedule(s))
<1>1. CASE s.nest # 0
  <2>1. rt_schedule(s) = s
    BY <1>1 DEF rt_schedule
  <2> QED BY <1>1, <2>1 DEF Dispatched, Picked
<1>2. CASE s.nest = 0
  <2> DEFINE P == {p \in Priorities : s.table[p] # <<>>}
  <2>1. Priorities \subseteq Nat /\ \A t \in Thread : s.prio[t] \in Priorities
    <3>1. Priorities \subseteq Nat
      BY KernelAssumption DEF Priorities
    <3> QED BY <3>1 DEF Fit
  <2>2. \A p \in Priorities : s.table[p] \in Seq(Thread)
    BY DEF Fit
  <2>3. ASSUME NEW t \in Thread, s.stat[t] = "READY" PROVE s.prio[t] \in P
    <3>1. t \in ToSet(s.table[s.prio[t]])
      BY <2>1, <2>3 DEF Fit
    <3>2. s.table[s.prio[t]] # <<>>
      BY <3>1 DEF ToSet
    <3> QED BY <3>2, <2>1
  <2>4. P \subseteq Nat /\ P # {}
    BY <2>1, <2>3, KernelAssumption DEF Fit
  <2>5. PICK x \in P : \A y \in P : x <= y
    <3> HIDE DEF P
    <3> QED BY <2>4, Least
  <2>6. PICK p \in P : p = MostUrgent(s) /\ \A q \in P : p <= q
    <3>1. x \in Priorities /\ s.table[x] # <<>> /\ \A q \in Priorities : s.table[q] # <<>> => x <= q
      BY <2>5
    <3> DEFINE Most(y) == s.table[y] # <<>> /\ \A q \in Priorities : s.table[q] # <<>> => y <= q
    <3>2. \E y \in Priorities : y = (CHOOSE z \in Priorities : Most(z)) /\ Most(y)
      <4>1. Most(x)
        BY <3>1
      <4> HIDE DEF Most
      <4> QED BY <3>1, <4>1
    <3> QED BY <3>2 DEF MostUrgent
  <2> DEFINE c == Head(s.table[p])
  <2>7. c \in ToSet(s.table[p])
    <3>1. s.table[p] \in Seq(Thread) /\ s.table[p] # <<>>
      BY <2>2, <2>6
    <3>2. Len(s.table[p]) \in Nat \ {0} /\ DOMAIN s.table[p] = 1..Len(s.table[p])
      BY <3>1, EmptySeq, LenProperties
    <3>3. c = s.table[p][1] /\ 1 \in DOMAIN s.table[p]
      BY <3>1, <3>2
    <3> QED BY <3>3 DEF ToSet
  <2>8. c \in Thread /\ s.stat[c] = "READY" /\ s.prio[c] = p
    <3> HIDE DEF c
    <3> QED BY <2>7, <2>6 DEF Fit
  <2>9. rt_schedule(s) = [s EXCEPT !.cur = c]
    BY <1>2, <2>6 DEF rt_schedule
  <2> HIDE DEF c
  <2> DEFINE r == [s EXCEPT !.cur = c]
  <2>10. /\ r.stat = s.stat /\ r.armed = s.armed /\ r.nest = s.nest /\ r.table = s.table
         /\ r.prio = s.prio /\ r.cur = c
    BY DEF Fit
  <2>11. r \in [stat : [Thread -> Stats], prio : [Thread -> Priorities],
               table : [Priorities -> Seq(Thread)],
               cur : Thread, nest : Nat, armed : SUBSET Thread]
    BY <2>8 DEF Fit
  <2> HIDE DEF r
  <2>12. Fit(r)
    BY <2>10, <2>11 DEF Fit
  <2>13. Picked(r)
    <3>1. ASSUME NEW t \in Thread, s.stat[t] = "READY" PROVE s.prio[c] <= s.prio[t]
      BY <3>1, <2>3, <2>6, <2>8
    <3> QED BY <3>1, <2>8, <2>10 DEF Picked
  <2>14. rt_schedule(s) = r
    BY <2>9 DEF r
  <2> QED BY <2>10, <2>12, <2>13, <2>14 DEF Dispatched
<1> QED BY <1>1, <1>2

(* r is s but for the status of t and the timers.                          *)
Changed(s, r, t, x, timers) ==
  /\ Fit(r)
  /\ r.stat = [s.stat EXCEPT ![t] = x]
  /\ r.prio = s.prio
  /\ r.armed = timers
  /\ r.nest = s.nest
  /\ r.cur = s.cur

(* The list of one priority changes with the state of one thread.          *)
LEMMA Relisted ==
  ASSUME NEW s, Fit(s), NEW t \in Thread, NEW x \in Stats, t = Idle => x = "READY",
         NEW timers \in SUBSET Thread, NEW list \in Seq(Thread), Once(list),
         ToSet(list) = IF x = "READY" THEN ToSet(s.table[s.prio[t]]) \cup {t}
                       ELSE ToSet(s.table[s.prio[t]]) \ {t}
  PROVE  Changed(s, [s EXCEPT !.stat = [@ EXCEPT ![t] = x],
                              !.table = [@ EXCEPT ![s.prio[t]] = list],
                              !.armed = timers], t, x, timers)
<1> DEFINE r == [s EXCEPT !.stat = [@ EXCEPT ![t] = x],
                          !.table = [@ EXCEPT ![s.prio[t]] = list],
                          !.armed = timers]
<1>1. s.prio[t] \in Priorities
  BY DEF Fit
<1>2. /\ s.stat \in [Thread -> Stats] /\ s.table \in [Priorities -> Seq(Thread)]
      /\ s.cur \in Thread /\ s.nest \in Nat
  BY DEF Fit
<1>3. /\ r.stat = [s.stat EXCEPT ![t] = x]
      /\ r.table = [s.table EXCEPT ![s.prio[t]] = list]
      /\ r.armed = timers /\ r.nest = s.nest /\ r.cur = s.cur /\ r.prio = s.prio
  BY DEF Fit
<1>4. r \in [stat : [Thread -> Stats], prio : [Thread -> Priorities],
            table : [Priorities -> Seq(Thread)],
            cur : Thread, nest : Nat, armed : SUBSET Thread]
  <2>1. [s.stat EXCEPT ![t] = x] \in [Thread -> Stats]
    BY <1>2
  <2>2. [s.table EXCEPT ![s.prio[t]] = list] \in [Priorities -> Seq(Thread)]
    BY <1>1, <1>2
  <2> QED BY <2>1, <2>2 DEF Fit
<1> HIDE DEF r
<1>5. ASSUME NEW p \in Priorities
      PROVE  /\ Once(r.table[p])
             /\ ToSet(r.table[p]) = {u \in Thread : r.stat[u] = "READY" /\ r.prio[u] = p}
  <2>1. CASE p # s.prio[t]
    BY <2>1, <1>2, <1>3 DEF Fit
  <2>2. CASE p = s.prio[t]
    <3>1. r.table[p] = list
      BY <2>2, <1>1, <1>2, <1>3
    <3>2. r.stat[t] = x /\ \A u \in Thread : u # t => r.stat[u] = s.stat[u]
      BY <1>2, <1>3
    <3>3. ToSet(s.table[p]) = {u \in Thread : s.stat[u] = "READY" /\ s.prio[u] = p}
      BY DEF Fit
    <3>4. r.prio = s.prio
      BY <1>3
    <3>5. ToSet(r.table[p]) = {u \in Thread : r.stat[u] = "READY" /\ s.prio[u] = p}
      BY <2>2, <3>1, <3>2, <3>3
    <3> QED BY <3>1, <3>4, <3>5
  <2> QED BY <2>1, <2>2
<1>6. r.stat[Idle] = "READY"
  BY <1>2, <1>3 DEF Fit
<1> QED BY <1>3, <1>4, <1>5, <1>6 DEF Changed, Fit, r

(* rt_schedule_insert_thread: t is ready.                                  *)
LEMMA Inserted ==
  ASSUME NEW s, Fit(s), NEW t \in Thread, s.stat[t] # "READY"
  PROVE  Changed(s, rt_schedule_insert_thread(s, t), t, "READY", s.armed)
<1> DEFINE p == s.prio[t]
           list == Append(s.table[p], t)
<1>1. p \in Priorities
  BY DEF Fit
<1>2. s.table[p] \in Seq(Thread) /\ Once(s.table[p]) /\ t \notin ToSet(s.table[p])
  BY <1>1 DEF Fit
<1>3. list \in Seq(Thread) /\ Once(list) /\ ToSet(list) = ToSet(s.table[p]) \cup {t}
  BY <1>2, Linked
<1>4. rt_schedule_insert_thread(s, t) =
        [s EXCEPT !.stat = [@ EXCEPT ![t] = "READY"],
                  !.table = [@ EXCEPT ![p] = list], !.armed = s.armed]
  BY DEF rt_schedule_insert_thread, Fit
<1>5. "READY" \in Stats /\ s.armed \in SUBSET Thread
  BY DEF Stats, Fit
<1> HIDE DEF list
<1>6. Changed(s, [s EXCEPT !.stat = [@ EXCEPT ![t] = "READY"],
                           !.table = [@ EXCEPT ![p] = list], !.armed = s.armed],
              t, "READY", s.armed)
  BY <1>3, <1>5, Relisted
<1> QED BY <1>4, <1>6

(* rt_schedule_remove_thread: t is no longer ready.                        *)
LEMMA Removed ==
  ASSUME NEW s, Fit(s), NEW t \in Thread \ {Idle}, NEW x \in Stats \ {"READY"},
         NEW timers \in SUBSET Thread
  PROVE  Changed(s, [rt_schedule_remove_thread(s, t) EXCEPT !.stat[t] = x, !.armed = timers],
                 t, x, timers)
<1> DEFINE p == s.prio[t]
           list == RemoveFirst(s.table[p], t)
<1>1. p \in Priorities
  BY DEF Fit
<1>2. s.table[p] \in Seq(Thread) /\ Once(s.table[p])
  BY <1>1 DEF Fit
<1>3. list \in Seq(Thread) /\ Once(list) /\ ToSet(list) = ToSet(s.table[p]) \ {t}
  BY <1>2, TakenOut
<1>4. [rt_schedule_remove_thread(s, t) EXCEPT !.stat[t] = x, !.armed = timers] =
        [s EXCEPT !.stat = [@ EXCEPT ![t] = x],
                  !.table = [@ EXCEPT ![p] = list], !.armed = timers]
  BY DEF rt_schedule_remove_thread, Fit
<1> HIDE DEF list
<1>5. Changed(s, [s EXCEPT !.stat = [@ EXCEPT ![t] = x],
                           !.table = [@ EXCEPT ![p] = list], !.armed = timers],
              t, x, timers)
  BY <1>3, Relisted
<1> QED BY <1>4, <1>5

(* A call of the kernel gave t the status x and, after its rt_schedule(),  *)
(* the right thread runs.                                                  *)
Effect(s, r, t, x, timers) ==
  /\ Fit(r)
  /\ Picked(r)
  /\ r.stat = [s.stat EXCEPT ![t] = x]
  /\ r.prio = s.prio
  /\ r.armed = timers
  /\ r.nest = s.nest

(* A change and rt_schedule.                                               *)
LEMMA ChangedThenDispatched ==
  ASSUME NEW s, NEW r, NEW t, NEW x, NEW timers,
         Changed(s, r, t, x, timers), s.nest = 0 \/ r.stat[r.cur] = "READY"
  PROVE  Effect(s, rt_schedule(r), t, x, timers)
<1>1. Fit(r) /\ (r.nest = 0 \/ r.stat[r.cur] = "READY")
  BY DEF Changed
<1>2. Dispatched(r, rt_schedule(r))
  BY <1>1, Dispatch
<1> QED BY <1>2 DEF Dispatched, Changed, Effect

(* rt_thread_startup of a thread that was made, perhaps above its creator. *)
LEMMA StartUp ==
  ASSUME NEW s, Fit(s), s.nest = 0, NEW t \in Thread, s.stat[t] = "INIT",
         s.prio[t] = InitPriority[t]
  PROVE  Effect(s, rt_thread_startup(s, t), t, "READY", s.armed \ {t})
<1> DEFINE a == [s EXCEPT !.prio[t] = InitPriority[t], !.stat[t] = "SUSPEND"]
           b == [a EXCEPT !.armed = @ \ {t}]
           c == rt_schedule_insert_thread(b, t)
<1>1. b = [s EXCEPT !.stat = [@ EXCEPT ![t] = "SUSPEND"],
                    !.table = [@ EXCEPT ![s.prio[t]] = s.table[s.prio[t]]],
                    !.armed = s.armed \ {t}]
  BY KernelAssumption DEF Fit
<1>2. Changed(s, b, t, "SUSPEND", s.armed \ {t})
  <2> DEFINE list == s.table[s.prio[t]]
  <2>1. s.prio[t] \in Priorities
    BY DEF Fit
  <2>2. list \in Seq(Thread) /\ Once(list) /\ t \notin ToSet(list)
    BY <2>1 DEF Fit
  <2>3. ToSet(list) = ToSet(list) \ {t}
    BY <2>2
  <2>4. "SUSPEND" \in Stats /\ t # Idle /\ s.armed \ {t} \in SUBSET Thread
    BY DEF Stats, Fit
  <2> HIDE DEF b
  <2> QED BY <1>1, <2>2, <2>3, <2>4, Relisted
<1>3. a.stat[t] = "SUSPEND"
  BY DEF Fit
<1>4. rt_thread_startup(s, t) = rt_schedule(c)
  BY <1>3 DEF rt_thread_startup, rt_thread_resume
<1> HIDE DEF a, b
<1>5. /\ Fit(b) /\ b.nest = 0 /\ b.armed = s.armed \ {t} /\ b.prio = s.prio
      /\ b.stat = [s.stat EXCEPT ![t] = "SUSPEND"] /\ b.stat[t] # "READY"
  BY <1>2 DEF Changed, Fit
<1>6. Changed(b, c, t, "READY", b.armed)
  BY <1>5, Inserted
<1> HIDE DEF c
<1>7. Effect(b, rt_schedule(c), t, "READY", b.armed)
  BY <1>5, <1>6, ChangedThenDispatched
<1>8. [b.stat EXCEPT ![t] = "READY"] = [s.stat EXCEPT ![t] = "READY"]
  BY <1>5 DEF Fit
<1> QED BY <1>4, <1>5, <1>7, <1>8 DEF Effect

(* rt_thread_timeout: t is ready.                                          *)
LEMMA Woken ==
  ASSUME NEW s, Fit(s), s.stat[s.cur] = "READY", NEW t \in Thread, s.stat[t] # "READY"
  PROVE  Effect(s, rt_thread_timeout(s, t), t, "READY", s.armed \ {t})
<1> DEFINE b == [s EXCEPT !.armed = @ \ {t}]
           c == rt_schedule_insert_thread(b, t)
<1>1. b.stat = s.stat /\ b.prio = s.prio /\ b.nest = s.nest /\ b.cur = s.cur /\ b.armed = s.armed \ {t} /\ Fit(b)
  BY DEF Fit
<1>2. rt_thread_timeout(s, t) = rt_schedule(c)
  BY DEF rt_thread_timeout
<1> HIDE DEF b
<1>3. Changed(b, c, t, "READY", b.armed)
  BY <1>1, Inserted
<1> HIDE DEF c
<1>4. c.stat[c.cur] = "READY"
  BY <1>1, <1>3 DEF Changed, Picked, Fit
<1>5. Effect(b, rt_schedule(c), t, "READY", b.armed)
  BY <1>3, <1>4, ChangedThenDispatched
<1> QED BY <1>1, <1>2, <1>5 DEF Effect

(* rt_thread_resume and rt_schedule: t is ready, its timer off.            *)
LEMMA Resumed ==
  ASSUME NEW s, Fit(s), s.stat[s.cur] = "READY", NEW t \in Thread, s.stat[t] = "SUSPEND"
  PROVE  Effect(s, rt_schedule(rt_thread_resume(s, t)), t, "READY", s.armed \ {t})
<1>1. rt_schedule(rt_thread_resume(s, t)) = rt_thread_timeout(s, t)
  BY DEF rt_thread_resume, rt_thread_timeout
<1> QED BY <1>1, Woken

(* The caller waits, with its timer running or not.                        *)
LEMMA BlockedWith ==
  ASSUME NEW s, Fit(s), s.nest = 0, NEW t \in Thread \ {Idle}, s.stat[t] = "READY",
         NEW timers \in SUBSET Thread
  PROVE  Effect(s, rt_schedule([rt_thread_suspend(s, t) EXCEPT !.armed = timers]),
                t, "SUSPEND", timers)
<1> DEFINE r == [rt_thread_suspend(s, t) EXCEPT !.armed = timers]
<1>1. "SUSPEND" \in Stats \ {"READY"}
  BY DEF Stats
<1>2. r = [rt_schedule_remove_thread(s, t) EXCEPT !.stat[t] = "SUSPEND", !.armed = timers]
  BY DEF rt_thread_suspend, rt_schedule_remove_thread, Fit
<1>3. Changed(s, r, t, "SUSPEND", timers)
  <2> HIDE DEF r
  <2> QED BY <1>1, <1>2, Removed
<1> QED BY <1>3, ChangedThenDispatched

(* rt_thread_suspend stops the timer of t.                                 *)
LEMMA Suspended ==
  ASSUME NEW s, Fit(s), NEW t \in Thread, s.stat[t] = "READY"
  PROVE  /\ rt_thread_suspend(s, t).armed = s.armed \ {t}
         /\ rt_thread_suspend(s, t) = [rt_thread_suspend(s, t) EXCEPT !.armed = s.armed \ {t}]
BY DEF rt_thread_suspend, rt_schedule_remove_thread, Fit

(* The caller waits without a timer.                                       *)
LEMMA Blocked ==
  ASSUME NEW s, Fit(s), s.nest = 0, NEW t \in Thread \ {Idle}, s.stat[t] = "READY"
  PROVE  Effect(s, rt_schedule(rt_thread_suspend(s, t)), t, "SUSPEND", s.armed \ {t})
<1>1. s.armed \ {t} \in SUBSET Thread
  BY DEF Fit
<1>2. Effect(s, rt_schedule([rt_thread_suspend(s, t) EXCEPT !.armed = s.armed \ {t}]),
             t, "SUSPEND", s.armed \ {t})
  BY <1>1, BlockedWith
<1> QED BY <1>2, Suspended

(* rt_thread_delay: the caller waits with its timer running.               *)
LEMMA Delayed ==
  ASSUME NEW s, Fit(s), s.nest = 0, NEW t \in Thread \ {Idle}, s.stat[t] = "READY"
  PROVE  Effect(s, rt_thread_delay(s, t), t, "SUSPEND", s.armed \cup {t})
<1> DEFINE timers == s.armed \cup {t}
<1>1. timers \in SUBSET Thread
  BY DEF Fit
<1>2. rt_thread_delay(s, t) = rt_schedule([rt_thread_suspend(s, t) EXCEPT !.armed = timers])
  <2>1. rt_thread_suspend(s, t).armed \cup {t} = timers
    BY Suspended
  <2> QED BY <2>1 DEF rt_thread_delay
<1> HIDE DEF timers
<1>3. Effect(s, rt_schedule([rt_thread_suspend(s, t) EXCEPT !.armed = timers]),
             t, "SUSPEND", timers)
  BY <1>1, BlockedWith
<1> QED BY <1>2, <1>3 DEF timers

(* rt_thread_exit: the caller is closed and never ready again.             *)
LEMMA Exited ==
  ASSUME NEW s, Fit(s), s.nest = 0, NEW t \in Thread \ {Idle}, s.stat[t] = "READY"
  PROVE  Effect(s, rt_thread_exit(s, t), t, "CLOSE", s.armed \ {t})
<1> DEFINE r == [rt_schedule_remove_thread(s, t) EXCEPT !.stat[t] = "CLOSE", !.armed = @ \ {t}]
<1>1. "CLOSE" \in Stats \ {"READY"} /\ s.armed \ {t} \in SUBSET Thread
  BY DEF Stats, Fit
<1>2. r = [rt_schedule_remove_thread(s, t) EXCEPT !.stat[t] = "CLOSE", !.armed = s.armed \ {t}]
  BY DEF rt_schedule_remove_thread, Fit
<1>3. Changed(s, r, t, "CLOSE", s.armed \ {t})
  <2> HIDE DEF r
  <2> QED BY <1>1, <1>2, Removed
<1>4. rt_thread_exit(s, t) = rt_schedule(r)
  BY DEF rt_thread_exit
<1> QED BY <1>3, <1>4, ChangedThenDispatched

(* The end of a time slice changes the order of equals only.               *)
LEMMA Yielded ==
  ASSUME NEW s, Fit(s), s.stat[s.cur] = "READY"
  PROVE  rt_thread_yield(s) = s \/ Dispatched(s, rt_thread_yield(s))
<1> DEFINE t == s.cur
           p == s.prio[t]
           l == RemoveFirst(s.table[p], t)
           list == Append(l, t)
           r == [s EXCEPT !.table[p] = list]
<1>1. t \in Thread /\ s.stat[t] = "READY"
  BY DEF Fit
<1>2. CASE ~(Len(s.table[p]) > 1)
  <2>1. rt_thread_yield(s) = s
    BY <1>1, <1>2 DEF rt_thread_yield
  <2> QED BY <2>1
<1>3. CASE Len(s.table[p]) > 1
  <2>1. p \in Priorities
    BY <1>1 DEF Fit
  <2>2. s.table[p] \in Seq(Thread) /\ Once(s.table[p]) /\ t \in ToSet(s.table[p])
    BY <2>1, <1>1 DEF Fit
  <2>3. l \in Seq(Thread) /\ Once(l) /\ ToSet(l) = ToSet(s.table[p]) \ {t}
    BY <2>2, TakenOut
  <2>4. list \in Seq(Thread) /\ Once(list) /\ ToSet(list) = ToSet(l) \cup {t}
    <3> HIDE DEF l
    <3> QED BY <1>1, <2>3, Linked
  <2>5. ToSet(list) = ToSet(s.table[p]) \cup {t}
    BY <2>2, <2>3, <2>4
  <2>6. rt_thread_yield(s) = rt_schedule(r)
    BY <1>1, <1>3 DEF rt_thread_yield
  <2> HIDE DEF list, l
  <2>7. r = [s EXCEPT !.stat = [@ EXCEPT ![t] = "READY"],
                      !.table = [@ EXCEPT ![p] = list], !.armed = s.armed]
    <3> HIDE DEF p
    <3> QED BY <1>1 DEF Fit
  <2>8. "READY" \in Stats /\ s.armed \in SUBSET Thread
    BY DEF Stats, Fit
  <2> HIDE DEF r
  <2>9. Changed(s, r, t, "READY", s.armed)
    <3> HIDE DEF t
    <3> QED BY <1>1, <2>4, <2>5, <2>7, <2>8, Relisted DEF p
  <2>10. r.stat[r.cur] = "READY"
    BY <1>1, <2>9 DEF Changed, Fit
  <2>11. Effect(s, rt_schedule(r), t, "READY", s.armed)
    BY <2>9, <2>10, ChangedThenDispatched
  <2>12. [s.stat EXCEPT ![t] = "READY"] = s.stat
    BY <1>1 DEF Fit
  <2> QED BY <2>6, <2>11, <2>12 DEF Effect, Dispatched
<1> QED BY <1>2, <1>3

(* rt_exit_critical lets the most urgent ready thread run.                 *)
LEMMA Unlocked ==
  ASSUME NEW s, Fit(s), s.nest = 1
  PROVE  LET r == rt_exit_critical(s)
         IN  /\ Fit(r) /\ Picked(r) /\ r.stat = s.stat /\ r.prio = s.prio
             /\ r.armed = s.armed /\ r.nest = 0
<1> DEFINE b == [s EXCEPT !.nest = 0]
<1>1. Fit(b) /\ b.stat = s.stat /\ b.prio = s.prio /\ b.armed = s.armed /\ b.nest = 0
  BY DEF Fit
<1>2. rt_exit_critical(s) = rt_schedule(b)
  BY DEF rt_exit_critical
<1> HIDE DEF b
<1>3. Dispatched(b, rt_schedule(b))
  BY <1>1, Dispatch
<1> QED BY <1>1, <1>2, <1>3 DEF Dispatched

(* r is s but for the priority of t.                                       *)
Repriced(s, r, t, p) ==
  /\ Fit(r)
  /\ r.stat = s.stat
  /\ r.prio = [s.prio EXCEPT ![t] = p]
  /\ r.armed = s.armed
  /\ r.nest = s.nest
  /\ r.cur = s.cur

(* A ready thread moves to the ready list of its new priority.             *)
LEMMA PriorityChanged ==
  ASSUME NEW s, Fit(s), NEW t \in Thread \ {Idle}, NEW p \in Priorities
  PROVE  Repriced(s, ChangePriority(s, t, p), t, p)
<1>1. /\ s.stat \in [Thread -> Stats] /\ s.prio \in [Thread -> Priorities]
      /\ s.cur \in Thread /\ s.nest \in Nat /\ s.armed \in SUBSET Thread
      /\ s.table \in [Priorities -> Seq(Thread)]
  BY DEF Fit
<1>2. ASSUME NEW b, Fit(b), b.stat[t] # "READY" PROVE Repriced(b, [b EXCEPT !.prio[t] = p], t, p)
  <2> DEFINE r == [b EXCEPT !.prio[t] = p]
  <2>1. /\ r.stat = b.stat /\ r.prio = [b.prio EXCEPT ![t] = p] /\ r.table = b.table
        /\ r.armed = b.armed /\ r.nest = b.nest /\ r.cur = b.cur
    BY <1>2 DEF Fit
  <2>2. r \in [stat : [Thread -> Stats], prio : [Thread -> Priorities],
               table : [Priorities -> Seq(Thread)],
               cur : Thread, nest : Nat, armed : SUBSET Thread]
    BY <1>2 DEF Fit
  <2> HIDE DEF r
  <2>3. \A u \in Thread : b.stat[u] = "READY" => r.prio[u] = b.prio[u]
    BY <1>2, <2>1 DEF Fit
  <2>4. ASSUME NEW q \in Priorities
        PROVE  {u \in Thread : r.stat[u] = "READY" /\ r.prio[u] = q} =
                 {u \in Thread : b.stat[u] = "READY" /\ b.prio[u] = q}
    BY ONLY <2>1, <2>3
  <2>5. Fit(r)
    BY ONLY <1>2, <2>1, <2>2, <2>4 DEF Fit
  <2> QED BY <2>1, <2>5 DEF Repriced, r
<1>3. CASE s.stat[t] # "READY"
  <2>1. ChangePriority(s, t, p) = [s EXCEPT !.prio[t] = p]
    BY <1>3 DEF ChangePriority
  <2> QED BY <1>2, <1>3, <2>1
<1>4. CASE s.stat[t] = "READY"
  <2> DEFINE a == [rt_schedule_remove_thread(s, t) EXCEPT !.stat[t] = "SUSPEND", !.armed = s.armed]
             b == [a EXCEPT !.prio[t] = p]
             c == rt_schedule_insert_thread(b, t)
  <2>1. Changed(s, a, t, "SUSPEND", s.armed)
    <3>1. "SUSPEND" \in Stats \ {"READY"}
      BY DEF Stats
    <3> QED BY <1>1, <3>1, Removed
  <2>2. c = ChangePriority(s, t, p)
    BY <1>1, <1>4 DEF ChangePriority, rt_schedule_remove_thread, rt_schedule_insert_thread, Fit
  <2>3. Fit(a) /\ a.stat[t] # "READY"
    <3> HIDE DEF a
    <3> QED BY <1>1, <2>1 DEF Changed
  <2>4. Repriced(a, b, t, p)
    <3> HIDE DEF a
    <3> QED BY <1>2, <2>3
  <2> HIDE DEF a, b
  <2>5. Fit(b) /\ b.stat[t] # "READY"
    BY <2>3, <2>4 DEF Repriced
  <2>6. Changed(b, c, t, "READY", b.armed)
    <3>1. Changed(b, rt_schedule_insert_thread(b, t), t, "READY", b.armed)
      BY <2>5, Inserted
    <3> QED BY <3>1
  <2> HIDE DEF c
  <2>7. [[s.stat EXCEPT ![t] = "SUSPEND"] EXCEPT ![t] = "READY"] = s.stat
    BY <1>1, <1>4
  <2>8. Repriced(s, c, t, p)
    BY <2>1, <2>4, <2>6, <2>7 DEF Repriced, Changed
  <2> QED BY <2>2, <2>8
<1> QED BY <1>3, <1>4

-----------------------------------------------------------------------------
(* Waiters                                                                 *)

(* rt_ipc_list_suspend keeps the waiters in the order of priority.         *)
Agrees(s, key, list, t) ==
  \A u \in ToSet(list) \cup {t} : key[u] \in Int /\ s.prio[u] = key[u]

(* q is the list with t in its place.                                      *)
Queued(q, list, t, key) ==
  q \in Seq(Thread) /\ Once(q) /\ ToSet(q) = ToSet(list) \cup {t} /\ Ordered(q, key)

(* rt_ipc_list_suspend of RT_IPC_FLAG_PRIO: the list of waiters stays in   *)
(* order.                                                                  *)
LEMMA Enqueued ==
  ASSUME NEW s, NEW list \in Seq(Thread), NEW t \in Thread, Once(list), t \notin ToSet(list),
         NEW key, Ordered(list, key), Agrees(s, key, list, t)
  PROVE  Queued(Enqueue(s, list, t), list, t, key)
<1> DEFINE n == Len(list)
           q == Enqueue(s, list, t)
           later == {i \in DOMAIN list : s.prio[t] < s.prio[list[i]]}
           place == CHOOSE i \in later : \A j \in later : i <= j
<1>1. n \in Nat /\ DOMAIN list = 1..n
  BY LenProperties
<1>2. \A i \in DOMAIN list : list[i] \in ToSet(list) /\ list[i] \in Thread
  BY DEF ToSet
<1>3. later = {i \in DOMAIN list : key[t] < key[list[i]]}
  BY <1>2 DEF Agrees
<1>4. \A u \in ToSet(list) \cup {t} : key[u] \in Int
  BY DEF Agrees
<1>5. q = IF later = {} THEN Append(list, t) ELSE InsertAt(list, place, t)
  BY DEF Enqueue
<1> HIDE DEF q
<1>6. CASE later = {}
  <2> DEFINE a == Append(list, t)
  <2>1. /\ a \in Seq(Thread) /\ Once(a) /\ ToSet(a) = ToSet(list) \cup {t}
        /\ Len(a) = n + 1 /\ \A i \in 1..n : a[i] = list[i]
        /\ a[n + 1] = t
    BY Linked, AppendProperties
  <2>2. DOMAIN a = 1..(n + 1)
    BY <2>1, LenProperties
  <2> HIDE DEF a, n
  <2>3. \A i \in 1..n : key[list[i]] <= key[t]
    <3>1. \A i \in 1..n : ~(key[t] < key[list[i]]) /\ key[list[i]] \in Int /\ key[t] \in Int
      BY <1>1, <1>2, <1>3, <1>4, <1>6
    <3> QED BY <3>1
  <2>4. Ordered(a, key)
    <3>1. SUFFICES ASSUME NEW i \in 1..(n + 1), NEW j \in 1..(n + 1), i < j PROVE key[a[i]] <= key[a[j]]
      BY <2>2 DEF Ordered
    <3>2. i \in 1..n /\ (j \in 1..n \/ j = n + 1)
      BY <3>1, <1>1
    <3> QED BY <3>1, <3>2, <2>1, <2>3, <1>1 DEF Ordered
  <2> QED BY <1>5, <1>6, <2>1, <2>4 DEF a, q, Queued
<1>7. CASE later # {}
  <2>1. Splits(list, key, t, place)
    <3> HIDE DEF later
    <3>1. Splits(list, key, t, FirstOf(later))
      BY <1>3, <1>4, <1>7, FirstGreater
    <3>2. place = FirstOf(later)
      BY DEF FirstOf
    <3> QED BY <3>1, <3>2
  <2> DEFINE b == InsertAt(list, place, t)
  <2> HIDE DEF place
  <2>2. b \in Seq(Thread) /\ Once(b) /\ ToSet(b) = ToSet(list) \cup {t} /\ Ordered(b, key)
    BY <1>4, <2>1, InsertedInOrder
  <2> QED BY <1>5, <1>7, <2>2 DEF q, Queued
<1> QED BY <1>6, <1>7 DEF q

-----------------------------------------------------------------------------
(* The fields of a mutex                                                   *)

(* The values of a mutex.                                                  *)
MutexType == [value : Nat, hold : Nat, owner : Thread \cup {Nobody}, original : Nat,
              waiters : Seq(Thread)]

(* The fields of a mutex.                                                  *)
MutexHas(mx, m, v, h, o, g, w) ==
  /\ mx \in [Mutex -> MutexType]
  /\ mx[m].value = v /\ mx[m].hold = h /\ mx[m].owner = o /\ mx[m].original = g
  /\ mx[m].waiters = w

(* The fields of a mutex that has its type.                                *)
LEMMA MutexFields ==
  ASSUME NEW mx \in [Mutex -> MutexType], NEW m \in Mutex
  PROVE  /\ MutexHas(mx, m, mx[m].value, mx[m].hold, mx[m].owner, mx[m].original, mx[m].waiters)
         /\ mx[m].value \in Nat /\ mx[m].hold \in Nat /\ mx[m].owner \in Thread \cup {Nobody}
         /\ mx[m].original \in Nat /\ mx[m].waiters \in Seq(Thread)
BY DEF MutexHas, MutexType

(* One field of a mutex is set.                                            *)
LEMMA FieldSet ==
  ASSUME NEW mx, NEW m \in Mutex, NEW v, NEW h, NEW o, NEW g, NEW w, NEW x,
         MutexHas(mx, m, v, h, o, g, w)
  PROVE  /\ x \in Nat => MutexHas([mx EXCEPT ![m].value = x], m, x, h, o, g, w)
         /\ x \in Nat => MutexHas([mx EXCEPT ![m].hold = x], m, v, x, o, g, w)
         /\ x \in Thread \cup {Nobody} => MutexHas([mx EXCEPT ![m].owner = x], m, v, h, x, g, w)
         /\ x \in Nat => MutexHas([mx EXCEPT ![m].original = x], m, v, h, o, x, w)
         /\ x \in Seq(Thread) => MutexHas([mx EXCEPT ![m].waiters = x], m, v, h, o, g, x)
<1>1. x \in Nat => MutexHas([mx EXCEPT ![m].value = x], m, x, h, o, g, w)
  BY DEF MutexHas, MutexType
<1>2. x \in Nat => MutexHas([mx EXCEPT ![m].hold = x], m, v, x, o, g, w)
  BY DEF MutexHas, MutexType
<1>3. x \in Thread \cup {Nobody} => MutexHas([mx EXCEPT ![m].owner = x], m, v, h, x, g, w)
  BY DEF MutexHas, MutexType
<1>4. x \in Nat => MutexHas([mx EXCEPT ![m].original = x], m, v, h, o, x, w)
  BY DEF MutexHas, MutexType
<1>5. x \in Seq(Thread) => MutexHas([mx EXCEPT ![m].waiters = x], m, v, h, o, g, x)
  BY DEF MutexHas, MutexType
<1> QED BY <1>1, <1>2, <1>3, <1>4, <1>5

(* rt_mutex_take and rt_mutex_release of a free mutex.                     *)
LEMMA MutexUpdated ==
  ASSUME NEW mx \in [Mutex -> MutexType], NEW m \in Mutex, NEW v \in Nat, NEW h \in Nat,
         NEW o \in Thread \cup {Nobody}, NEW g \in Nat, NEW my,
         my = [mx EXCEPT ![m].value = v, ![m].hold = h, ![m].owner = o, ![m].original = g]
  PROVE  MutexHas(my, m, v, h, o, g, mx[m].waiters)
<1> DEFINE a == [mx EXCEPT ![m].value = v]
           b == [a EXCEPT ![m].hold = h]
           c == [b EXCEPT ![m].owner = o]
           d == [c EXCEPT ![m].original = g]
           w == mx[m].waiters
<1>1. my = d
  OBVIOUS
<1>2. MutexHas(mx, m, mx[m].value, mx[m].hold, mx[m].owner, mx[m].original, w)
  BY MutexFields
<1>3. MutexHas(a, m, v, mx[m].hold, mx[m].owner, mx[m].original, w)
  BY <1>2, FieldSet
<1> HIDE DEF a, w
<1>4. MutexHas(b, m, v, h, mx[m].owner, mx[m].original, w)
  BY <1>3, FieldSet
<1> HIDE DEF b
<1>5. MutexHas(c, m, v, h, o, mx[m].original, w)
  BY <1>4, FieldSet
<1> HIDE DEF c
<1>6. MutexHas(d, m, v, h, o, g, w)
  BY <1>5, FieldSet
<1> QED BY <1>1, <1>6 DEF w

=============================================================================
