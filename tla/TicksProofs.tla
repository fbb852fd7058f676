---------------------------- MODULE TicksProofs ----------------------------
(***************************************************************************)
(* The delta list of Ticks implements TimerContract, for every set of      *)
(* delays of at least one millisecond, all numbers of calls and of timers. *)
(***************************************************************************)
EXTENDS Ticks, SequenceTheorems, WellFoundedInduction, TLAPS

-----------------------------------------------------------------------------
(* Numbers.  Facts about all positions of a list are proved by looking at  *)
(* the first one where they fail.                                          *)

LEMMA Least ==
  ASSUME NEW T \in SUBSET Nat, T # {}
  PROVE  \E x \in T : \A y \in T : x <= y
<1> DEFINE R == OpToRel(<, Nat)
<1>1. IsWellFoundedOn(R, Nat)
  BY NatLessThanWellFounded
<1>2. ASSUME NEW x \in Nat, NEW y \in Nat, y < x PROVE <<y, x>> \in R
  BY <1>2 DEF OpToRel
<1> HIDE DEF R
<1>3. PICK x \in T : \A y \in T : ~(<<y, x>> \in R)
  BY <1>1, WFMin
<1>4. ASSUME NEW y \in T PROVE x <= y
  <2>1. x \in Nat /\ y \in Nat
    OBVIOUS
  <2>2. ~(y < x)
    BY <1>2, <1>3, <2>1
  <2> QED
    BY <2>1, <2>2
<1> QED
  BY <1>4

LEMMA MinIsLeast ==
  ASSUME NEW T \in SUBSET Nat, T # {}
  PROVE  Min(T) \in T /\ \A y \in T : Min(T) <= y
<1>1. \E x \in T : \A y \in T : x =< y
  BY Least
<1> QED
  BY <1>1 DEF Min

-----------------------------------------------------------------------------
(* Until(l) counts the delays of a list up.                                *)

Sums(s, l, n) == s = [i \in 0 .. n |-> IF i = 0 THEN 0 ELSE s[i - 1] + l[i].delta]

LEMMA SumsExist ==
  ASSUME NEW l \in Seq(Timer), NEW n \in 0 .. Len(l)
  PROVE  \E s : Sums(s, l, n)
<1> DEFINE T == {m \in 0 .. Len(l) : ~ \E s : Sums(s, l, m)}
<1>0. Len(l) \in Nat
  BY LenProperties
<1> SUFFICES ASSUME T # {} PROVE FALSE
  OBVIOUS
<1>1. PICK m \in T : \A y \in T : m <= y
  <2>1. T \in SUBSET Nat
    BY <1>0
  <2> HIDE DEF T
  <2> QED
    BY <2>1, Least
<1>2. m \in 0 .. Len(l) /\ ~ \E s : Sums(s, l, m)
  BY <1>1
<1>3. CASE m = 0
  <2>1. Sums([i \in 0 .. 0 |-> 0], l, 0)
    BY DEF Sums
  <2> QED
    BY <1>2, <1>3, <2>1
<1>4. CASE m # 0
  <2>1. m - 1 \in 0 .. Len(l) /\ m - 1 \notin T /\ m \in Nat
    BY <1>0, <1>1, <1>2, <1>4
  <2>2. PICK s : Sums(s, l, m - 1)
    BY <2>1
  <2> DEFINE g == [i \in 0 .. m |-> IF i = m THEN s[m - 1] + l[m].delta ELSE s[i]]
  <2>3. ASSUME NEW i \in 0 .. m
        PROVE  g[i] = IF i = 0 THEN 0 ELSE g[i - 1] + l[i].delta
    <3>1. CASE i = m
      <4>1. g[i] = s[m - 1] + l[m].delta /\ g[i - 1] = s[m - 1] /\ i # 0
        BY <1>4, <2>1, <3>1
      <4> QED
        BY <3>1, <4>1
    <3>2. CASE i # m
      <4>1. i \in 0 .. m - 1 /\ g[i] = s[i] /\ (i # 0 => g[i - 1] = s[i - 1])
        BY <2>1, <3>2
      <4>2. s[i] = IF i = 0 THEN 0 ELSE s[i - 1] + l[i].delta
        BY <2>2, <4>1 DEF Sums
      <4> QED
        BY <4>1, <4>2
    <3> QED
      BY <3>1, <3>2
  <2>4. g = [i \in 0 .. m |-> g[i]]
    OBVIOUS
  <2> HIDE DEF g
  <2>5. Sums(g, l, m)
    BY <2>3, <2>4 DEF Sums
  <2> QED
    BY <1>2, <2>5
<1> QED
  BY <1>3, <1>4

LEMMA UntilIs ==
  ASSUME NEW l \in Seq(Timer)
  PROVE  /\ Until(l)[0] = 0
         /\ \A i \in 1 .. Len(l) : Until(l)[i] = Until(l)[i - 1] + l[i].delta
<1>0. Len(l) \in Nat
  BY LenProperties
<1>1. Until(l) = CHOOSE s : Sums(s, l, Len(l))
  BY DEF Until, Sums
<1>2. Sums(Until(l), l, Len(l))
  BY <1>0, <1>1, SumsExist
<1> HIDE DEF Until
<1> QED
  BY <1>0, <1>2 DEF Sums


LEMMA UntilInt ==
  ASSUME NEW l \in Seq(Timer), NEW i \in 0 .. Len(l)
  PROVE  Until(l)[i] \in Int
<1> DEFINE T == {m \in 0 .. Len(l) : Until(l)[m] \notin Int}
<1>0. Len(l) \in Nat /\ T \in SUBSET Nat
  BY LenProperties
<1> SUFFICES ASSUME T # {} PROVE FALSE
  OBVIOUS
<1>1. PICK m \in T : \A y \in T : m <= y
  <2> HIDE DEF T
  <2> QED
    BY <1>0, Least
<1>2. m \in 0 .. Len(l) /\ Until(l)[m] \notin Int
  OBVIOUS
<1>3. m # 0
  BY <1>2, UntilIs
<1>4. m - 1 \in 0 .. Len(l) /\ m - 1 \notin T /\ m \in 1 .. Len(l)
  BY <1>0, <1>1, <1>2, <1>3
<1>5. Until(l)[m - 1] \in Int /\ l[m].delta \in Int
  <2>1. l[m] \in Timer
    BY <1>4, ElementOfSeq
  <2> QED
    BY <1>4, <2>1 DEF Timer
<1> QED
  BY <1>2, <1>4, <1>5, UntilIs

(* Two lists that have the same delays from some places on keep their      *)
(* distance.                                                               *)
SameDelays(l, a, m, b, n) == \A i \in 1 .. n : m[b + i].delta = l[a + i].delta
Parallel(l, a, m, b, n, c) ==
  /\ n \in Nat /\ a \in Nat /\ b \in Nat /\ a + n <= Len(l) /\ b + n <= Len(m) /\ c \in Int
  /\ Until(m)[b] = Until(l)[a] + c /\ SameDelays(l, a, m, b, n)

LEMMA KeepsDistance ==
  ASSUME NEW l \in Seq(Timer), NEW m \in Seq(Timer), NEW n, NEW a, NEW b, NEW c,
         Parallel(l, a, m, b, n, c), NEW i \in 0 .. n
  PROVE  Until(m)[b + i] = Until(l)[a + i] + c
<1> USE DEF Parallel
<1> DEFINE T == {k \in 0 .. n : Until(m)[b + k] # Until(l)[a + k] + c}
<1>0. Len(l) \in Nat /\ Len(m) \in Nat /\ T \in SUBSET Nat
  BY LenProperties
<1> SUFFICES ASSUME T # {} PROVE FALSE
  OBVIOUS
<1>1. PICK k \in T : \A y \in T : k <= y
  <2> HIDE DEF T
  <2> QED
    BY <1>0, Least
<1>2. k \in 0 .. n /\ Until(m)[b + k] # Until(l)[a + k] + c
  OBVIOUS
<1>3. k # 0
  BY <1>2
<1>4. k - 1 \in 0 .. n /\ k - 1 \notin T /\ k \in 1 .. n
  <2> HIDE DEF T
  <2> QED
    BY <1>1, <1>2, <1>3
<1>5. Until(m)[b + k - 1] = Until(l)[a + k - 1] + c
  <2>1. Until(m)[b + (k - 1)] = Until(l)[a + (k - 1)] + c
    BY <1>4
  <2>2. b + (k - 1) = b + k - 1 /\ a + (k - 1) = a + k - 1
    BY <1>4
  <2> QED
    BY <2>1, <2>2
<1>6. b + k \in 1 .. Len(m) /\ a + k \in 1 .. Len(l)
  BY <1>0, <1>4
<1>7. /\ Until(m)[b + k] = Until(m)[b + k - 1] + m[b + k].delta
      /\ Until(l)[a + k] = Until(l)[a + k - 1] + l[a + k].delta
  BY <1>6, UntilIs
<1>8. m[b + k].delta = l[a + k].delta /\ l[a + k].delta \in Int
  <2>1. l[a + k] \in Timer
    BY <1>6, ElementOfSeq
  <2> QED
    BY <1>4, <2>1 DEF SameDelays, Timer
<1>9. Until(l)[a + k - 1] \in Int
  <2>1. a + k - 1 \in 0 .. Len(l)
    BY <1>6
  <2> QED
    BY <2>1, UntilInt
<1> DEFINE x == Until(l)[a + k - 1]
           d == l[a + k].delta
<1>10. Until(m)[b + k] = (x + c) + d /\ Until(l)[a + k] = x + d /\ x \in Int /\ d \in Int
  BY <1>5, <1>7, <1>8, <1>9
<1> HIDE DEF x, d, T
<1>11. (x + c) + d = (x + d) + c
  BY <1>10
<1> QED
  BY <1>2, <1>10, <1>11

Kept(l, a, m, b, n, c) == \A i \in 0 .. n : Until(m)[b + i] = Until(l)[a + i] + c

LEMMA KeptDistance ==
  ASSUME NEW l \in Seq(Timer), NEW m \in Seq(Timer), NEW n, NEW a, NEW b, NEW c,
         Parallel(l, a, m, b, n, c)
  PROVE  Kept(l, a, m, b, n, c)
  BY KeepsDistance DEF Kept

(* Nothing is due before the head of the list.                             *)
LEMMA HeadFirst ==
  ASSUME NEW l \in Seq(Timer), \A j \in 1 .. Len(l) : l[j].delta >= 0,
         NEW i \in 1 .. Len(l)
  PROVE  Until(l)[i] >= l[1].delta
<1> DEFINE T == {m \in 1 .. Len(l) : ~(Until(l)[m] >= l[1].delta)}
<1>0. Len(l) \in Nat /\ T \in SUBSET Nat
  BY LenProperties
<1> SUFFICES ASSUME T # {} PROVE FALSE
  OBVIOUS
<1>1. PICK m \in T : \A y \in T : m <= y
  <2> HIDE DEF T
  <2> QED
    BY <1>0, Least
<1>2. m \in 1 .. Len(l) /\ ~(Until(l)[m] >= l[1].delta)
  OBVIOUS
<1>3. l[m].delta \in Int /\ l[m].delta >= 0 /\ l[1].delta \in Int
  <2>1. l[m] \in Timer /\ l[1] \in Timer
    BY <1>0, <1>2, ElementOfSeq
  <2> QED
    BY <1>2, <2>1 DEF Timer
<1>4. Until(l)[m] = Until(l)[m - 1] + l[m].delta /\ Until(l)[0] = 0
  BY <1>2, UntilIs
<1>5. CASE m = 1
  BY <1>2, <1>3, <1>4, <1>5
<1>6. CASE m # 1
  <2>1. m - 1 \in 1 .. Len(l) /\ m - 1 \notin T /\ m - 1 \in 0 .. Len(l)
    BY <1>0, <1>1, <1>2, <1>6
  <2>2. Until(l)[m - 1] >= l[1].delta /\ Until(l)[m - 1] \in Int
    BY <2>1, UntilInt
  <2> QED
    BY <1>2, <1>3, <1>4, <2>2
<1> QED
  BY <1>5, <1>6


-----------------------------------------------------------------------------
(* add_timeout(): where the new timer goes.                                *)

Placed(l, t, k, n) ==
  /\ n \in Seq(Timer) /\ Len(n) = Len(l) + 1
  /\ \A i \in 1 .. k - 1 : n[i] = l[i] /\ Until(l)[i] < t.ticks_need
  /\ n[k] = [t EXCEPT !.delta = t.ticks_need - Until(l)[k - 1]]
  /\ \A i \in k + 1 .. Len(l) : n[i + 1] = l[i]
  /\ k <= Len(l) => /\ t.ticks_need <= Until(l)[k]
                    /\ n[k + 1] = [l[k] EXCEPT !.delta = @ - (t.ticks_need - Until(l)[k - 1])]

LEMMA InsertedPlaced ==
  ASSUME NEW l \in Seq(Timer), NEW t \in Timer
  PROVE  \E k \in 1 .. Len(l) + 1 : Placed(l, t, k, Inserted(l, t))
<1> DEFINE u == Until(l)
           need == t.ticks_need
           T == {i \in 1 .. Len(l) : need <= u[i]} \cup {Len(l) + 1}
           k == Min(T)
           d == need - u[k - 1]
           x == [t EXCEPT !.delta = d]
           f == [i \in 1 .. Len(l) - k + 1 |->
                   IF i = 1 THEN [l[k] EXCEPT !.delta = @ - d] ELSE l[k + i - 1]]
           p == SubSeq(l, 1, k - 1)
           n == p \o <<x>> \o f
<1>0. Len(l) \in Nat /\ need \in Nat
  BY LenProperties DEF Timer
<1>1. Inserted(l, t) = n
  BY DEF Inserted
<1>2. k \in T /\ \A y \in T : k <= y
  <2>1. T \in SUBSET Nat /\ T # {}
    BY <1>0
  <2> HIDE DEF T
  <2> QED
    BY <2>1, MinIsLeast
<1>3. k \in 1 .. Len(l) + 1 /\ (k <= Len(l) => need <= u[k])
  BY <1>0, <1>2
<1>4. ASSUME NEW i \in 1 .. k - 1 PROVE u[i] < need
  <2>1. i \in 1 .. Len(l) /\ ~(k <= i)
    BY <1>0, <1>3
  <2>2. i \notin T
    BY <1>2, <2>1
  <2>3. u[i] \in Int
    BY <2>1, UntilInt
  <2> QED
    BY <1>0, <2>1, <2>2, <2>3
<1> HIDE DEF T, k
<1>5. k - 1 \in 0 .. Len(l) /\ u[k - 1] \in Int /\ d \in Int
  <2>1. k - 1 \in 0 .. Len(l)
    BY <1>0, <1>3
  <2> QED
    BY <1>0, <2>1, UntilInt
<1> HIDE DEF u, need, d
<1>6. x \in Timer
  BY <1>5 DEF Timer
<1>7. \A i \in 1 .. Len(l) : l[i] \in Timer
  BY ElementOfSeq
<1>8. p \in Seq(Timer) /\ Len(p) = k - 1 /\ \A i \in 1 .. k - 1 : p[i] = l[i]
  <2>1. \A i \in 1 .. k - 1 : l[i] \in Timer
    BY <1>0, <1>3, <1>7
  <2>2. 1 \in Int /\ k - 1 \in Int
    BY <1>0, <1>3
  <2>3. /\ p \in Seq(Timer) /\ Len(p) = IF 1 <= k - 1 THEN (k - 1) - 1 + 1 ELSE 0
        /\ \A i \in 1 .. (k - 1) - 1 + 1 : p[i] = l[1 + i - 1]
    BY <2>1, <2>2, SubSeqProperties
  <2> HIDE DEF p
  <2> QED
    BY <1>0, <1>3, <2>3
<1>9. /\ f \in Seq(Timer) /\ Len(f) = Len(l) - k + 1
      /\ \A i \in 1 .. Len(l) - k + 1 :
           f[i] = IF i = 1 THEN [l[k] EXCEPT !.delta = @ - d] ELSE l[k + i - 1]
  <2>1. ASSUME NEW i \in 1 .. Len(l) - k + 1
        PROVE  (IF i = 1 THEN [l[k] EXCEPT !.delta = @ - d] ELSE l[k + i - 1]) \in Timer
    <3>1. CASE i = 1
      <4>1. l[k] \in Timer
        BY <1>0, <1>3, <1>7, <3>1
      <4>2. l[k].delta - d \in Int
        BY <1>5, <4>1 DEF Timer
      <4>3. [l[k] EXCEPT !.delta = l[k].delta - d] \in Timer
        BY <4>1, <4>2 DEF Timer
      <4> QED
        BY <3>1, <4>3
    <3>2. CASE i # 1
      <4>1. k + i - 1 \in 1 .. Len(l)
        BY <1>0, <1>3, <3>2
      <4> QED
        BY <1>7, <3>2, <4>1
    <3> QED
      BY <3>1, <3>2
  <2>2. Len(l) - k + 1 \in Nat
    BY <1>0, <1>3
  <2> DEFINE m == Len(l) - k + 1
  <2>3. f \in [1 .. m -> Timer]
    BY <2>1
  <2>4. f \in Seq(Timer) /\ Len(f) = m
    <3> HIDE DEF f, m
    <3>1. m \in Nat
      BY <2>2 DEF m
    <3>2. f \in Seq(Timer)
      BY <2>3, <3>1, SeqDef
    <3>3. DOMAIN f = 1 .. m /\ DOMAIN f = 1 .. Len(f) /\ Len(f) \in Nat
      BY <2>3, <3>2, LenProperties
    <3> QED
      BY <3>1, <3>2, <3>3
  <2> QED
    BY <2>4
<1> HIDE DEF x, f, p
<1>10. /\ p \o <<x>> \in Seq(Timer) /\ Len(p \o <<x>>) = k
       /\ \A i \in 1 .. k : (p \o <<x>>)[i] = IF i <= k - 1 THEN p[i] ELSE x
  <2>1. <<x>> \in Seq(Timer) /\ Len(<<x>>) = 1 /\ <<x>>[1] = x
    BY <1>6
  <2> DEFINE y == <<x>>
  <2> HIDE DEF y
  <2>2. y \in Seq(Timer) /\ Len(y) = 1 /\ y[1] = x
    BY <2>1 DEF y
  <2>3. /\ p \o y \in Seq(Timer) /\ Len(p \o y) = Len(p) + Len(y)
        /\ \A i \in 1 .. Len(p) + Len(y) : (p \o y)[i] = IF i <= Len(p) THEN p[i] ELSE y[i - Len(p)]
    BY <1>8, <2>2, ConcatProperties
  <2>4. p \o y \in Seq(Timer) /\ Len(p \o y) = k
    BY <1>0, <1>3, <1>8, <2>2, <2>3
  <2>5. ASSUME NEW i \in 1 .. k PROVE (p \o y)[i] = IF i <= k - 1 THEN p[i] ELSE x
    <3>1. i \in 1 .. Len(p) + Len(y) /\ Len(p) = k - 1
      BY <1>0, <1>3, <1>8, <2>2
    <3>2. (p \o y)[i] = IF i <= k - 1 THEN p[i] ELSE y[i - (k - 1)]
      BY <2>3, <3>1
    <3>3. ~(i <= k - 1) => i - (k - 1) = 1
      BY <1>0, <1>3
    <3> QED
      BY <2>2, <3>2, <3>3
  <2> QED
    BY <2>4, <2>5 DEF y
<1> DEFINE q == p \o <<x>>
<1> HIDE DEF q
<1>11. /\ n \in Seq(Timer) /\ Len(n) = Len(l) + 1
       /\ \A i \in 1 .. Len(l) + 1 : n[i] = IF i <= k THEN q[i] ELSE f[i - k]
  <2>0. n = q \o f /\ q \in Seq(Timer)
    BY <1>10 DEF q
  <2>1. /\ n \in Seq(Timer) /\ Len(n) = Len(q) + Len(f)
        /\ \A i \in 1 .. Len(q) + Len(f) : n[i] = IF i <= Len(q) THEN q[i] ELSE f[i - Len(q)]
    <3>1. f \in Seq(Timer)
      BY <1>9
    <3>2. /\ q \o f \in Seq(Timer) /\ Len(q \o f) = Len(q) + Len(f)
          /\ \A i \in 1 .. Len(q) + Len(f) :
               (q \o f)[i] = IF i <= Len(q) THEN q[i] ELSE f[i - Len(q)]
      BY <2>0, <3>1, ConcatProperties
    <3> HIDE DEF n
    <3> QED
      BY <2>0, <3>2
  <2>2. Len(q) = k /\ Len(q) + Len(f) = Len(l) + 1
    BY <1>0, <1>3, <1>9, <1>10 DEF q
  <2> HIDE DEF n
  <2> QED
    BY <2>1, <2>2
<1> HIDE DEF n
<1>12. ASSUME NEW i \in 1 .. k - 1 PROVE n[i] = l[i]
  <2>1. i \in 1 .. k /\ i \in 1 .. Len(l) + 1 /\ i <= k - 1 /\ i <= k
    BY <1>0, <1>3
  <2> QED
    BY <1>8, <1>10, <1>11, <2>1 DEF q
<1>13. n[k] = x
  <2>1. k \in 1 .. k /\ ~(k <= k - 1) /\ k <= k
    BY <1>0, <1>3
  <2> QED
    BY <1>3, <1>10, <1>11, <2>1 DEF q
<1>14. ASSUME NEW i \in k + 1 .. Len(l) PROVE n[i + 1] = l[i]
  <2>1. /\ i + 1 \in 1 .. Len(l) + 1 /\ ~(i + 1 <= k) /\ i + 1 - k \in 1 .. Len(l) - k + 1
        /\ i + 1 - k # 1 /\ k + (i + 1 - k) - 1 = i
    BY <1>0, <1>3
  <2> DEFINE j == i + 1
  <2>2. n[j] = f[j - k]
    <3> HIDE DEF j
    <3>1. j \in 1 .. Len(l) + 1 /\ ~(j <= k)
      BY <2>1 DEF j
    <3> QED
      BY <1>11, <3>1
  <2> DEFINE c == j - k
  <2>3. c \in 1 .. Len(l) - k + 1 /\ c # 1 /\ k + c - 1 = i
    BY <1>3, <2>1
  <2>4. n[i + 1] = f[c]
    BY <2>2
  <2> HIDE DEF c
  <2> QED
    BY <1>9, <2>3, <2>4
<1>15. ASSUME k <= Len(l) PROVE n[k + 1] = [l[k] EXCEPT !.delta = @ - d]
  <2>1. /\ k + 1 \in 1 .. Len(l) + 1 /\ ~(k + 1 <= k) /\ k + 1 - k = 1
        /\ 1 \in 1 .. Len(l) - k + 1
    BY <1>0, <1>3, <1>15
  <2> DEFINE j == k + 1
  <2>2. n[j] = f[1]
    <3> HIDE DEF j
    <3>1. j \in 1 .. Len(l) + 1 /\ ~(j <= k) /\ j - k = 1
      BY <1>0, <1>3, <1>15 DEF j
    <3> QED
      BY <1>11, <3>1
  <2> QED
    BY <1>9, <2>1, <2>2
<1>16. Placed(l, t, k, n)
  BY <1>3, <1>4, <1>11, <1>12, <1>13, <1>14, <1>15 DEF Placed, u, need, d, x
<1> QED
  BY <1>1, <1>3, <1>16


(* Timers that differ in their delay at most.                              *)
Same(s, t) == /\ s.id = t.id /\ s.ticks_need = t.ticks_need /\ s.times = t.times
              /\ s.protect = t.protect /\ s.cleared = t.cleared

NoDebt(l) == \A i \in 1 .. Len(l) : l[i].delta >= 0

(* The new timer is due when it was asked for, and every other one when it *)
(* was before.                                                             *)
Into(l, t, k, n) ==
  /\ n \in Seq(Timer) /\ Len(n) = Len(l) + 1
  /\ Same(n[k], t) /\ Until(n)[k] = t.ticks_need
  /\ \A i \in 1 .. k - 1 : Same(n[i], l[i]) /\ Until(n)[i] = Until(l)[i]
  /\ \A i \in k .. Len(l) : Same(n[i + 1], l[i]) /\ Until(n)[i + 1] = Until(l)[i]
  /\ NoDebt(l) => NoDebt(n)
  /\ k = 1 => n[1].delta = t.ticks_need
  /\ k > 1 => n[1] = l[1]
  /\ k = 1 /\ Len(l) > 0 => t.ticks_need <= l[1].delta

LEMMA InsertedInto ==
  ASSUME NEW l \in Seq(Timer), NEW t \in Timer
  PROVE  \E k \in 1 .. Len(l) + 1 : Into(l, t, k, Inserted(l, t))
<1> DEFINE n == Inserted(l, t)
<1>0. Len(l) \in Nat /\ t.ticks_need \in Nat
  BY LenProperties DEF Timer
<1>1. PICK k \in 1 .. Len(l) + 1 : Placed(l, t, k, n)
  BY InsertedPlaced
<1> HIDE DEF n
<1> DEFINE d == t.ticks_need - Until(l)[k - 1]
<1>2. /\ n \in Seq(Timer) /\ Len(n) = Len(l) + 1
      /\ \A i \in 1 .. k - 1 : n[i] = l[i] /\ Until(l)[i] < t.ticks_need
      /\ n[k] = [t EXCEPT !.delta = d]
      /\ \A i \in k + 1 .. Len(l) : n[i + 1] = l[i]
      /\ k <= Len(l) => /\ t.ticks_need <= Until(l)[k]
                        /\ n[k + 1] = [l[k] EXCEPT !.delta = @ - d]
  BY <1>1 DEF Placed
<1>3. k \in Nat /\ k - 1 \in 0 .. Len(l) /\ k - 1 \in Nat
  BY <1>0
<1>4. Until(l)[k - 1] \in Int /\ d \in Int
  BY <1>0, <1>3, UntilInt
<1>5. Until(l)[0] = 0 /\ Until(n)[0] = 0
  BY <1>2, UntilIs
<1>6. \A i \in 1 .. Len(l) : l[i] \in Timer /\ l[i].delta \in Int
  <2>1. \A i \in 1 .. Len(l) : l[i] \in Timer
    BY ElementOfSeq
  <2> QED
    BY <2>1 DEF Timer
<1>7. n[k].delta = d /\ Same(n[k], t)
  <2> HIDE DEF d
  <2> QED
    BY <1>2, <1>4 DEF Timer, Same
<1>8. ASSUME NEW i \in 0 .. k - 1 PROVE Until(n)[i] = Until(l)[i]
  <2>1. SameDelays(l, 0, n, 0, k - 1)
    <3> SUFFICES ASSUME NEW j \in 1 .. k - 1 PROVE n[0 + j].delta = l[0 + j].delta
      BY DEF SameDelays
    <3>1. 0 + j = j
      BY <1>3
    <3> QED
      BY <1>2, <3>1
  <2>2. Until(n)[0] = Until(l)[0] + 0
    BY <1>5
  <2>3. 0 + (k - 1) <= Len(l) /\ 0 + (k - 1) <= Len(n)
    BY <1>0, <1>2, <1>3
  <2>4. Until(n)[0 + i] = Until(l)[0 + i] + 0
    <3>1. Parallel(l, 0, n, 0, k - 1, 0)
      BY <1>3, <2>1, <2>2, <2>3 DEF Parallel
    <3> QED
      BY <1>2, <3>1, KeepsDistance
  <2>5. 0 + i = i /\ i \in 0 .. Len(l)
    BY <1>0, <1>3
  <2>6. Until(l)[i] \in Int
    BY <2>5, UntilInt
  <2> QED
    BY <2>4, <2>5, <2>6
<1>9. Until(n)[k] = t.ticks_need
  <2>1. k \in 1 .. Len(n) /\ k - 1 \in 0 .. k - 1
    BY <1>0, <1>2, <1>3
  <2>2. Until(n)[k] = Until(n)[k - 1] + n[k].delta
    BY <1>2, <2>1, UntilIs
  <2>3. Until(n)[k - 1] = Until(l)[k - 1]
    BY <1>8, <2>1
  <2> QED
    BY <1>0, <1>4, <1>7, <2>2, <2>3
<1>10. ASSUME k <= Len(l)
       PROVE  /\ Same(n[k + 1], l[k]) /\ n[k + 1].delta = l[k].delta - d
              /\ Until(n)[k + 1] = Until(l)[k] /\ Until(l)[k] = Until(l)[k - 1] + l[k].delta
  <2>1. k \in 1 .. Len(l) /\ k + 1 \in 1 .. Len(n) /\ (k + 1) - 1 = k
    BY <1>0, <1>2, <1>3, <1>10
  <2>2. l[k] \in Timer /\ l[k].delta \in Int
    BY <1>6, <2>1
  <2>3. Same(n[k + 1], l[k]) /\ n[k + 1].delta = l[k].delta - d
    <3>1. n[k + 1] = [l[k] EXCEPT !.delta = l[k].delta - d]
      BY <1>2, <1>10
    <3> DEFINE e == l[k].delta - d
    <3> HIDE DEF e, d
    <3>2. n[k + 1] = [l[k] EXCEPT !.delta = e]
      BY <3>1 DEF e
    <3>3. Same(n[k + 1], l[k]) /\ n[k + 1].delta = e
      BY <2>2, <3>2 DEF Timer, Same
    <3> QED
      BY <3>3 DEF e
  <2>4. Until(n)[k + 1] = Until(n)[k] + n[k + 1].delta
    <3> DEFINE j == k + 1
    <3>1. j \in 1 .. Len(n) /\ j - 1 = k
      BY <2>1
    <3> HIDE DEF j
    <3>2. Until(n)[j] = Until(n)[j - 1] + n[j].delta
      BY <1>2, <3>1, UntilIs
    <3> QED
      BY <3>1, <3>2 DEF j
  <2>5. Until(l)[k] = Until(l)[k - 1] + l[k].delta
    BY <2>1, UntilIs
  <2> QED
    BY <1>0, <1>4, <1>9, <2>2, <2>3, <2>4, <2>5
<1>11. ASSUME NEW i \in k .. Len(l)
       PROVE  Same(n[i + 1], l[i]) /\ Until(n)[i + 1] = Until(l)[i]
  <2>1. k <= Len(l) /\ i - k \in 0 .. Len(l) - k /\ Len(l) - k \in Nat /\ k + 1 \in Nat
    BY <1>0, <1>3
  <2>2. SameDelays(l, k, n, k + 1, Len(l) - k)
    <3> SUFFICES ASSUME NEW j \in 1 .. Len(l) - k
                 PROVE  n[k + 1 + j].delta = l[k + j].delta
      BY DEF SameDelays
    <3>1. k + j \in k + 1 .. Len(l) /\ k + 1 + j = (k + j) + 1
      BY <1>0, <1>3
    <3> QED
      BY <1>2, <3>1
  <2>3. Until(n)[k + 1] = Until(l)[k] + 0
    <3>1. k \in 0 .. Len(l)
      BY <1>0, <1>3, <2>1
    <3>2. Until(l)[k] \in Int
      BY <3>1, UntilInt
    <3> QED
      BY <1>10, <2>1, <3>2
  <2>4. k + (Len(l) - k) <= Len(l) /\ k + 1 + (Len(l) - k) <= Len(n)
    BY <1>0, <1>2, <1>3
  <2>5. Until(n)[k + 1 + (i - k)] = Until(l)[k + (i - k)] + 0
    <3> DEFINE a == k + 1
               m == Len(l) - k
               j == i - k
               c == 0
    <3>1. Parallel(l, k, n, a, m, c)
      BY <1>3, <2>1, <2>2, <2>3, <2>4 DEF Parallel
    <3>2. j \in 0 .. m
      BY <2>1
    <3> HIDE DEF a, m, j, c
    <3>3. Until(n)[a + j] = Until(l)[k + j] + c
      BY <1>2, <3>1, <3>2, KeepsDistance
    <3> QED
      BY <3>3 DEF a, j, c
  <2>6. k + 1 + (i - k) = i + 1 /\ k + (i - k) = i /\ i \in 0 .. Len(l)
    BY <1>0, <1>3
  <2>7. Until(l)[i] \in Int
    BY <2>6, UntilInt
  <2>8. Until(n)[i + 1] = Until(l)[i]
    BY <2>5, <2>6, <2>7
  <2>9. Same(n[i + 1], l[i])
    <3>1. CASE i = k
      BY <1>10, <2>1, <3>1
    <3>2. CASE i # k
      <4>1. i \in k + 1 .. Len(l)
        BY <1>0, <1>3, <3>2
      <4> QED
        BY <1>2, <4>1 DEF Same
    <3> QED
      BY <3>1, <3>2
  <2> QED
    BY <2>8, <2>9
<1>12. d >= 0
  <2>1. CASE k = 1
    BY <1>0, <1>5, <2>1
  <2>2. CASE k # 1
    <3>1. k - 1 \in 1 .. k - 1
      BY <1>3, <2>2
    <3>2. Until(l)[k - 1] < t.ticks_need
      BY <1>2, <3>1
    <3> QED
      BY <1>0, <1>4, <3>2
  <2> QED
    BY <2>1, <2>2
<1>13. ASSUME NoDebt(l) PROVE NoDebt(n)
  <2> SUFFICES ASSUME NEW i \in 1 .. Len(n) PROVE n[i].delta >= 0
    BY DEF NoDebt
  <2>1. CASE i < k
    <3>1. i \in 1 .. k - 1 /\ i \in 1 .. Len(l)
      BY <1>0, <1>2, <1>3, <2>1
    <3> QED
      BY <1>2, <1>13, <3>1 DEF NoDebt
  <2>2. CASE i = k
    BY <1>7, <1>12, <2>2
  <2>3. CASE i = k + 1
    <3>1. k <= Len(l) /\ k \in 1 .. Len(l)
      BY <1>0, <1>2, <1>3, <2>3
    <3>2. l[k].delta - d = Until(l)[k] - t.ticks_need
      BY <1>0, <1>4, <1>6, <1>10, <3>1
    <3>3. t.ticks_need <= Until(l)[k] /\ Until(l)[k] \in Int
      BY <1>0, <1>2, <1>3, <3>1, UntilInt
    <3> QED
      BY <1>0, <1>10, <2>3, <3>1, <3>2, <3>3
  <2>4. CASE i > k + 1
    <3>1. i - 1 \in k + 1 .. Len(l) /\ i - 1 \in 1 .. Len(l) /\ (i - 1) + 1 = i
      BY <1>0, <1>2, <1>3, <2>4
    <3> QED
      BY <1>2, <1>13, <3>1 DEF NoDebt
  <2> QED
    BY <1>2, <1>3, <2>1, <2>2, <2>3, <2>4
<1>14. k = 1 => n[1].delta = t.ticks_need
  BY <1>0, <1>5, <1>7
<1>15. k > 1 => n[1] = l[1]
  <2>1. k > 1 => 1 \in 1 .. k - 1
    BY <1>3
  <2> QED
    BY <1>2, <2>1
<1>16. k = 1 /\ Len(l) > 0 => t.ticks_need <= l[1].delta
  <2> SUFFICES ASSUME k = 1, Len(l) > 0 PROVE t.ticks_need <= l[1].delta
    OBVIOUS
  <2>1. 1 \in 1 .. Len(l) /\ k <= Len(l)
    BY <1>0
  <2>2. Until(l)[1] = Until(l)[1 - 1] + l[1].delta
    BY <2>1, UntilIs
  <2>3. Until(l)[1] = l[1].delta
    BY <1>5, <1>6, <2>1, <2>2
  <2> QED
    BY <1>2, <2>1, <2>3
<1>17. \A i \in 1 .. k - 1 : Same(n[i], l[i]) /\ Until(n)[i] = Until(l)[i]
  BY <1>2, <1>3, <1>8 DEF Same
<1>18. Into(l, t, k, n)
  BY <1>2, <1>7, <1>9, <1>11, <1>13, <1>14, <1>15, <1>16, <1>17 DEF Into
<1> QED
  BY <1>18 DEF n


-----------------------------------------------------------------------------
(* The invariant.                                                          *)

Unique(l) == \A i, j \in 1 .. Len(l) : l[i].id = l[j].id => i = j

(* Identifiers are given once, and only the past ones; delays are at least *)
(* one millisecond.                                                        *)
Known(l, n) == \A i \in 1 .. Len(l) : l[i].id < n /\ l[i].ticks_need >= 1

(* Outside process_tick() nothing is due.  While a timer's function runs,  *)
(* the timer stays the head of the list.                                   *)
AtHead(l, p, c, la) ==
  /\ p = "idle" /\ Len(l) > 0 => l[1].delta >= 1
  /\ p # "call" => c = NONE /\ la = FALSE
  /\ p = "call" => /\ Len(l) > 0 /\ l[1].id = c /\ l[1].delta = 0
                   /\ la => l[1].times = 0

ListOk(l, n, p, c, la) ==
  Unique(l) /\ NoDebt(l) /\ Known(l, n) /\ AtHead(l, p, c, la)

(* The inductive invariant.                                                *)
TInv == TypeOK /\ ListOk(timers, ntimers, phase, cur, last)


-----------------------------------------------------------------------------
(* The list as the contract sees it.                                       *)

Seen(t, left, c, la) ==
  [left |-> left, need |-> t.ticks_need,
   times |-> IF c = t.id /\ (t.times > 0 \/ la) THEN t.times + 1 ELSE t.times,
   cleared |-> t.cleared]

View(l, c, la, id) ==
  IF InList(l, id)
  THEN Seen(l[IndexOf(l, id)], Until(l)[IndexOf(l, id)], c, la)
  ELSE NONE

Before(id) == View(timers, cur, last, id)
Behind(id) == View(timers', cur', last', id)

LEMMA IndexIs ==
  ASSUME NEW l \in Seq(Timer), Unique(l), NEW i \in 1 .. Len(l)
  PROVE  InList(l, l[i].id) /\ IndexOf(l, l[i].id) = i
  BY DEF Unique, InList, IndexOf

LEMMA Indexed ==
  ASSUME NEW l \in Seq(Timer), NEW id, InList(l, id)
  PROVE  IndexOf(l, id) \in 1 .. Len(l) /\ l[IndexOf(l, id)].id = id
  BY DEF InList, IndexOf

LEMMA PendingView ==
  ASSUME TypeOK, NEW id
  PROVE  PendingOf(id) = View(timers, cur, last, id)
<1>1. CASE InList(timers, id)
  <2>1. timers[IndexOf(timers, id)].id = id
    BY <1>1, Indexed DEF TypeOK
  <2> QED
    BY <1>1, <2>1 DEF PendingOf, View, Seen
<1>2. CASE ~InList(timers, id)
  BY <1>2 DEF PendingOf, View
<1> QED
  BY <1>1, <1>2

LEMMA PendingViewNext ==
  ASSUME TypeOK', NEW id
  PROVE  PendingOf(id)' = View(timers', cur', last', id)
<1>1. CASE InList(timers', id)
  <2>1. timers'[IndexOf(timers', id)].id = id
    BY <1>1, Indexed DEF TypeOK
  <2> QED
    BY <1>1, <2>1 DEF PendingOf, View, Seen, InList, IndexOf
<1>2. CASE ~InList(timers', id)
  BY <1>2 DEF PendingOf, View, InList
<1> QED
  BY <1>1, <1>2

LEMMA IsTick ==
  ASSUME TypeOK, TypeOK', cur = NONE, cur' = NONE,
         \A i \in Ids : Before(i) # NONE => Before(i).left # 0,
         \A i \in Ids : Behind(i) = IF Before(i) # NONE THEN [Before(i) EXCEPT !.left = @ - 1] ELSE NONE
  PROVE  C!Tick
<1>1. \A i \in Ids : PendingOf(i) = Before(i)
  BY PendingView DEF Before
<1>2. \A i \in Ids : PendingOf(i)' = Behind(i)
  BY PendingViewNext DEF Behind
<1> QED
  BY <1>1, <1>2 DEF C!Tick, C!Live, C!Due


LEMMA IsCall ==
  ASSUME TypeOK, TypeOK', cur = NONE, NEW i \in Ids, cur' = i,
         Before(i) # NONE, Before(i).left = 0, ~Before(i).cleared,
         \A id \in Ids : Behind(id) = Before(id)
  PROVE  C!Call(i)
<1>1. \A id \in Ids : PendingOf(id) = Before(id)
  BY PendingView DEF Before
<1>2. \A id \in Ids : PendingOf(id)' = Behind(id)
  BY PendingViewNext DEF Behind
<1> QED
  BY <1>1, <1>2 DEF C!Call, C!Live, C!Due

LEMMA IsDrop ==
  ASSUME TypeOK, TypeOK', cur = NONE, cur' = NONE, NEW i \in Ids,
         Before(i) # NONE, Before(i).left = 0, Before(i).cleared,
         \A id \in Ids : Behind(id) = IF id = i THEN NONE ELSE Before(id)
  PROVE  C!Drop(i)
<1>1. \A id \in Ids : PendingOf(id) = Before(id)
  BY PendingView DEF Before
<1>2. \A id \in Ids : PendingOf(id)' = Behind(id)
  BY PendingViewNext DEF Behind
<1> QED
  BY <1>1, <1>2 DEF C!Drop, C!Live, C!Due

LEMMA IsClear ==
  ASSUME TypeOK, TypeOK', cur' = cur, NEW i \in Ids, Before(i) # NONE,
         \A id \in Ids : Behind(id) = IF id = i THEN [Before(i) EXCEPT !.cleared = TRUE] ELSE Before(id)
  PROVE  C!Clear(i)
<1>1. \A id \in Ids : PendingOf(id) = Before(id)
  BY PendingView DEF Before
<1>2. \A id \in Ids : PendingOf(id)' = Behind(id)
  BY PendingViewNext DEF Behind
<1> QED
  BY <1>1, <1>2, ZenonT(60) DEF C!Clear, C!Live

LEMMA IsSet ==
  ASSUME TypeOK, TypeOK', cur' = cur, NEW i \in Ids, NEW ms, NEW n, Before(i) = NONE,
         \A id \in Ids : Behind(id) = IF id = i THEN [left |-> ms, need |-> ms, times |-> n, cleared |-> FALSE]
                                      ELSE Before(id)
  PROVE  C!Set(i, ms, n)
<1>1. \A id \in Ids : PendingOf(id) = Before(id)
  BY PendingView DEF Before
<1>2. \A id \in Ids : PendingOf(id)' = Behind(id)
  BY PendingViewNext DEF Behind
<1> QED
  BY <1>1, <1>2 DEF C!Set, C!Live

(* What the contract leaves of a timer whose function returns.             *)
Returned(q) ==
  IF q.times = 1 \/ q.cleared THEN NONE
  ELSE [q EXCEPT !.left = q.need, !.times = IF q.times = 0 THEN 0 ELSE q.times - 1]

LEMMA IsReturn ==
  ASSUME TypeOK, TypeOK', cur \in Ids, cur # NONE, cur' = NONE,
         \A id \in Ids : Behind(id) = IF id = cur THEN Returned(Before(cur)) ELSE Before(id)
  PROVE  C!Return
<1>1. \A id \in Ids : PendingOf(id) = Before(id)
  BY PendingView DEF Before
<1>2. \A id \in Ids : PendingOf(id)' = Behind(id)
  BY PendingViewNext DEF Behind
<1> DEFINE q == [id \in Ids |-> PendingOf(id)]
<1>3. q[cur] = Before(cur)
  BY <1>1
<1>4. C!Return <=> /\ cur # NONE /\ cur' = NONE
                   /\ q' = [q EXCEPT ![cur] = Returned(q[cur])]
  BY DEF C!Return, C!Last, C!Rearmed, Returned
<1> QED
  BY <1>1, <1>2, <1>3, <1>4

LEMMA IsStutter ==
  ASSUME TypeOK, UNCHANGED <<timers, cur, last>>
  PROVE  UNCHANGED C!vars
  BY DEF C!vars, PendingOf, InList, IndexOf


-----------------------------------------------------------------------------
(* What the other operations do to a list.                                 *)

(* A millisecond passes.                                                   *)
Passed(l, n) == n = [l EXCEPT ![1].delta = @ - 1]

LEMMA Earlier ==
  ASSUME NEW l \in Seq(Timer), Len(l) > 0, NEW n, Passed(l, n)
  PROVE  /\ n \in Seq(Timer) /\ Len(n) = Len(l) /\ n[1].delta = l[1].delta - 1
         /\ \A i \in 1 .. Len(l) : Same(n[i], l[i]) /\ Until(n)[i] = Until(l)[i] - 1
         /\ \A i \in 2 .. Len(l) : n[i] = l[i]
<1> DEFINE t == [l[1] EXCEPT !.delta = l[1].delta - 1]
<1>0. Len(l) \in Nat /\ 1 \in 1 .. Len(l) /\ l[1] \in Timer
  <2>1. Len(l) \in Nat
    BY LenProperties
  <2> QED
    BY <2>1, ElementOfSeq
<1>1. t \in Timer /\ Same(t, l[1]) /\ t.delta = l[1].delta - 1 /\ l[1].delta \in Int
  <2>1. l[1].delta \in Int /\ l[1].delta - 1 \in Int
    BY <1>0 DEF Timer
  <2> QED
    BY <1>0, <2>1 DEF Timer, Same
<1>2. n = [l EXCEPT ![1] = t]
  BY DEF Passed
<1> HIDE DEF t
<1>3. /\ n \in Seq(Timer) /\ Len(n) = Len(l)
      /\ \A j \in 1 .. Len(l) : n[j] = IF j = 1 THEN t ELSE l[j]
  BY <1>0, <1>1, <1>2, ExceptSeq
<1>4. n[1] = t /\ \A i \in 2 .. Len(l) : n[i] = l[i]
  BY <1>0, <1>3
<1>5. Until(n)[1] = Until(l)[1] - 1
  <2>1. /\ Until(n)[0] = 0 /\ Until(n)[1] = Until(n)[1 - 1] + n[1].delta
        /\ Until(l)[0] = 0 /\ Until(l)[1] = Until(l)[1 - 1] + l[1].delta
    BY <1>0, <1>3, UntilIs
  <2> QED
    BY <1>1, <1>4, <2>1
<1>6. ASSUME NEW i \in 1 .. Len(l) PROVE Until(n)[i] = Until(l)[i] - 1
  <2>0. Until(l)[1] \in Int /\ Until(l)[i] \in Int
    <3>1. 1 \in 0 .. Len(l) /\ i \in 0 .. Len(l)
      BY <1>0
    <3> QED
      BY <3>1, UntilInt
  <2>1. SameDelays(l, 1, n, 1, Len(l) - 1)
    BY <1>0, <1>4 DEF SameDelays
  <2>2. Parallel(l, 1, n, 1, Len(l) - 1, -1)
    BY <1>0, <1>3, <1>5, <2>0, <2>1 DEF Parallel
  <2>3. i - 1 \in 0 .. Len(l) - 1 /\ 1 + (i - 1) = i
    BY <1>0
  <2>4. Until(n)[1 + (i - 1)] = Until(l)[1 + (i - 1)] + (-1)
    <3>1. Kept(l, 1, n, 1, Len(l) - 1, -1)
      BY <1>3, <2>2, KeptDistance
    <3> QED
      BY <2>3, <3>1 DEF Kept
  <2> QED
    BY <2>0, <2>3, <2>4
<1>7. \A i \in 1 .. Len(l) : Same(n[i], l[i])
  BY <1>1, <1>3 DEF Same
<1> QED
  BY <1>1, <1>3, <1>4, <1>6, <1>7

(* Something else than the delay of a timer changes.                       *)
Put(l, k, t, n) == n = [l EXCEPT ![k] = t]

LEMMA Touched ==
  ASSUME NEW l \in Seq(Timer), NEW k \in 1 .. Len(l), NEW t \in Timer, t.delta = l[k].delta,
         NEW n, Put(l, k, t, n)
  PROVE  /\ n \in Seq(Timer) /\ Len(n) = Len(l)
         /\ \A i \in 1 .. Len(l) : /\ n[i] = IF i = k THEN t ELSE l[i]
                                   /\ Until(n)[i] = Until(l)[i]
<1>0. Len(l) \in Nat
  BY LenProperties
<1>1. /\ n \in Seq(Timer) /\ Len(n) = Len(l)
      /\ \A i \in 1 .. Len(l) : n[i] = IF i = k THEN t ELSE l[i]
  BY ExceptSeq DEF Put
<1>2. ASSUME NEW i \in 1 .. Len(l) PROVE Until(n)[i] = Until(l)[i]
  <2>1. Until(n)[0] = 0 /\ Until(l)[0] = 0
    BY <1>1, UntilIs
  <2>2. SameDelays(l, 0, n, 0, Len(l))
    BY <1>0, <1>1 DEF SameDelays
  <2>3. Parallel(l, 0, n, 0, Len(l), 0)
    BY <1>0, <1>1, <2>1, <2>2 DEF Parallel
  <2>4. i \in 0 .. Len(l) /\ 0 + i = i
    BY <1>0
  <2>5. Until(n)[0 + i] = Until(l)[0 + i] + 0
    <3>1. Kept(l, 0, n, 0, Len(l), 0)
      BY <1>1, <2>3, KeptDistance
    <3> QED
      BY <2>4, <3>1 DEF Kept
  <2>6. Until(l)[i] \in Int
    BY <2>4, UntilInt
  <2> QED
    BY <2>4, <2>5, <2>6
<1> QED
  BY <1>1, <1>2

(* A head that is due goes.                                                *)
Rest(l, n) == n = SubSeq(l, 2, Len(l))

LEMMA Rested ==
  ASSUME NEW l \in Seq(Timer), Len(l) > 0, l[1].delta = 0, NEW n, Rest(l, n)
  PROVE  /\ n \in Seq(Timer) /\ Len(n) = Len(l) - 1
         /\ \A i \in 1 .. Len(n) : n[i] = l[i + 1] /\ Until(n)[i] = Until(l)[i + 1]
<1>0. Len(l) \in Nat /\ 1 \in 1 .. Len(l) /\ \A i \in 2 .. Len(l) : l[i] \in Timer
  <2>1. Len(l) \in Nat
    BY LenProperties
  <2>2. \A i \in 1 .. Len(l) : l[i] \in Timer
    BY ElementOfSeq
  <2> QED
    BY <2>1, <2>2
<1>1. /\ n \in Seq(Timer) /\ Len(n) = Len(l) - 1
      /\ \A i \in 1 .. Len(l) - 1 : n[i] = l[i + 1]
  <2>1. /\ n \in Seq(Timer) /\ Len(n) = IF 2 <= Len(l) THEN Len(l) - 2 + 1 ELSE 0
        /\ \A i \in 1 .. Len(l) - 2 + 1 : n[i] = l[2 + i - 1]
    BY <1>0, SubSeqProperties DEF Rest
  <2>2. Len(n) = Len(l) - 1
    <3> DEFINE a == Len(l)
               b == Len(n)
    <3>1. a \in Nat /\ a > 0 /\ b = IF 2 <= a THEN a - 2 + 1 ELSE 0
      BY <1>0, <2>1
    <3> HIDE DEF a, b
    <3>2. b = a - 1
      BY <3>1
    <3> QED
      BY <3>2 DEF a, b
  <2>3. ASSUME NEW i \in 1 .. Len(l) - 1 PROVE n[i] = l[i + 1]
    <3>1. i \in 1 .. Len(l) - 2 + 1 /\ 2 + i - 1 = i + 1
      BY <1>0
    <3> QED
      BY <2>1, <3>1
  <2> QED
    BY <2>1, <2>2, <2>3
<1>2. Until(n)[0] = 0 /\ Until(l)[1] = 0
  <2>1. /\ Until(n)[0] = 0 /\ Until(l)[0] = 0 /\ Until(l)[1] = Until(l)[1 - 1] + l[1].delta
    BY <1>0, <1>1, UntilIs
  <2> QED
    BY <2>1
<1>3. ASSUME NEW i \in 1 .. Len(n) PROVE Until(n)[i] = Until(l)[i + 1]
  <2>1. SameDelays(l, 1, n, 0, Len(l) - 1)
    <3> SUFFICES ASSUME NEW j \in 1 .. Len(l) - 1 PROVE n[0 + j].delta = l[1 + j].delta
      BY DEF SameDelays
    <3>1. 0 + j = j /\ 1 + j = j + 1
      BY <1>0
    <3> QED
      BY <1>1, <3>1
  <2>2. Parallel(l, 1, n, 0, Len(l) - 1, 0)
    BY <1>0, <1>1, <1>2, <2>1 DEF Parallel
  <2>3. i \in 0 .. Len(l) - 1 /\ 0 + i = i /\ 1 + i = i + 1 /\ i + 1 \in 0 .. Len(l)
    BY <1>0, <1>1
  <2>4. Until(n)[0 + i] = Until(l)[1 + i] + 0
    <3>1. Kept(l, 1, n, 0, Len(l) - 1, 0)
      BY <1>1, <2>2, KeptDistance
    <3> QED
      BY <2>3, <3>1 DEF Kept
  <2>5. Until(l)[i + 1] \in Int
    BY <2>3, UntilInt
  <2> QED
    BY <2>3, <2>4, <2>5
<1> QED
  BY <1>1, <1>3

LEMMA ViewAt ==
  ASSUME NEW l \in Seq(Timer), Unique(l), NEW i \in 1 .. Len(l), NEW c, NEW la
  PROVE  View(l, c, la, l[i].id) = Seen(l[i], Until(l)[i], c, la)
  BY IndexIs DEF View


LEMMA SeenPending ==
  ASSUME NEW t \in Timer, NEW left \in Int, NEW c, NEW la
  PROVE  /\ Seen(t, left, c, la) \in Pending /\ Seen(t, left, c, la) # NONE
         /\ Seen(t, left, c, la).left = left /\ Seen(t, left, c, la).cleared = t.cleared
<1> DEFINE k == IF c = t.id /\ (t.times > 0 \/ la) THEN t.times + 1 ELSE t.times
<1>1. t.times \in Nat /\ t.ticks_need \in Nat /\ t.cleared \in BOOLEAN
  BY DEF Timer
<1>2. k \in Nat
  BY <1>1
<1>3. Seen(t, left, c, la) = [left |-> left, need |-> t.ticks_need, times |-> k, cleared |-> t.cleared]
  BY DEF Seen
<1> HIDE DEF k
<1>4. Seen(t, left, c, la) \in Pending
  BY <1>1, <1>2, <1>3 DEF Pending
<1> QED
  BY <1>3, <1>4, NoneAssumption

(* What is in the list is seen, and nothing else.                          *)
Shows(l, c, la, id, j) ==
  /\ l[j].id = id /\ View(l, c, la, id) = Seen(l[j], Until(l)[j], c, la)
  /\ View(l, c, la, id) # NONE /\ View(l, c, la, id) \in Pending
  /\ View(l, c, la, id).left = Until(l)[j] /\ View(l, c, la, id).cleared = l[j].cleared

LEMMA ShowsAt ==
  ASSUME NEW l \in Seq(Timer), Unique(l), NEW c, NEW la, NEW j \in 1 .. Len(l)
  PROVE  Shows(l, c, la, l[j].id, j)
<1>1. l[j] \in Timer /\ j \in 0 .. Len(l)
  BY LenProperties, ElementOfSeq
<1>2. Until(l)[j] \in Int
  BY <1>1, UntilInt
<1>3. View(l, c, la, l[j].id) = Seen(l[j], Until(l)[j], c, la)
  BY ViewAt
<1> QED
  BY <1>1, <1>2, <1>3, SeenPending DEF Shows

LEMMA ViewCases ==
  ASSUME NEW l \in Seq(Timer), Unique(l), NEW c, NEW la, NEW id
  PROVE  \/ ~InList(l, id) /\ View(l, c, la, id) = NONE
         \/ \E j \in 1 .. Len(l) : Shows(l, c, la, id, j)
<1>1. CASE ~InList(l, id)
  BY <1>1 DEF View
<1>2. CASE InList(l, id)
  BY <1>2, Indexed, ShowsAt, ZenonT(60)
<1> QED
  BY <1>1, <1>2

SameIds(l, n) == Len(n) = Len(l) /\ \A i \in 1 .. Len(l) : n[i].id = l[i].id

LEMMA Alike ==
  ASSUME NEW l, NEW n, SameIds(l, n), Unique(l)
  PROVE  Unique(n) /\ \A id : InList(n, id) <=> InList(l, id)
  BY DEF SameIds, Unique, InList

-----------------------------------------------------------------------------
(* The actions, each a step of the contract.                               *)

LEMMA StartTickStep ==
  ASSUME TInv, StartTick
  PROVE  TInv' /\ C!Tick
<1> DEFINE l == timers
           n == timers'
<1>1. /\ l \in Seq(Timer) /\ Unique(l) /\ NoDebt(l) /\ Known(l, ntimers) /\ Len(l) > 0
      /\ Len(l) \in Nat /\ l[1].delta >= 1 /\ cur = NONE /\ last = FALSE
  <2>1. l \in Seq(Timer) /\ l # << >>
    BY DEF TInv, TypeOK, StartTick
  <2>2. Len(l) > 0 /\ Len(l) \in Nat
    BY <2>1, EmptySeq
  <2> QED
    BY <2>1, <2>2 DEF TInv, StartTick, ListOk, AtHead
<1>2. Passed(l, n) /\ phase' = "tick" /\ UNCHANGED <<ntimers, cur, last>>
  BY DEF StartTick, Passed
<1>3. /\ n \in Seq(Timer) /\ Len(n) = Len(l) /\ n[1].delta = l[1].delta - 1
      /\ \A i \in 1 .. Len(l) : Same(n[i], l[i]) /\ Until(n)[i] = Until(l)[i] - 1
      /\ \A i \in 2 .. Len(l) : n[i] = l[i]
  BY <1>1, <1>2, Earlier
<1> HIDE DEF n, l
<1>4. TypeOK'
  BY <1>2, <1>3 DEF TInv, TypeOK, n
<1>5. SameIds(l, n)
  BY <1>3 DEF SameIds, Same
<1>6. Unique(n) /\ \A id : InList(n, id) <=> InList(l, id)
  BY <1>1, <1>5, Alike
<1>7. NoDebt(n)
  <2> SUFFICES ASSUME NEW i \in 1 .. Len(l) PROVE n[i].delta >= 0
    BY <1>3 DEF NoDebt
  <2>1. CASE i = 1
    <3>1. l[1] \in Timer
      BY <1>1, <2>1, ElementOfSeq
    <3>2. l[1].delta \in Int
      BY <3>1 DEF Timer
    <3> QED
      BY <1>1, <1>3, <2>1, <3>2
  <2>2. CASE i # 1
    <3>1. i \in 2 .. Len(l)
      BY <1>1, <2>2
    <3> QED
      BY <1>1, <1>3, <3>1 DEF NoDebt
  <2> QED
    BY <2>1, <2>2
<1>8. Known(n, ntimers)
  BY <1>1, <1>3 DEF Known, Same
<1>9. AtHead(n, "tick", cur, last)
  BY <1>1 DEF AtHead
<1>10. ListOk(timers', ntimers', phase', cur', last')
  BY <1>2, <1>6, <1>7, <1>8, <1>9 DEF ListOk, n
<1>11. ASSUME NEW id \in Ids
       PROVE  /\ Before(id) # NONE => Before(id).left # 0
              /\ Behind(id) = IF Before(id) # NONE THEN [Before(id) EXCEPT !.left = @ - 1] ELSE NONE
  <2>0. Before(id) = View(l, cur, last, id) /\ Behind(id) = View(n, cur, last, id)
    BY <1>2 DEF Before, Behind, l, n
  <2>1. CASE ~InList(l, id) /\ View(l, cur, last, id) = NONE
    BY <1>6, <2>0, <2>1 DEF View
  <2>2. CASE \E j \in 1 .. Len(l) : Shows(l, cur, last, id, j)
    <3>1. PICK j \in 1 .. Len(l) : Shows(l, cur, last, id, j)
      BY <2>2
    <3>2. Until(l)[j] >= l[1].delta /\ Until(l)[j] \in Int /\ l[1].delta \in Int
      <4>1. j \in 0 .. Len(l) /\ l[1] \in Timer
        BY <1>1, ElementOfSeq
      <4> QED
        BY <1>1, <4>1, HeadFirst, UntilInt DEF NoDebt, Timer
    <3>3. n[j].id = id /\ j \in 1 .. Len(n)
      BY <1>3, <3>1 DEF Shows, Same
    <3>4. View(n, cur, last, id) = Seen(n[j], Until(l)[j] - 1, cur, last)
      BY <1>3, <1>6, <3>3, ViewAt
    <3>5. View(l, cur, last, id) = Seen(l[j], Until(l)[j], cur, last)
      BY <3>1 DEF Shows
    <3>6. Seen(n[j], Until(l)[j] - 1, cur, last)
            = [Seen(l[j], Until(l)[j], cur, last) EXCEPT !.left = Until(l)[j] - 1]
      BY <1>3 DEF Seen, Same
    <3>7. View(l, cur, last, id).left = Until(l)[j] /\ View(l, cur, last, id) # NONE
      BY <3>1 DEF Shows
    <3>8. Until(l)[j] # 0
      BY <1>1, <3>2
    <3>9. [View(l, cur, last, id) EXCEPT !.left = @ - 1] = View(n, cur, last, id)
      BY <3>4, <3>5, <3>6, <3>7
    <3> QED
      BY <2>0, <3>7, <3>8, <3>9
  <2> QED
    BY <1>1, <2>1, <2>2, ViewCases
<1>12. C!Tick
  BY <1>1, <1>2, <1>4, <1>11, IsTick DEF TInv
<1> QED
  BY <1>4, <1>10, <1>12 DEF TInv, ListOk, Unique, NoDebt, Known, AtHead


LEMMA EndTickStep ==
  ASSUME TInv, EndTick
  PROVE  TInv' /\ UNCHANGED C!vars
<1>1. /\ phase = "tick" /\ phase' = "idle" /\ UNCHANGED <<timers, ntimers, cur, last>>
      /\ timers = << >> \/ ~(timers[1].delta <= 0)
  BY DEF EndTick, HeadDue
<1>2. TypeOK' /\ timers \in Seq(Timer)
  BY <1>1 DEF TInv, TypeOK
<1>3. Len(timers) > 0 => timers[1].delta >= 1
  <2> SUFFICES ASSUME Len(timers) > 0 PROVE timers[1].delta >= 1
    OBVIOUS
  <2>1. timers # << >> /\ Len(timers) \in Nat
    BY <1>2, EmptySeq, LenProperties
  <2>2. timers[1] \in Timer
    BY <1>2, <2>1, ElementOfSeq
  <2>3. timers[1].delta \in Int
    BY <2>2 DEF Timer
  <2> QED
    BY <1>1, <2>1, <2>3
<1>4. AtHead(timers, "idle", cur, last)
  BY <1>1, <1>3 DEF TInv, ListOk, AtHead
<1>5. ListOk(timers', ntimers', phase', cur', last')
  BY <1>1, <1>4 DEF TInv, ListOk
<1>6. UNCHANGED C!vars
  BY <1>1, IsStutter DEF TInv
<1> QED
  BY <1>2, <1>5, <1>6 DEF TInv, ListOk, Unique, NoDebt, Known, AtHead

(* In the loop of process_tick(), with a head that is due.                 *)
LEMMA AtDue ==
  ASSUME TInv, phase = "tick", HeadDue
  PROVE  /\ timers \in Seq(Timer) /\ Len(timers) \in Nat /\ Len(timers) > 0 /\ 1 \in 1 .. Len(timers)
         /\ timers[1] \in Timer /\ timers[1].delta = 0 /\ Until(timers)[1] = 0
         /\ cur = NONE /\ last = FALSE /\ timers[1].id \in Ids
         /\ Unique(timers) /\ NoDebt(timers) /\ Known(timers, ntimers)
<1>1. timers \in Seq(Timer) /\ timers # << >> /\ timers[1].delta <= 0
  BY DEF TInv, TypeOK, HeadDue
<1>2. Len(timers) > 0 /\ Len(timers) \in Nat /\ 1 \in 1 .. Len(timers)
  BY <1>1, EmptySeq
<1>3. timers[1] \in Timer
  BY <1>1, <1>2, ElementOfSeq
<1>4. timers[1].delta \in Int /\ timers[1].delta >= 0 /\ timers[1].id \in Ids
  BY <1>2, <1>3 DEF TInv, ListOk, NoDebt, Timer
<1>5. timers[1].delta = 0
  BY <1>1, <1>4
<1>6. Until(timers)[0] = 0 /\ Until(timers)[1] = Until(timers)[1 - 1] + timers[1].delta
  BY <1>1, <1>2, UntilIs
<1> QED
  BY <1>1, <1>2, <1>3, <1>4, <1>5, <1>6 DEF TInv, ListOk, AtHead

LEMMA CallStep ==
  ASSUME TInv, Call
  PROVE  TInv' /\ C!Call(timers[1].id)
<1> DEFINE l == timers
           n == timers'
           t == [l[1] EXCEPT !.times = Counted(l[1].times)]
           c == l[1].id
           la == (l[1].times = 1)
<1>1. /\ l \in Seq(Timer) /\ Len(l) \in Nat /\ Len(l) > 0 /\ 1 \in 1 .. Len(l)
      /\ l[1] \in Timer /\ l[1].delta = 0 /\ Until(l)[1] = 0
      /\ cur = NONE /\ last = FALSE /\ c \in Ids
      /\ Unique(l) /\ NoDebt(l) /\ Known(l, ntimers)
  BY AtDue DEF Call
<1>2. /\ Put(l, 1, t, n) /\ phase' = "call" /\ cur' = c /\ last' = la /\ ntimers' = ntimers
      /\ ~l[1].cleared
  BY DEF Call, Put
<1>3. Counted(l[1].times) \in Nat /\ l[1].times \in Nat
  BY <1>1 DEF Counted, Timer
<1>4. /\ t \in Timer /\ t.id = l[1].id /\ t.ticks_need = l[1].ticks_need /\ t.delta = l[1].delta
      /\ t.cleared = l[1].cleared /\ t.times = Counted(l[1].times)
  BY <1>1, <1>3 DEF Timer
<1> HIDE DEF t
<1>5. /\ n \in Seq(Timer) /\ Len(n) = Len(l)
      /\ \A i \in 1 .. Len(l) : n[i] = (IF i = 1 THEN t ELSE l[i]) /\ Until(n)[i] = Until(l)[i]
  BY <1>1, <1>2, <1>4, Touched
<1> HIDE DEF l, n
<1>6. TypeOK'
  <2>1. last' \in BOOLEAN
    BY <1>2
  <2> QED
    BY <1>1, <1>2, <1>5, <2>1 DEF TInv, TypeOK, n
<1>7. SameIds(l, n)
  BY <1>4, <1>5 DEF SameIds
<1>8. Unique(n) /\ \A id : InList(n, id) <=> InList(l, id)
  BY <1>1, <1>7, Alike
<1>9. n[1] = t /\ NoDebt(n) /\ Known(n, ntimers)
  BY <1>1, <1>4, <1>5 DEF NoDebt, Known
<1>10. la => t.times = 0
  BY <1>4 DEF Counted
<1>11. AtHead(n, "call", c, la)
  BY <1>1, <1>4, <1>5, <1>9, <1>10 DEF AtHead
<1>12. ListOk(timers', ntimers', phase', cur', last')
  BY <1>2, <1>8, <1>9, <1>11 DEF ListOk, n
<1>13. ASSUME NEW id \in Ids PROVE Behind(id) = Before(id)
  <2>0. Before(id) = View(l, cur, last, id) /\ Behind(id) = View(n, c, la, id)
    BY <1>2 DEF Before, Behind, l, n
  <2>1. CASE ~InList(l, id) /\ View(l, cur, last, id) = NONE
    BY <1>8, <2>0, <2>1 DEF View
  <2>2. CASE \E j \in 1 .. Len(l) : Shows(l, cur, last, id, j)
    <3>1. PICK j \in 1 .. Len(l) : Shows(l, cur, last, id, j)
      BY <2>2
    <3>2. n[j].id = id /\ j \in 1 .. Len(n) /\ l[j].id = id /\ l[j] \in Timer
      BY <1>1, <1>5, <1>7, <3>1, ElementOfSeq DEF Shows, SameIds
    <3>3. View(n, c, la, id) = Seen(n[j], Until(l)[j], c, la)
      BY <1>5, <1>8, <3>2, ViewAt
    <3>4. View(l, cur, last, id) = Seen(l[j], Until(l)[j], cur, last)
      BY <3>1 DEF Shows
    <3>5. Seen(n[j], Until(l)[j], c, la) = Seen(l[j], Until(l)[j], cur, last)
      <4>1. CASE j = 1
        <5>1. n[j] = t /\ l[j] = l[1] /\ cur # l[1].id
          BY <1>1, <1>9, <4>1, NoneAssumption
        <5>2. (IF c = t.id /\ (t.times > 0 \/ la) THEN t.times + 1 ELSE t.times) = l[1].times
          BY <1>3, <1>4 DEF Counted
        <5> QED
          BY <1>4, <5>1, <5>2 DEF Seen
      <4>2. CASE j # 1
        <5>1. n[j] = l[j] /\ l[j].id # c /\ l[j].id # cur
          BY <1>1, <1>5, <3>2, <4>2, NoneAssumption DEF Unique
        <5> QED
          BY <5>1 DEF Seen
      <4> QED
        BY <4>1, <4>2
    <3> QED
      BY <2>0, <3>3, <3>4, <3>5
  <2> QED
    BY <1>1, <2>1, <2>2, ViewCases
<1>14. Shows(l, cur, last, c, 1)
  BY <1>1, ShowsAt
<1>15. Before(c) # NONE /\ Before(c).left = 0 /\ ~Before(c).cleared
  BY <1>1, <1>2, <1>14 DEF Shows, Before, l
<1>16. C!Call(c)
  BY <1>1, <1>2, <1>6, <1>13, <1>15, IsCall DEF TInv
<1> QED
  BY <1>6, <1>12, <1>16 DEF TInv, ListOk, Unique, NoDebt, Known, AtHead, l


(* Without its head, which is due, the list shows all the others as it did. *)
LEMMA RestOk ==
  ASSUME NEW l \in Seq(Timer), Len(l) > 0, l[1].delta = 0, NEW n, Rest(l, n), NEW m,
         Unique(l), NoDebt(l), Known(l, m)
  PROVE  /\ n \in Seq(Timer) /\ Unique(n) /\ NoDebt(n) /\ Known(n, m) /\ ~InList(n, l[1].id)
         /\ \A c, la, id : View(n, c, la, id) = IF id = l[1].id THEN NONE ELSE View(l, c, la, id)
<1>0. Len(l) \in Nat /\ 1 \in 1 .. Len(l)
  BY LenProperties
<1>1. /\ n \in Seq(Timer) /\ Len(n) = Len(l) - 1
      /\ \A i \in 1 .. Len(n) : n[i] = l[i + 1] /\ Until(n)[i] = Until(l)[i + 1]
  BY Rested
<1>2. ASSUME NEW i \in 1 .. Len(n) PROVE n[i] = l[i + 1] /\ i + 1 \in 1 .. Len(l) /\ i + 1 # 1
  BY <1>0, <1>1
<1>3. Unique(n)
  <2> SUFFICES ASSUME NEW i \in 1 .. Len(n), NEW j \in 1 .. Len(n), n[i].id = n[j].id PROVE i = j
    BY DEF Unique
  <2>1. i + 1 = j + 1
    BY <1>2 DEF Unique
  <2> QED
    BY <1>0, <1>1, <2>1
<1>4. NoDebt(n) /\ Known(n, m)
  BY <1>2 DEF NoDebt, Known
<1>5. ~InList(n, l[1].id)
  <2> SUFFICES ASSUME NEW i \in 1 .. Len(n), n[i].id = l[1].id PROVE FALSE
    BY DEF InList
  <2> QED
    BY <1>0, <1>2 DEF Unique
<1>6. ASSUME NEW c, NEW la, NEW id
      PROVE  View(n, c, la, id) = IF id = l[1].id THEN NONE ELSE View(l, c, la, id)
  <2>1. CASE id = l[1].id
    BY <1>5, <2>1 DEF View
  <2>2. CASE id # l[1].id /\ ~InList(n, id)
    <3>1. ASSUME NEW j \in 1 .. Len(l) PROVE l[j].id # id
      <4>1. CASE j = 1
        BY <2>2, <4>1
      <4>2. CASE j # 1
        <5>1. j - 1 \in 1 .. Len(n) /\ (j - 1) + 1 = j
          BY <1>0, <1>1, <4>2
        <5> QED
          BY <1>1, <2>2, <5>1 DEF InList
      <4> QED
        BY <4>1, <4>2
    <3> QED
      BY <2>2, <3>1 DEF View, InList
  <2>3. CASE InList(n, id)
    <3>1. PICK j \in 1 .. Len(n) : n[j].id = id
      BY <2>3 DEF InList
    <3> DEFINE k == j + 1
    <3>2. k \in 1 .. Len(l) /\ l[k].id = id /\ n[j] = l[k] /\ Until(n)[j] = Until(l)[k]
      BY <1>1, <1>2, <3>1
    <3> HIDE DEF k
    <3>3. View(n, c, la, id) = Seen(n[j], Until(n)[j], c, la)
      <4>0. n \in Seq(Timer)
        BY <1>1
      <4>1. View(n, c, la, n[j].id) = Seen(n[j], Until(n)[j], c, la)
        BY <1>3, <4>0, ViewAt
      <4> QED
        BY <3>1, <4>1
    <3>4. View(l, c, la, id) = Seen(l[k], Until(l)[k], c, la)
      BY <3>2, ViewAt
    <3>5. id # l[1].id
      BY <1>5, <2>3
    <3> QED
      BY <3>2, <3>3, <3>4, <3>5
  <2> QED
    BY <2>1, <2>2, <2>3
<1> QED
  BY <1>1, <1>3, <1>4, <1>5, <1>6

LEMMA DiscardStep ==
  ASSUME TInv, Discard
  PROVE  TInv' /\ C!Drop(timers[1].id)
<1> DEFINE l == timers
           n == timers'
           c == l[1].id
<1>1. /\ l \in Seq(Timer) /\ Len(l) \in Nat /\ Len(l) > 0 /\ 1 \in 1 .. Len(l)
      /\ l[1] \in Timer /\ l[1].delta = 0 /\ Until(l)[1] = 0
      /\ cur = NONE /\ last = FALSE /\ c \in Ids
      /\ Unique(l) /\ NoDebt(l) /\ Known(l, ntimers)
  BY AtDue DEF Discard
<1>2. /\ n = Tail(l) /\ l # << >> /\ UNCHANGED <<ntimers, phase, cur, last>> /\ phase = "tick"
      /\ l[1].cleared
  BY DEF Discard, HeadDue
<1>3. Rest(l, n)
  BY <1>1, <1>2, TailIsSubSeq DEF Rest
<1> HIDE DEF l, n
<1>4. /\ n \in Seq(Timer) /\ Unique(n) /\ NoDebt(n) /\ Known(n, ntimers) /\ ~InList(n, c)
      /\ \A d, la, id : View(n, d, la, id) = IF id = c THEN NONE ELSE View(l, d, la, id)
  BY <1>1, <1>3, RestOk
<1>5. TypeOK'
  BY <1>2, <1>4 DEF TInv, TypeOK, n
<1>6. AtHead(n, "tick", cur, last)
  BY <1>1 DEF AtHead
<1>7. ListOk(timers', ntimers', phase', cur', last')
  BY <1>2, <1>4, <1>6 DEF ListOk, n
<1>8. \A id \in Ids : Behind(id) = IF id = c THEN NONE ELSE Before(id)
  BY <1>2, <1>4 DEF Before, Behind, l, n
<1>9. Shows(l, cur, last, c, 1)
  BY <1>1, ShowsAt
<1>10. Before(c) # NONE /\ Before(c).left = 0 /\ Before(c).cleared
  BY <1>1, <1>2, <1>9 DEF Shows, Before, l
<1>11. C!Drop(c)
  BY <1>1, <1>2, <1>5, <1>8, <1>10, IsDrop DEF TInv
<1> QED
  BY <1>5, <1>7, <1>11 DEF TInv, ListOk, Unique, NoDebt, Known, AtHead, l

LEMMA clear_timeoutStep ==
  ASSUME TInv, NEW id \in Ids, clear_timeout(id)
  PROVE  TInv' /\ C!Clear(id)
<1> DEFINE l == timers
           n == timers'
           k == IndexOf(l, id)
           t == [l[k] EXCEPT !.cleared = TRUE]
<1>1. /\ l \in Seq(Timer) /\ Unique(l) /\ NoDebt(l) /\ Known(l, ntimers)
      /\ AtHead(l, phase, cur, last) /\ InList(l, id)
  BY DEF TInv, TypeOK, ListOk, clear_timeout
<1>2. Put(l, k, t, n) /\ UNCHANGED <<ntimers, phase, cur, last>>
  BY DEF clear_timeout, Put
<1>3. k \in 1 .. Len(l) /\ l[k].id = id /\ l[k] \in Timer
  BY <1>1, Indexed, ElementOfSeq
<1> HIDE DEF l, n, k
<1>4. /\ t \in Timer /\ t.id = l[k].id /\ t.ticks_need = l[k].ticks_need /\ t.delta = l[k].delta
      /\ t.cleared = TRUE /\ t.times = l[k].times
  BY <1>3 DEF Timer
<1> HIDE DEF t
<1>5. /\ n \in Seq(Timer) /\ Len(n) = Len(l)
      /\ \A i \in 1 .. Len(l) : n[i] = (IF i = k THEN t ELSE l[i]) /\ Until(n)[i] = Until(l)[i]
  BY <1>1, <1>2, <1>3, <1>4, Touched
<1>6. TypeOK'
  BY <1>2, <1>5 DEF TInv, TypeOK, n
<1>7. SameIds(l, n)
  BY <1>4, <1>5 DEF SameIds
<1>8. Unique(n) /\ \A d : InList(n, d) <=> InList(l, d)
  BY <1>1, <1>7, Alike
<1>9. NoDebt(n) /\ Known(n, ntimers)
  BY <1>1, <1>4, <1>5 DEF NoDebt, Known
<1>10. AtHead(n, phase, cur, last)
  <2>0. Len(l) \in Nat
    BY <1>1, LenProperties
  <2>1. Len(l) > 0 => n[1].delta = l[1].delta /\ n[1].id = l[1].id /\ n[1].times = l[1].times
    BY <1>4, <1>5, <2>0
  <2> QED
    BY <1>1, <1>5, <2>1 DEF AtHead
<1>11. ListOk(timers', ntimers', phase', cur', last')
  BY <1>2, <1>8, <1>9, <1>10 DEF ListOk, n
<1>12. ASSUME NEW d \in Ids
       PROVE  Behind(d) = IF d = id THEN [Before(id) EXCEPT !.cleared = TRUE] ELSE Before(d)
  <2>0. Before(d) = View(l, cur, last, d) /\ Behind(d) = View(n, cur, last, d)
    BY <1>2 DEF Before, Behind, l, n
  <2>1. CASE ~InList(l, d) /\ View(l, cur, last, d) = NONE
    BY <1>1, <1>8, <2>0, <2>1 DEF View
  <2>2. CASE \E j \in 1 .. Len(l) : Shows(l, cur, last, d, j)
    <3>1. PICK j \in 1 .. Len(l) : Shows(l, cur, last, d, j)
      BY <2>2
    <3>2. n[j].id = d /\ j \in 1 .. Len(n) /\ l[j].id = d
      BY <1>5, <1>7, <3>1 DEF Shows, SameIds
    <3>3. View(n, cur, last, d) = Seen(n[j], Until(l)[j], cur, last)
      BY <1>5, <1>8, <3>2, ViewAt
    <3>4. View(l, cur, last, d) = Seen(l[j], Until(l)[j], cur, last)
      BY <3>1 DEF Shows
    <3>5. CASE j = k
      <4>1. n[j] = t /\ d = id
        BY <1>3, <1>5, <3>2, <3>5
      <4>2. Seen(t, Until(l)[k], cur, last) = [Seen(l[k], Until(l)[k], cur, last) EXCEPT !.cleared = TRUE]
        <5> DEFINE x == IF cur = l[k].id /\ (l[k].times > 0 \/ last) THEN l[k].times + 1 ELSE l[k].times
        <5>1. Seen(l[k], Until(l)[k], cur, last)
                = [left |-> Until(l)[k], need |-> l[k].ticks_need, times |-> x, cleared |-> l[k].cleared]
          BY DEF Seen
        <5>2. Seen(t, Until(l)[k], cur, last)
                = [left |-> Until(l)[k], need |-> l[k].ticks_need, times |-> x, cleared |-> TRUE]
          BY <1>4 DEF Seen
        <5> DEFINE u == Until(l)[k]
                   w == l[k].ticks_need
                   z == l[k].cleared
                   yes == TRUE
        <5> HIDE DEF x, u, w, z, yes
        <5>3. [[left |-> u, need |-> w, times |-> x, cleared |-> z] EXCEPT !.cleared = yes]
                = [left |-> u, need |-> w, times |-> x, cleared |-> yes]
          OBVIOUS
        <5> QED
          BY <5>1, <5>2, <5>3 DEF u, w, z, yes
      <4> QED
        BY <2>0, <3>3, <3>4, <3>5, <4>1, <4>2
    <3>6. CASE j # k
      <4>1. n[j] = l[j] /\ d # id
        BY <1>1, <1>3, <1>5, <3>2, <3>6 DEF Unique
      <4> QED
        BY <2>0, <3>3, <3>4, <4>1
    <3> QED
      BY <3>5, <3>6
  <2> QED
    BY <1>1, <2>1, <2>2, ViewCases
<1>13. Before(id) # NONE
  <2>1. Shows(l, cur, last, id, k)
    BY <1>1, <1>3, ShowsAt
  <2> QED
    BY <2>1 DEF Shows, Before, l
<1>14. C!Clear(id)
  BY <1>2, <1>6, <1>12, <1>13, IsClear DEF TInv
<1> QED
  BY <1>6, <1>11, <1>14 DEF TInv, ListOk, Unique, NoDebt, Known, AtHead


(* With a timer more the list shows that one, and the others as it did.    *)
LEMMA IntoOk ==
  ASSUME NEW l \in Seq(Timer), NEW t \in Timer, NEW k \in 1 .. Len(l) + 1, NEW n,
         Into(l, t, k, n), NEW m, t.id < m, t.ticks_need >= 1, ~InList(l, t.id),
         Unique(l), NoDebt(l), Known(l, m)
  PROVE  /\ n \in Seq(Timer) /\ Unique(n) /\ NoDebt(n) /\ Known(n, m)
         /\ \A c, la, id : View(n, c, la, id) =
              IF id = t.id THEN Seen(t, t.ticks_need, c, la) ELSE View(l, c, la, id)
<1>0. Len(l) \in Nat /\ k \in Nat
  <2>1. Len(l) \in Nat
    BY LenProperties
  <2> QED
    BY <2>1
<1>1. /\ n \in Seq(Timer) /\ Len(n) = Len(l) + 1 /\ NoDebt(n)
      /\ Same(n[k], t) /\ Until(n)[k] = t.ticks_need
  BY DEF Into
<1>2. ASSUME NEW i \in 1 .. k - 1 PROVE Same(n[i], l[i]) /\ Until(n)[i] = Until(l)[i]
  BY DEF Into
<1>3. ASSUME NEW i \in k .. Len(l) PROVE Same(n[i + 1], l[i]) /\ Until(n)[i + 1] = Until(l)[i]
  BY DEF Into
<1> DEFINE from(i) == IF i < k THEN i ELSE i - 1
           to(i) == IF i < k THEN i ELSE i + 1
<1>4. ASSUME NEW i \in 1 .. Len(n), i # k
      PROVE  /\ from(i) \in 1 .. Len(l) /\ Same(n[i], l[from(i)]) /\ i = to(from(i))
  <2>1. CASE i < k
    <3>1. i \in 1 .. k - 1 /\ i \in 1 .. Len(l)
      BY <1>0, <1>1, <2>1
    <3> QED
      BY <1>2, <2>1, <3>1
  <2>2. CASE i > k
    <3>1. i - 1 \in k .. Len(l) /\ i - 1 \in 1 .. Len(l) /\ ~(i < k) /\ ~(i - 1 < k) /\ (i - 1) + 1 = i
      BY <1>0, <1>1, <2>2
    <3>2. Same(n[(i - 1) + 1], l[i - 1])
      BY <1>3, <3>1
    <3> QED
      BY <3>1, <3>2
  <2> QED
    BY <1>0, <1>1, <1>4, <2>1, <2>2
<1>5. ASSUME NEW h \in 1 .. Len(l)
      PROVE  /\ to(h) \in 1 .. Len(n) /\ to(h) # k
             /\ Same(n[to(h)], l[h]) /\ Until(n)[to(h)] = Until(l)[h]
  <2>1. CASE h < k
    <3>1. h \in 1 .. k - 1 /\ h \in 1 .. Len(n) /\ h # k
      BY <1>0, <1>1, <2>1
    <3> QED
      BY <1>2, <2>1, <3>1
  <2>2. CASE ~(h < k)
    <3>1. h \in k .. Len(l) /\ h + 1 \in 1 .. Len(n) /\ h + 1 # k
      BY <1>0, <1>1, <2>2
    <3> QED
      BY <1>3, <2>2, <3>1
  <2> QED
    BY <2>1, <2>2
<1> HIDE DEF from, to
<1>6. n[k].id = t.id /\ k \in 1 .. Len(n)
  BY <1>0, <1>1 DEF Same
<1>7. Unique(n)
  <2> SUFFICES ASSUME NEW i \in 1 .. Len(n), NEW j \in 1 .. Len(n), n[i].id = n[j].id PROVE i = j
    BY DEF Unique
  <2>1. CASE i = k /\ j # k
    BY <1>4, <1>6, <2>1 DEF InList, Same
  <2>2. CASE i # k /\ j = k
    BY <1>4, <1>6, <2>2 DEF InList, Same
  <2>3. CASE i # k /\ j # k
    <3>1. /\ from(i) \in 1 .. Len(l) /\ Same(n[i], l[from(i)]) /\ i = to(from(i))
          /\ from(j) \in 1 .. Len(l) /\ Same(n[j], l[from(j)]) /\ j = to(from(j))
      BY <1>4, <2>3
    <3>2. from(i) = from(j)
      BY <3>1 DEF Unique, Same
    <3> QED
      BY <3>1, <3>2
  <2> QED
    BY <2>1, <2>2, <2>3
<1>8. Known(n, m)
  <2> SUFFICES ASSUME NEW i \in 1 .. Len(n) PROVE n[i].id < m /\ n[i].ticks_need >= 1
    BY DEF Known
  <2>1. CASE i = k
    BY <1>1, <2>1 DEF Same
  <2>2. CASE i # k
    BY <1>4, <2>2 DEF Same, Known
  <2> QED
    BY <2>1, <2>2
<1>9. ASSUME NEW c, NEW la, NEW id
      PROVE  View(n, c, la, id) = IF id = t.id THEN Seen(t, t.ticks_need, c, la) ELSE View(l, c, la, id)
  <2>0. n \in Seq(Timer)
    BY <1>1
  <2>1. CASE id = t.id
    <3>1. View(n, c, la, n[k].id) = Seen(n[k], Until(n)[k], c, la)
      BY <1>6, <1>7, <2>0, ViewAt
    <3>2. Seen(n[k], t.ticks_need, c, la) = Seen(t, t.ticks_need, c, la)
      BY <1>1 DEF Same, Seen
    <3> QED
      BY <1>1, <1>6, <2>1, <3>1, <3>2
  <2>2. CASE id # t.id /\ ~InList(l, id)
    <3>1. ASSUME NEW i \in 1 .. Len(n) PROVE n[i].id # id
      <4>1. CASE i = k
        BY <1>6, <2>2, <4>1
      <4>2. CASE i # k
        BY <1>4, <2>2, <4>2 DEF InList, Same
      <4> QED
        BY <4>1, <4>2
    <3> QED
      BY <2>2, <3>1 DEF View, InList
  <2>3. CASE InList(l, id)
    <3>1. PICK h \in 1 .. Len(l) : l[h].id = id
      BY <2>3 DEF InList
    <3> DEFINE g == to(h)
    <3>2. g \in 1 .. Len(n) /\ Same(n[g], l[h]) /\ Until(n)[g] = Until(l)[h]
      BY <1>5
    <3> HIDE DEF g
    <3>3. View(n, c, la, n[g].id) = Seen(n[g], Until(n)[g], c, la)
      BY <1>7, <2>0, <3>2, ViewAt
    <3>4. View(l, c, la, l[h].id) = Seen(l[h], Until(l)[h], c, la)
      BY ViewAt
    <3>5. Seen(n[g], Until(n)[g], c, la) = Seen(l[h], Until(l)[h], c, la)
      BY <3>2 DEF Same, Seen
    <3>6. n[g].id = id /\ id # t.id
      BY <2>3, <3>1, <3>2 DEF Same
    <3> QED
      BY <3>1, <3>3, <3>4, <3>5, <3>6
  <2> QED
    BY <2>1, <2>2, <2>3
<1> QED
  BY <1>1, <1>7, <1>8, <1>9

LEMMA add_periodicalStep ==
  ASSUME TInv, 0 \notin Delays, NEW ms \in Delays, NEW a \in Times, add_periodical(ms, a)
  PROVE  TInv' /\ C!Set(ntimers, ms, a)
<1> DEFINE l == timers
           n == timers'
           t == [id |-> ntimers, ticks_need |-> ms, delta |-> ms,
                 times |-> a, protect |-> FALSE, cleared |-> FALSE]
<1>1. /\ l \in Seq(Timer) /\ Unique(l) /\ NoDebt(l) /\ Known(l, ntimers)
      /\ AtHead(l, phase, cur, last) /\ ntimers \in Nat
  BY BoundAssumption DEF TInv, TypeOK, ListOk
<1>2. /\ n = Inserted(l, t) /\ ntimers' = ntimers + 1 /\ UNCHANGED <<phase, cur, last>>
      /\ ntimers < MaxTimers /\ phase \in {"idle", "call"}
  BY DEF add_periodical, Scripting
<1>3. ntimers \in Ids /\ ntimers + 1 \in 0 .. MaxTimers
  BY <1>1, <1>2, BoundAssumption DEF Ids
<1>4. ms \in Nat /\ ms >= 1 /\ a \in Nat
  BY DelayAssumption, TimesAssumption
<1>5. /\ t \in Timer /\ t.id = ntimers /\ t.ticks_need = ms /\ t.times = a /\ t.cleared = FALSE
  BY <1>3, <1>4 DEF Timer
<1> HIDE DEF l, n, t
<1>6. PICK k \in 1 .. Len(l) + 1 : Into(l, t, k, n)
  BY <1>1, <1>2, <1>5, InsertedInto
<1>7. ~InList(l, t.id)
  BY <1>1, <1>5 DEF InList, Known
<1>8. Known(l, ntimers + 1) /\ t.id < ntimers + 1
  <2>1. ASSUME NEW i \in 1 .. Len(l) PROVE l[i].id < ntimers + 1 /\ l[i].ticks_need >= 1
    <3>1. l[i] \in Timer
      BY <1>1, ElementOfSeq
    <3>2. l[i].id \in Int
      BY <3>1, BoundAssumption DEF Timer, Ids
    <3> QED
      BY <1>1, <3>2 DEF Known
  <2> QED
    BY <1>1, <1>5, <2>1 DEF Known
<1>9. /\ n \in Seq(Timer) /\ Unique(n) /\ NoDebt(n) /\ Known(n, ntimers + 1)
      /\ \A c, la, id : View(n, c, la, id) =
           IF id = t.id THEN Seen(t, t.ticks_need, c, la) ELSE View(l, c, la, id)
  <2>1. t.ticks_need >= 1
    BY <1>4, <1>5
  <2> QED
    BY <1>1, <1>5, <1>6, <1>7, <1>8, <2>1, IntoOk
<1>10. TypeOK'
  BY <1>2, <1>3, <1>9 DEF TInv, TypeOK, n
<1>11. AtHead(n, phase, cur, last)
  <2>0. Len(l) \in Nat
    BY <1>1, LenProperties
  <2>1. /\ Len(n) = Len(l) + 1
        /\ k = 1 => n[1].delta = ms
        /\ k > 1 => n[1] = l[1]
        /\ k = 1 /\ Len(l) > 0 => ms <= l[1].delta
    BY <1>5, <1>6 DEF Into
  <2>2. CASE phase = "call"
    <3>1. Len(l) > 0 /\ l[1].id = cur /\ l[1].delta = 0 /\ (last => l[1].times = 0)
      BY <1>1, <2>2 DEF AtHead
    <3>2. k > 1
      BY <1>4, <2>0, <2>1, <3>1
    <3> QED
      BY <2>0, <2>1, <2>2, <3>1, <3>2 DEF AtHead
  <2>3. CASE phase = "idle"
    <3>1. n[1].delta >= 1
      <4>1. CASE k = 1
        BY <1>4, <1>6, <2>1, <4>1 DEF Into
      <4>2. CASE k > 1
        <5>1. Len(l) > 0
          BY <2>0, <4>2
        <5> QED
          BY <1>1, <2>1, <2>3, <4>2, <5>1 DEF AtHead
      <4> QED
        BY <2>0, <4>1, <4>2
    <3> QED
      BY <1>1, <2>3, <3>1 DEF AtHead
  <2> QED
    BY <1>2, <2>2, <2>3
<1>12. ListOk(timers', ntimers', phase', cur', last')
  BY <1>2, <1>9, <1>11 DEF ListOk, n
<1>13. cur # ntimers
  <2>1. CASE phase = "call"
    <3>1. Len(l) > 0 /\ l[1].id = cur /\ Len(l) \in Nat
      BY <1>1, <2>1, LenProperties DEF AtHead
    <3> QED
      BY <1>5, <1>7, <3>1 DEF InList
  <2>2. CASE phase # "call"
    BY <1>1, <1>3, <2>2, NoneAssumption DEF AtHead
  <2> QED
    BY <2>1, <2>2
<1>14. Seen(t, ms, cur, last) = [left |-> ms, need |-> ms, times |-> a, cleared |-> FALSE]
  BY <1>5, <1>13 DEF Seen
<1>15. \A id \in Ids : Behind(id) = IF id = ntimers
                         THEN [left |-> ms, need |-> ms, times |-> a, cleared |-> FALSE]
                         ELSE Before(id)
  <2>1. ASSUME NEW id \in Ids PROVE Behind(id) = IF id = ntimers THEN Seen(t, ms, cur, last) ELSE Before(id)
    BY <1>2, <1>5, <1>9 DEF Before, Behind, l, n
  <2> QED
    BY <1>14, <2>1
<1>16. Before(ntimers) = NONE
  BY <1>5, <1>7 DEF Before, View, l
<1>17. C!Set(ntimers, ms, a)
  BY <1>2, <1>3, <1>10, <1>15, <1>16, IsSet DEF TInv
<1> QED
  BY <1>10, <1>12, <1>17 DEF TInv, ListOk, Unique, NoDebt, Known, AtHead


LEMMA ReturnStep ==
  ASSUME TInv, Return
  PROVE  TInv' /\ C!Return
<1> DEFINE l == timers
           n == timers'
           t == l[1]
           rest == SubSeq(l, 2, Len(l))
<1>1. /\ l \in Seq(Timer) /\ Unique(l) /\ NoDebt(l) /\ Known(l, ntimers) /\ phase = "call"
      /\ Len(l) > 0 /\ t.id = cur /\ t.delta = 0 /\ (last => t.times = 0) /\ last \in BOOLEAN
  BY DEF TInv, TypeOK, ListOk, AtHead, Return
<1>2. Len(l) \in Nat /\ 1 \in 1 .. Len(l) /\ t \in Timer
  <2>1. Len(l) \in Nat
    BY <1>1, LenProperties
  <2> QED
    BY <1>1, <2>1, ElementOfSeq
<1>3. IndexOf(l, cur) = 1
  BY <1>1, <1>2, IndexIs
<1>4. After(l, cur) = rest
  BY <1>3 DEF After
<1>5. /\ n = IF last \/ t.cleared THEN rest ELSE Inserted(rest, t)
      /\ phase' = "tick" /\ cur' = NONE /\ last' = FALSE /\ ntimers' = ntimers
  BY <1>3, <1>4 DEF Return
<1>6. Rest(l, rest)
  BY DEF Rest
<1> HIDE DEF l, n, t, rest
<1>7. /\ rest \in Seq(Timer) /\ Unique(rest) /\ NoDebt(rest) /\ Known(rest, ntimers)
      /\ ~InList(rest, cur)
      /\ \A c, la, id : View(rest, c, la, id) = IF id = cur THEN NONE ELSE View(l, c, la, id)
  BY <1>1, <1>6, RestOk DEF t
<1>8. cur \in Ids /\ cur # NONE /\ t.ticks_need >= 1 /\ t.id < ntimers
  BY <1>1, <1>2, NoneAssumption DEF Timer, Known, t
<1>9. Shows(l, cur, last, cur, 1)
  BY <1>1, <1>2, ShowsAt DEF t
<1>10. Before(cur) = Seen(t, 0, cur, last)
  <2>1. Until(l)[0] = 0 /\ Until(l)[1] = Until(l)[1 - 1] + l[1].delta
    BY <1>1, <1>2, UntilIs
  <2>2. Until(l)[1] = 0
    BY <1>1, <2>1 DEF t
  <2> QED
    BY <1>9, <2>2 DEF Shows, Before, l, t
<1>11. AtHead(n, "tick", NONE, FALSE)
  BY DEF AtHead
(* The calls that remained before this one.                                *)
<1> DEFINE k == IF t.times > 0 \/ last THEN t.times + 1 ELSE t.times
<1>12. k = 1 <=> last
  BY <1>1, <1>2 DEF Timer
<1>13. (IF k = 0 THEN 0 ELSE k - 1) = t.times /\ k \in Nat
  BY <1>1, <1>2 DEF Timer
<1>14. Before(cur) = [left |-> 0, need |-> t.ticks_need, times |-> k, cleared |-> t.cleared]
  BY <1>1, <1>10 DEF Seen
<1> HIDE DEF k
<1>15. CASE last \/ t.cleared
  <2>1. n = rest
    BY <1>5, <1>15
  <2>2. TypeOK'
    BY <1>5, <1>7, <2>1 DEF TInv, TypeOK, n
  <2>3. ListOk(timers', ntimers', phase', cur', last')
    BY <1>5, <1>7, <1>11, <2>1 DEF ListOk, n
  <2>4. Returned(Before(cur)) = NONE
    BY <1>12, <1>14, <1>15 DEF Returned
  <2>5. ASSUME NEW id \in Ids
        PROVE  Behind(id) = IF id = cur THEN Returned(Before(cur)) ELSE Before(id)
    <3>1. Behind(id) = IF id = cur THEN NONE ELSE View(l, NONE, FALSE, id)
      BY <1>5, <1>7, <2>1, ZenonT(60) DEF Behind, n
    <3>2. id # cur => View(l, NONE, FALSE, id) = View(l, cur, last, id)
      <4> SUFFICES ASSUME id # cur PROVE View(l, NONE, FALSE, id) = View(l, cur, last, id)
        OBVIOUS
      <4>1. CASE InList(l, id)
        <5>1. l[IndexOf(l, id)].id = id
          BY <1>1, <4>1, Indexed
        <5>2. NONE # id
          BY NoneAssumption
        <5> QED
          BY <4>1, <5>1, <5>2 DEF View, Seen
      <4>2. CASE ~InList(l, id)
        BY <4>2 DEF View
      <4> QED
        BY <4>1, <4>2
    <3> QED
      BY <2>4, <3>1, <3>2 DEF Before, l
  <2>6. C!Return
    BY <1>5, <1>8, <2>2, <2>5, IsReturn DEF TInv
  <2> QED
    BY <2>2, <2>3, <2>6 DEF TInv, ListOk, Unique, NoDebt, Known, AtHead
<1>16. CASE ~(last \/ t.cleared)
  <2>1. n = Inserted(rest, t)
    BY <1>5, <1>16
  <2>2. PICK p \in 1 .. Len(rest) + 1 : Into(rest, t, p, n)
    BY <1>2, <1>7, <2>1, InsertedInto
  <2>3. /\ n \in Seq(Timer) /\ Unique(n) /\ NoDebt(n) /\ Known(n, ntimers)
        /\ \A c, la, id : View(n, c, la, id) =
             IF id = t.id THEN Seen(t, t.ticks_need, c, la) ELSE View(rest, c, la, id)
    <3>1. ~InList(rest, t.id)
      BY <1>1, <1>7
    <3> QED
      BY <1>2, <1>7, <1>8, <2>2, <3>1, IntoOk
  <2>4. TypeOK'
    BY <1>5, <2>3 DEF TInv, TypeOK, n
  <2>5. ListOk(timers', ntimers', phase', cur', last')
    BY <1>5, <1>11, <2>3 DEF ListOk, n
  <2>6. Returned(Before(cur)) = Seen(t, t.ticks_need, NONE, FALSE)
    <3>1. Seen(t, t.ticks_need, NONE, FALSE)
            = [left |-> t.ticks_need, need |-> t.ticks_need, times |-> t.times, cleared |-> t.cleared]
      BY <1>1, <1>8 DEF Seen
    <3>2. Returned(Before(cur)) = [Before(cur) EXCEPT !.left = t.ticks_need, !.times = t.times]
      <4> DEFINE q == Before(cur)
                 kk == IF q.times = 0 THEN 0 ELSE q.times - 1
      <4>1. q.times = k /\ q.cleared = t.cleared /\ q.need = t.ticks_need
        BY <1>14
      <4>2. Returned(q) = [q EXCEPT !.left = q.need, !.times = kk]
        BY <1>12, <1>16, <4>1 DEF Returned
      <4>3. kk = t.times
        BY <1>13, <4>1
      <4> HIDE DEF q, kk
      <4>4. Returned(q) = [q EXCEPT !.left = t.ticks_need, !.times = t.times]
        BY <4>1, <4>2, <4>3
      <4> QED
        BY <4>4 DEF q
    <3> DEFINE w == t.ticks_need
               x == t.times
               z == t.cleared
    <3> HIDE DEF w, x, z
    <3>3. [[left |-> 0, need |-> w, times |-> k, cleared |-> z] EXCEPT !.left = w, !.times = x]
            = [left |-> w, need |-> w, times |-> x, cleared |-> z]
      <4>1. [[left |-> 0, need |-> w, times |-> k, cleared |-> z] EXCEPT !.left = w]
              = [left |-> w, need |-> w, times |-> k, cleared |-> z]
        OBVIOUS
      <4>2. [[left |-> w, need |-> w, times |-> k, cleared |-> z] EXCEPT !.times = x]
              = [left |-> w, need |-> w, times |-> x, cleared |-> z]
        OBVIOUS
      <4> QED
        BY <4>1, <4>2, Zenon
    <3> QED
      BY <1>14, <3>1, <3>2, <3>3 DEF w, x, z
  <2>7. ASSUME NEW id \in Ids
        PROVE  Behind(id) = IF id = cur THEN Returned(Before(cur)) ELSE Before(id)
    <3>1. Behind(id) = IF id = cur THEN Seen(t, t.ticks_need, NONE, FALSE)
                       ELSE View(l, NONE, FALSE, id)
      <4>1. Behind(id) = View(n, NONE, FALSE, id)
        BY <1>5 DEF Behind, n
      <4>2. View(n, NONE, FALSE, id) = IF id = cur THEN Seen(t, t.ticks_need, NONE, FALSE)
                                       ELSE View(rest, NONE, FALSE, id)
        BY <1>1, <2>3
      <4>3. View(rest, NONE, FALSE, id) = IF id = cur THEN NONE ELSE View(l, NONE, FALSE, id)
        BY <1>7
      <4> QED
        BY <4>1, <4>2, <4>3
    <3>2. id # cur => View(l, NONE, FALSE, id) = View(l, cur, last, id)
      <4> SUFFICES ASSUME id # cur PROVE View(l, NONE, FALSE, id) = View(l, cur, last, id)
        OBVIOUS
      <4>1. CASE InList(l, id)
        <5>1. l[IndexOf(l, id)].id = id
          BY <1>1, <4>1, Indexed
        <5>2. NONE # id
          BY NoneAssumption
        <5> QED
          BY <4>1, <5>1, <5>2 DEF View, Seen
      <4>2. CASE ~InList(l, id)
        BY <4>2 DEF View
      <4> QED
        BY <4>1, <4>2
    <3> QED
      BY <2>6, <3>1, <3>2 DEF Before, l
  <2>8. C!Return
    BY <1>5, <1>8, <2>4, <2>7, IsReturn DEF TInv
  <2> QED
    BY <2>4, <2>5, <2>8 DEF TInv, ListOk, Unique, NoDebt, Known, AtHead
<1> QED
  BY <1>15, <1>16

-----------------------------------------------------------------------------
LEMMA InitMaps == Init => TInv /\ C!Init
<1> SUFFICES ASSUME Init PROVE TInv /\ C!Init
  OBVIOUS
<1>1. timers = <<CoreTimer>> /\ ntimers = 1 /\ phase = "idle" /\ cur = NONE /\ last = FALSE
  BY DEF Init
<1>2. CoreId \in Ids /\ CoreDelay \in Nat /\ CoreDelay >= 1 /\ MaxTimers \in Nat /\ 1 <= MaxTimers
  BY BoundAssumption, DelayAssumption DEF Ids, CoreId
<1>3. /\ CoreTimer \in Timer /\ CoreTimer.id = CoreId /\ CoreTimer.delta = CoreDelay
      /\ CoreTimer.ticks_need = CoreDelay /\ CoreTimer.times = 0 /\ CoreTimer.cleared = FALSE
  BY <1>2 DEF CoreTimer, Timer
<1> HIDE DEF CoreTimer
<1>4. timers \in Seq(Timer) /\ Len(timers) = 1 /\ timers[1] = CoreTimer
  BY <1>1, <1>3
<1>5. TypeOK
  <2>1. ntimers \in 0 .. MaxTimers
    BY <1>1, <1>2
  <2>2. last \in BOOLEAN /\ cur \in Ids \cup {NONE} /\ phase \in {"idle", "tick", "call"}
    BY <1>1
  <2> QED
    BY <1>4, <2>1, <2>2 DEF TypeOK
<1>6. ASSUME NEW i \in 1 .. Len(timers) PROVE i = 1 /\ timers[i] = CoreTimer
  BY <1>4
<1>7. Unique(timers) /\ NoDebt(timers) /\ Known(timers, ntimers) /\ AtHead(timers, phase, cur, last)
  <2>1. Unique(timers)
    BY <1>6 DEF Unique
  <2>2. NoDebt(timers)
    BY <1>2, <1>3, <1>6 DEF NoDebt
  <2>3. Known(timers, ntimers)
    BY <1>1, <1>2, <1>3, <1>6 DEF Known, CoreId
  <2>4. AtHead(timers, phase, cur, last)
    BY <1>1, <1>2, <1>3, <1>4 DEF AtHead
  <2> QED
    BY <2>1, <2>2, <2>3, <2>4
<1>8. ASSUME NEW id \in Ids PROVE PendingOf(id) = StartOf(id)
  <2>1. PendingOf(id) = View(timers, cur, last, id)
    BY <1>5, PendingView
  <2>2. CASE id = CoreId
    <3>1. Until(timers)[0] = 0 /\ Until(timers)[1] = Until(timers)[1 - 1] + timers[1].delta
      BY <1>4, UntilIs
    <3>2. Until(timers)[1] = CoreDelay
      BY <1>2, <1>3, <1>4, <3>1
    <3>3. View(timers, cur, last, timers[1].id) = Seen(timers[1], Until(timers)[1], cur, last)
      BY <1>4, <1>7, ViewAt
    <3>4. cur # CoreId
      BY <1>1, <1>2, NoneAssumption
    <3>5. Seen(CoreTimer, CoreDelay, cur, last) = StartOf(CoreId)
      BY <1>3, <3>4 DEF Seen, StartOf
    <3> QED
      BY <1>3, <1>4, <2>1, <2>2, <3>2, <3>3, <3>5
  <2>3. CASE id # CoreId
    <3>1. ~InList(timers, id)
      BY <1>3, <1>6, <2>3 DEF InList
    <3> QED
      BY <2>1, <2>3, <3>1 DEF View, StartOf
  <2> QED
    BY <2>2, <2>3
<1>9. C!Init
  BY <1>1, <1>8 DEF C!Init
<1> QED
  BY <1>5, <1>7, <1>9 DEF TInv, ListOk

LEMMA StepMaps ==
  ASSUME 0 \notin Delays
  PROVE  TInv /\ [Next]_vars => TInv' /\ [C!Next]_(C!vars)
<1> SUFFICES ASSUME TInv, [Next]_vars PROVE TInv' /\ [C!Next]_(C!vars)
  OBVIOUS
<1>1. CASE StartTick
  BY <1>1, StartTickStep DEF C!Next
<1>2. CASE EndTick
  BY <1>2, EndTickStep
<1>3. CASE Call
  <2>1. timers[1].id \in Ids
    BY <1>3, AtDue DEF Call
  <2> QED
    BY <1>3, <2>1, CallStep DEF C!Next
<1>4. CASE Discard
  <2>1. timers[1].id \in Ids
    BY <1>4, AtDue DEF Discard
  <2> QED
    BY <1>4, <2>1, DiscardStep DEF C!Next
<1>5. CASE Return
  BY <1>5, ReturnStep DEF C!Next
<1>6. CASE \E ms \in Delays, n \in Times : add_periodical(ms, n)
  <2>1. PICK ms \in Delays, n \in Times : add_periodical(ms, n)
    BY <1>6
  <2>2. ntimers \in Ids
    BY <2>1, BoundAssumption DEF add_periodical, TInv, TypeOK, Ids
  <2> QED
    BY <2>1, <2>2, add_periodicalStep DEF C!Next
<1>7. CASE \E id \in Ids : clear_timeout(id)
  BY <1>7, clear_timeoutStep DEF C!Next
<1>8. CASE UNCHANGED vars
  <2>1. UNCHANGED <<timers, ntimers, phase, cur, last>>
    BY <1>8 DEF vars
  <2>2. UNCHANGED C!vars
    BY <2>1, IsStutter DEF TInv
  <2> QED
    BY <2>1, <2>2 DEF TInv, TypeOK, ListOk, Unique, NoDebt, Known, AtHead
<1> QED
  BY <1>1, <1>2, <1>3, <1>4, <1>5, <1>6, <1>7, <1>8 DEF Next

(* The delta list of ticks.c implements the contract of the timers: with   *)
(* delays of at least one millisecond, each timer is called in the tick it *)
(* was set for, as often as was asked and never once it has been cleared,  *)
(* whatever the functions that run in between set and clear.               *)
THEOREM ContractMet ==
  ASSUME 0 \notin Delays
  PROVE  Spec => MeetsContract
<1>1. Spec => []TInv /\ C!Init /\ [][C!Next]_(C!vars)
  BY InitMaps, StepMaps, PTL DEF Spec
<1> QED
  BY <1>1, PTL DEF MeetsContract, C!Spec

=============================================================================
