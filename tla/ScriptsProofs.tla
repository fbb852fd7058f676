--------------------------- MODULE ScriptsProofs ---------------------------
(***************************************************************************)
(* Proofs about Scripts, for every set of users, channels, pipes, names    *)
(* and keys, every spread of the keys over the buckets, every choice of    *)
(* what the scripts call and every number of calls inside an event.        *)
(***************************************************************************)
EXTENDS Scripts, SequenceTheorems, FiniteSetTheorems, WellFoundedInduction, TLAPS

(* A set of numbers that is not empty has a smallest one.                   *)
LEMMA Least ==
  ASSUME NEW T \in SUBSET Nat, T # {}
  PROVE  \E x \in T : \A y \in T : x <= y
<1> DEFINE R == OpToRel(<, Nat)
<1>1. IsWellFoundedOn(R, Nat)
  BY NatLessThanWellFounded
<1>2. ASSUME NEW x \in Nat, NEW y \in Nat, y < x PROVE <<y, x>> \in R
  BY <1>2 DEF OpToRel
<1> HIDE DEF R
<1>3. PICK x \in T : \A y \in T : ~(<<y, x>> \in R)
  BY <1>1, WFMin
<1>4. ASSUME NEW y \in T PROVE x <= y
  <2>1. x \in Nat /\ y \in Nat
    OBVIOUS
  <2>2. ~(y < x)
    BY <1>2, <1>3, <2>1
  <2> QED
    BY <2>1, <2>2
<1> QED
  BY <1>4

-----------------------------------------------------------------------------
(* Lists of properties.                                                    *)

PropKeys == Keys \cup {"jsobj", "cx"}
Vals == (1 .. MaxVals) \cup Objs \cup {NULL}
Cell == [key : PropKeys, type : EXTEND_TYPE, val : Vals, public : BOOLEAN]

CellsOf(l) == {l[i] : i \in 1 .. Len(l)}

(* A list has one cell for a key at most.                                   *)
OneEach(l) ==
  /\ l \in Seq(Cell)
  /\ \A i, j \in 1 .. Len(l) : i # j => l[i].key # l[j].key

(* RemoveAt() closes the gap.                                               *)
LEMMA RemoveAtIs ==
  ASSUME NEW S, NEW l \in Seq(S), NEW i \in 1 .. Len(l)
  PROVE  /\ RemoveAt(l, i) \in Seq(S)
         /\ Len(RemoveAt(l, i)) = Len(l) - 1
         /\ \A j \in 1 .. Len(l) - 1 :
              RemoveAt(l, i)[j] = IF j < i THEN l[j] ELSE l[j + 1]
<1> DEFINE a == SubSeq(l, 1, i - 1)
           b == SubSeq(l, i + 1, Len(l))
<1>1. Len(l) \in Nat /\ i \in Nat /\ 1 <= i /\ i <= Len(l)
  BY LenProperties
<1>2. a \in Seq(S) /\ Len(a) = i - 1 /\ \A j \in 1 .. i - 1 : a[j] = l[j]
  <2>1. \A j \in 1 .. i - 1 : l[j] \in S
    BY <1>1, ElementOfSeq
  <2> QED BY <1>1, <2>1, SubSeqProperties
<1>3. /\ b \in Seq(S) /\ Len(b) = Len(l) - i
      /\ \A j \in 1 .. Len(l) - i : b[j] = l[i + j]
  <2>1. \A j \in i + 1 .. Len(l) : l[j] \in S
    BY <1>1, ElementOfSeq
  <2> QED BY <1>1, <2>1, SubSeqProperties
<1>4. RemoveAt(l, i) = a \o b
  BY DEF RemoveAt
<1> HIDE DEF a, b
<1>5. a \o b \in Seq(S) /\ Len(a \o b) = Len(l) - 1
  <2>1. a \o b \in Seq(S) /\ Len(a \o b) = Len(a) + Len(b)
    BY <1>2, <1>3, ConcatProperties
  <2> QED BY <1>1, <1>2, <1>3, <2>1
<1>6. ASSUME NEW j \in 1 .. Len(l) - 1
      PROVE  (a \o b)[j] = IF j < i THEN l[j] ELSE l[j + 1]
  <2>1. (a \o b)[j] = IF j <= Len(a) THEN a[j] ELSE b[j - Len(a)]
    BY <1>1, <1>2, <1>3, ConcatProperties
  <2> QED BY <1>1, <1>2, <1>3, <2>1
<1> QED BY <1>4, <1>5, <1>6

(* What a walk for a key finds.                                             *)
LEMMA FoundIs ==
  ASSUME NEW l, OneEach(l), NEW key
  PROVE  Found(l, key) = {i \in 1 .. Len(l) : l[i].key = key}
<1> Len(l) \in Nat
  BY LenProperties DEF OneEach
<1> QED BY DEF Found, OneEach

(* del_property() takes the cell with the key out, and no other.            *)
LEMMA DelIs ==
  ASSUME NEW l, OneEach(l), NEW key
  PROVE  /\ OneEach(del_property(l, key))
         /\ CellsOf(del_property(l, key)) = {e \in CellsOf(l) : e.key # key}
<1>1. CASE Found(l, key) = {}
  <2>1. \A i \in 1 .. Len(l) : l[i].key # key
    BY <1>1, FoundIs
  <2> QED BY <1>1, <2>1 DEF del_property, CellsOf
<1>2. CASE Found(l, key) # {}
  <2> DEFINE p == CHOOSE i \in Found(l, key) : TRUE
             m == RemoveAt(l, p)
  <2>1. p \in 1 .. Len(l) /\ l[p].key = key
    BY <1>2, FoundIs
  <2>2. del_property(l, key) = m
    BY <1>2 DEF del_property
  <2>3. /\ m \in Seq(Cell) /\ Len(m) = Len(l) - 1 /\ Len(l) \in Nat
        /\ \A j \in 1 .. Len(l) - 1 : m[j] = IF j < p THEN l[j] ELSE l[j + 1]
    BY <2>1, RemoveAtIs, LenProperties DEF OneEach
  <2> HIDE DEF p, m
  <2> DEFINE at(j) == IF j < p THEN j ELSE j + 1
  <2>a. ASSUME NEW j \in 1 .. Len(m)
        PROVE  at(j) \in 1 .. Len(l) /\ at(j) # p /\ m[j] = l[at(j)]
    BY <2>1, <2>3
  <2>b. \A i, j \in 1 .. Len(l) : i # j => l[i].key # l[j].key
    BY DEF OneEach
  <2>4. OneEach(m)
    <3>1. ASSUME NEW i \in 1 .. Len(m), NEW j \in 1 .. Len(m), i # j PROVE m[i].key # m[j].key
      <4>1. at(i) # at(j)
        BY <2>1, <2>3, <3>1
      <4> HIDE DEF at
      <4> QED BY <2>a, <2>b, <4>1
    <3> QED BY <2>3, <3>1 DEF OneEach
  <2> HIDE DEF at
  <2>5. ASSUME NEW e \in CellsOf(m) PROVE e \in CellsOf(l) /\ e.key # key
    <3>1. PICK j \in 1 .. Len(m) : e = m[j]
      BY DEF CellsOf
    <3>2. at(j) \in 1 .. Len(l) /\ at(j) # p /\ e = l[at(j)]
      BY <2>a, <3>1
    <3> QED BY <2>1, <2>b, <3>2 DEF CellsOf
  <2>6. ASSUME NEW e \in CellsOf(l), e.key # key PROVE e \in CellsOf(m)
    <3>1. PICK i \in 1 .. Len(l) : e = l[i]
      BY <2>6 DEF CellsOf
    <3>2. i # p
      BY <2>1, <2>6, <3>1
    <3>3. CASE i < p
      BY <2>1, <2>3, <3>1, <3>3 DEF CellsOf
    <3>4. CASE i > p
      <4>1. i - 1 \in 1 .. Len(m) /\ m[i - 1] = l[i]
        BY <2>1, <2>3, <3>1, <3>4
      <4> QED BY <3>1, <4>1 DEF CellsOf
    <3> QED BY <2>1, <3>1, <3>2, <3>3, <3>4
  <2> QED BY <2>2, <2>4, <2>5, <2>6
<1> QED BY <1>1, <1>2

(* add_property() puts the new cell in the place of the one with its key.   *)
LEMMA AddIs ==
  ASSUME NEW l, OneEach(l), NEW key \in PropKeys \ LongKeys,
         NEW type \in EXTEND_TYPE, NEW val \in Vals, NEW public \in BOOLEAN
  PROVE  /\ OneEach(add_property(l, key, type, val, public))
         /\ CellsOf(add_property(l, key, type, val, public))
              = {Property(key, type, val, public)}
                  \cup {e \in CellsOf(l) : e.key # key}
<1> DEFINE new == Property(key, type, val, public)
           m   == del_property(l, key)
           w   == <<new>> \o m
<1>1. new \in Cell /\ new.key = key
  BY DEF Property, Cell
<1>2. OneEach(m) /\ CellsOf(m) = {e \in CellsOf(l) : e.key # key}
  BY DelIs
<1>3. add_property(l, key, type, val, public) = w
  BY DEF add_property
<1> HIDE DEF new, m
<1>4. m \in Seq(Cell) /\ Len(m) \in Nat
  BY <1>2, LenProperties DEF OneEach
<1>5. /\ w \in Seq(Cell) /\ Len(w) = Len(m) + 1 /\ w[1] = new
      /\ \A i \in 2 .. Len(m) + 1 : w[i] = m[i - 1]
  <2>1. <<new>> \in Seq(Cell) /\ Len(<<new>>) = 1 /\ <<new>>[1] = new
    BY <1>1
  <2>2. w \in Seq(Cell) /\ Len(w) = Len(<<new>>) + Len(m)
    BY <1>4, <2>1, ConcatProperties
  <2>3. \A i \in 1 .. Len(<<new>>) + Len(m) :
           w[i] = IF i <= Len(<<new>>) THEN <<new>>[i] ELSE m[i - Len(<<new>>)]
    BY <1>4, <2>1, ConcatProperties
  <2> QED BY <1>4, <2>1, <2>2, <2>3
<1> HIDE DEF w
<1>6. CellsOf(w) = {new} \cup CellsOf(m)
  <2>1. \A e \in CellsOf(w) : e \in {new} \cup CellsOf(m)
    BY <1>4, <1>5 DEF CellsOf
  <2>2. new \in CellsOf(w)
    BY <1>4, <1>5 DEF CellsOf
  <2>3. ASSUME NEW e \in CellsOf(m) PROVE e \in CellsOf(w)
    <3>1. PICK i \in 1 .. Len(m) : e = m[i]
      BY <2>3 DEF CellsOf
    <3>2. i + 1 \in 1 .. Len(w) /\ w[i + 1] = m[i]
      BY <1>4, <1>5, <3>1
    <3> QED BY <3>1, <3>2 DEF CellsOf
  <2> QED BY <2>1, <2>2, <2>3
<1>7. \A i \in 1 .. Len(m) : m[i].key # key
  BY <1>2 DEF CellsOf
<1>8. OneEach(w)
  <2>1. ASSUME NEW i \in 1 .. Len(w), NEW j \in 1 .. Len(w), i # j
        PROVE  w[i].key # w[j].key
    <3>1. CASE i = 1
      BY <1>1, <1>4, <1>5, <1>7, <2>1, <3>1
    <3>2. CASE j = 1
      <4>1. i - 1 \in 1 .. Len(m) /\ w[i] = m[i - 1]
        BY <1>4, <1>5, <2>1, <3>2
      <4> QED BY <1>1, <1>5, <1>7, <3>2, <4>1
    <3>3. CASE i # 1 /\ j # 1
      <4>1. /\ i - 1 \in 1 .. Len(m) /\ w[i] = m[i - 1]
            /\ j - 1 \in 1 .. Len(m) /\ w[j] = m[j - 1] /\ i - 1 # j - 1
        BY <1>4, <1>5, <2>1, <3>3
      <4> QED BY <1>2, <4>1 DEF OneEach
    <3> QED BY <3>1, <3>2, <3>3
  <2> QED BY <1>5, <2>1 DEF OneEach
<1> QED BY <1>2, <1>3, <1>6, <1>8 DEF new

(* What is owned, found and shown, in terms of the cells.                   *)
Own(e) == e.type # EXTEND_POINTER

LEMMA OwnedIs ==
  ASSUME NEW l
  PROVE  Owned(l) = {e.val : e \in {c \in CellsOf(l) : Own(c)}}
BY DEF Owned, OwnedAt, CellsOf, Own

LEMMA AtKey ==
  ASSUME NEW l, OneEach(l), NEW key
  PROVE  /\ get_property(l, key) = {e \in CellsOf(l) : e.key = key}
         /\ Dropped(l, key) = {e.val : e \in {c \in CellsOf(l) : c.key = key /\ Own(c)}}
         /\ Value(l, key) = Dropped(l, key)
         /\ \A e, f \in CellsOf(l) : e.key = f.key => e = f
<1>1. Found(l, key) = {i \in 1 .. Len(l) : l[i].key = key}
  BY FoundIs
<1>2. get_property(l, key) = {e \in CellsOf(l) : e.key = key}
  BY <1>1 DEF get_property, CellsOf
<1>3. Dropped(l, key) = {e.val : e \in {c \in CellsOf(l) : c.key = key /\ Own(c)}}
  BY <1>1 DEF Dropped, OwnedAt, CellsOf, Own
<1>4. \A e, f \in CellsOf(l) : e.key = f.key => e = f
  BY DEF CellsOf, OneEach
<1> QED BY <1>2, <1>3, <1>4 DEF Value, Dropped

-----------------------------------------------------------------------------
(* Who owns what.                                                          *)

(* A cell is shown exactly when it owns its value, which is then alive; no *)
(* value belongs to two cells, of one list or of two.                       *)
CellOk(e, hp) ==
  /\ e.public <=> Own(e)
  /\ Own(e) => e.val \in 1 .. MaxVals /\ hp[e.val] = "live"
Apart(l, m) ==
  \A e \in CellsOf(l), f \in CellsOf(m) : Own(e) /\ Own(f) => e.val # f.val
ListOk(l, hp) ==
  /\ OneEach(l)
  /\ \A e \in CellsOf(l) : CellOk(e, hp)
  /\ \A e, f \in CellsOf(l) : Own(e) /\ Own(f) /\ e.val = f.val => e = f
PropsOk(pr, hp) ==
  /\ hp \in [1 .. MaxVals -> {"fresh", "live", "freed"}]
  /\ pr = [t \in Things |-> pr[t]]
  /\ \A t \in Things : ListOk(pr[t], hp)
  /\ \A t, v \in Things : t # v => Apart(pr[t], pr[v])

LEMMA EmptyList ==
  ASSUME NEW hp
  PROVE  /\ CellsOf(<< >>) = {} /\ ListOk(<< >>, hp)
         /\ \A l : Apart(<< >>, l) /\ Apart(l, << >>)
<1>1. << >> \in Seq(Cell) /\ Len(<< >>) = 0
  BY EmptySeq
<1>2. CellsOf(<< >>) = {}
  BY <1>1 DEF CellsOf
<1> QED BY <1>1, <1>2 DEF ListOk, OneEach, Apart

(* A private pointer is attached, as when an object or a context is noted. *)
LEMMA PointerAdded ==
  ASSUME NEW pr, NEW hp, PropsOk(pr, hp), NEW t \in Things,
         NEW key \in {"jsobj", "cx"}, NEW val \in Vals
  PROVE  PropsOk([pr EXCEPT ![t] =
                     add_property(@, key, EXTEND_POINTER, val, FALSE)], hp)
<1> DEFINE new == Property(key, EXTEND_POINTER, val, FALSE)
           l   == add_property(pr[t], key, EXTEND_POINTER, val, FALSE)
           qr  == [pr EXCEPT ![t] = l]
<1>1. OneEach(l) /\ CellsOf(l) = {new} \cup {e \in CellsOf(pr[t]) : e.key # key}
  <2>1. OneEach(pr[t])
    BY DEF PropsOk, ListOk
  <2>2. key \in PropKeys \ LongKeys /\ EXTEND_POINTER \in EXTEND_TYPE
    BY LongAssumption DEF PropKeys, EXTEND_TYPE
  <2>3. ASSUME NEW public \in BOOLEAN
        PROVE  /\ OneEach(add_property(pr[t], key, EXTEND_POINTER, val, public))
               /\ CellsOf(add_property(pr[t], key, EXTEND_POINTER, val, public))
                    = {Property(key, EXTEND_POINTER, val, public)}
                        \cup {e \in CellsOf(pr[t]) : e.key # key}
    BY <2>1, <2>2, AddIs
  <2> QED BY <2>3
<1>2. ~Own(new) /\ CellOk(new, hp)
  BY DEF Property, Own, CellOk
<1>3. \A e \in CellsOf(l) : Own(e) => e \in CellsOf(pr[t])
  BY <1>1, <1>2
<1> HIDE DEF new, l
<1>4. ListOk(l, hp)
  BY <1>1, <1>2, <1>3 DEF ListOk, PropsOk
<1>5. qr = [v \in Things |-> IF v = t THEN l ELSE pr[v]]
  BY DEF PropsOk
<1>6. \A u, v \in Things : u # v => Apart(qr[u], qr[v])
  BY <1>3, <1>5 DEF PropsOk, Apart
<1> HIDE DEF qr
<1>7. PropsOk(qr, hp)
  BY <1>4, <1>5, <1>6 DEF PropsOk
<1> QED BY <1>7 DEF qr, l

(* A list is given up with everything in it.                                *)
LEMMA ListGivenUp ==
  ASSUME NEW pr, NEW hp, PropsOk(pr, hp), NEW t \in Things
  PROVE  PropsOk([pr EXCEPT ![t] = << >>], hp)
<1> DEFINE qr == [pr EXCEPT ![t] = << >>]
<1>1. qr = [v \in Things |-> IF v = t THEN << >> ELSE pr[v]]
  BY DEF PropsOk
<1>2. \A v \in Things : ListOk(qr[v], hp)
  BY <1>1, EmptyList DEF PropsOk
<1>3. \A u, v \in Things : u # v => Apart(qr[u], qr[v])
  BY <1>1, EmptyList DEF PropsOk
<1> HIDE DEF qr
<1>4. PropsOk(qr, hp)
  BY <1>1, <1>2, <1>3 DEF PropsOk
<1> QED BY <1>4 DEF qr

(* A list is cleared: its values are freed, once each.                      *)
LEMMA ListCleared ==
  ASSUME PropsOk(props, heap), NEW t \in Things
  PROVE  PropsOk([props EXCEPT ![t] = << >>], Free(clear_properties(props[t])))
<1> DEFINE qr == [props EXCEPT ![t] = << >>]
           hp == Free(clear_properties(props[t]))
           C  == {e \in CellsOf(props[t]) : Own(e)}
<1>1. clear_properties(props[t]) = {e.val : e \in C}
  BY OwnedIs DEF clear_properties
<1>2. \A e \in C : e.val \in 1 .. MaxVals /\ heap[e.val] = "live"
  BY DEF PropsOk, ListOk, CellOk
<1>3. hp = [n \in 1 .. MaxVals |->
              IF n \in {e.val : e \in C} THEN "freed" ELSE heap[n]]
  <2> DEFINE V == {e.val : e \in C}
  <2>1. hp = [n \in 1 .. MaxVals |-> IF n \notin V THEN heap[n]
                                     ELSE IF heap[n] = "live" THEN "freed"
                                     ELSE "freed twice"]
    BY <1>1 DEF Free
  <2>2. \A n \in V : heap[n] = "live"
    BY <1>2
  <2> HIDE DEF hp, V
  <2>3. hp = [n \in 1 .. MaxVals |-> IF n \in V THEN "freed" ELSE heap[n]]
    BY <2>1, <2>2
  <2> QED BY <2>3 DEF V
<1>4. hp \in [1 .. MaxVals -> {"fresh", "live", "freed"}]
  BY <1>3 DEF PropsOk
<1>5. PropsOk(qr, heap)
  BY ListGivenUp
<1>6. qr = [v \in Things |-> IF v = t THEN << >> ELSE props[v]]
  BY DEF PropsOk
<1>7. ASSUME NEW v \in Things PROVE ListOk(qr[v], hp)
  <2>1. CASE v = t
    BY <1>6, <2>1, EmptyList
  <2>2. CASE v # t
    <3>1. qr[v] = props[v] /\ Apart(props[v], props[t]) /\ ListOk(props[v], heap)
      BY <1>6, <2>2 DEF PropsOk
    <3>2. ASSUME NEW e \in CellsOf(props[v]) PROVE CellOk(e, hp)
      <4>1. Own(e) => e.val \notin {f.val : f \in C}
        BY <3>1 DEF Apart
      <4> QED BY <1>3, <3>1, <4>1 DEF ListOk, CellOk
    <3> QED BY <3>1, <3>2 DEF ListOk
  <2> QED BY <2>1, <2>2
<1> HIDE DEF qr, hp
<1>8. PropsOk(qr, hp)
  BY <1>4, <1>5, <1>7 DEF PropsOk
<1> QED BY <1>8 DEF qr, hp

LEMMA NewValIs ==
  ASSUME heap \in [1 .. MaxVals -> {"fresh", "live", "freed"}],
         \E n \in 1 .. MaxVals : heap[n] = "fresh"
  PROVE  NewVal \in 1 .. MaxVals /\ heap[NewVal] = "fresh"
<1> DEFINE T == {n \in 1 .. MaxVals : heap[n] = "fresh"}
<1>1. T \in SUBSET Nat /\ T # {}
  BY BoundsAssumption
<1> HIDE DEF T
<1>2. PICK x \in T : \A y \in T : x <= y
  BY <1>1, Least
<1>3. x \in 1 .. MaxVals /\ heap[x] = "fresh"
  BY <1>2 DEF T
<1>4. ASSUME NEW i \in 1 .. x - 1 PROVE heap[i] # "fresh"
  <2>1. i \in 1 .. MaxVals /\ ~(x <= i)
    BY <1>3, BoundsAssumption
  <2> QED BY <1>2, <2>1 DEF T
<1>5. \E n \in 1 .. MaxVals : /\ heap[n] = "fresh"
                              /\ \A i \in 1 .. n - 1 : heap[i] # "fresh"
  BY <1>3, <1>4
<1> QED BY <1>5 DEF NewVal

(* setProperty(): the new value is one nobody had, the old one is freed.    *)
LEMMA ValueSet ==
  ASSUME PropsOk(props, heap), NEW t \in Things, NEW key \in Keys,
         NEW type \in {EXTEND_STR, EXTEND_JSON}, SetProperty(t, key, type)
  PROVE  PropsOk(props', heap')
<1> DEFINE l   == add_property(props[t], key, type, NewVal, TRUE)
           qr  == [props EXCEPT ![t] = l]
           old == IF key \in LongKeys THEN {} ELSE Dropped(props[t], key)
           new == IF key \in LongKeys /\ type = EXTEND_STR THEN {} ELSE {NewVal}
           hp  == [n \in 1 .. MaxVals |->
                     IF n \in new THEN "live" ELSE Free(old)[n]]
<1>1. NewVal \in 1 .. MaxVals /\ heap[NewVal] = "fresh"
  BY NewValIs DEF SetProperty, PropsOk
<1>2. props' = qr /\ heap' = hp
  BY DEF SetProperty
<1>3. OneEach(props[t])
  BY DEF PropsOk, ListOk
<1>4. old \subseteq {e.val : e \in {c \in CellsOf(props[t]) : c.key = key /\ Own(c)}}
  BY <1>3, AtKey
<1>5. \A n \in old : n \in 1 .. MaxVals /\ heap[n] = "live"
  BY <1>4 DEF PropsOk, ListOk, CellOk
<1>6. new \subseteq {NewVal}
  OBVIOUS
<1>7. Free(old) = [n \in 1 .. MaxVals |-> IF n \in old THEN "freed" ELSE heap[n]]
  <2>1. Free(old) = [n \in 1 .. MaxVals |-> IF n \notin old THEN heap[n]
                                            ELSE IF heap[n] = "live" THEN "freed"
                                            ELSE "freed twice"]
    BY Zenon DEF Free
  <2> HIDE DEF old
  <2> QED BY <1>5, <2>1
<1>8. hp = [n \in 1 .. MaxVals |-> IF n \in new THEN "live"
                                   ELSE IF n \in old THEN "freed" ELSE heap[n]]
  BY <1>7
<1>9. hp \in [1 .. MaxVals -> {"fresh", "live", "freed"}]
  BY <1>8 DEF PropsOk
(* What another list owns is untouched.                                     *)
<1>10. ASSUME NEW v \in Things, v # t, NEW e \in CellsOf(props[v]), Own(e)
       PROVE  e.val \in 1 .. MaxVals /\ hp[e.val] = "live" /\ e.val # NewVal
  <2>1. e.val \in 1 .. MaxVals /\ heap[e.val] = "live"
    BY <1>10 DEF PropsOk, ListOk, CellOk
  <2>2. e.val \notin old
    BY <1>4, <1>10 DEF PropsOk, Apart
  <2> HIDE DEF hp, old, new
  <2> QED BY <1>1, <1>6, <1>8, <2>1, <2>2
<1>11. qr = [v \in Things |-> IF v = t THEN l ELSE props[v]]
  BY DEF PropsOk
<1>12. CASE key \in LongKeys
  <2>1. l = props[t]
    BY <1>12 DEF add_property
  <2>2. old = {}
    BY <1>12
  <2>3. ASSUME NEW e \in CellsOf(props[t]), Own(e)
        PROVE  e.val \in 1 .. MaxVals /\ hp[e.val] = "live"
    <3>1. e.val \in 1 .. MaxVals /\ heap[e.val] = "live"
      BY <2>3 DEF PropsOk, ListOk, CellOk
    <3> HIDE DEF hp, old, new
    <3> QED BY <1>1, <1>6, <1>8, <2>2, <3>1
  <2>4. qr = props
    BY <1>11, <2>1 DEF PropsOk
  <2> HIDE DEF hp, qr, l, old, new
  <2>5. ASSUME NEW v \in Things PROVE ListOk(props[v], hp)
    <3>1. ListOk(props[v], heap)
      BY DEF PropsOk
    <3>2. ASSUME NEW e \in CellsOf(props[v]) PROVE CellOk(e, hp)
      BY <1>10, <2>3, <3>1 DEF ListOk, CellOk
    <3> QED BY <3>1, <3>2 DEF ListOk
  <2> QED BY <1>2, <1>9, <2>4, <2>5 DEF PropsOk
<1>13. CASE key \notin LongKeys
  <2> DEFINE w == Property(key, type, NewVal, TRUE)
             K == {e \in CellsOf(props[t]) : e.key # key}
  <2>1. OneEach(l) /\ CellsOf(l) = {w} \cup K
    <3>1. /\ key \in PropKeys \ LongKeys /\ type \in EXTEND_TYPE
          /\ NewVal \in Vals
      BY <1>1, <1>13 DEF PropKeys, EXTEND_TYPE, Vals
    <3>2. ASSUME NEW public \in BOOLEAN
          PROVE  /\ OneEach(add_property(props[t], key, type, NewVal, public))
                 /\ CellsOf(add_property(props[t], key, type, NewVal, public))
                      = {Property(key, type, NewVal, public)} \cup K
      BY <1>3, <3>1, AddIs
    <3> QED BY <3>2
  <2>2. Own(w) /\ w.val = NewVal /\ w.public = TRUE
    BY DEF Own, Property, EXTEND_POINTER, EXTEND_STR, EXTEND_JSON
  <2>3. new = {NewVal} /\ old = Dropped(props[t], key)
    <3>1. new = {NewVal}
      BY <1>13
    <3>2. old = Dropped(props[t], key)
      BY <1>13
    <3> QED BY <3>1, <3>2
  <2>4. old = {e.val : e \in {c \in CellsOf(props[t]) : c.key = key /\ Own(c)}}
    BY <1>3, <2>3, AtKey
  <2>5. CellOk(w, hp)
    <3> HIDE DEF hp, old, new, w
    <3> QED BY <1>1, <1>8, <2>2, <2>3 DEF CellOk
  <2>6. ASSUME NEW e \in K, Own(e)
        PROVE  e.val \in 1 .. MaxVals /\ hp[e.val] = "live" /\ e.val # NewVal
    <3>1. e.val \in 1 .. MaxVals /\ heap[e.val] = "live"
      BY <2>6 DEF PropsOk, ListOk, CellOk
    <3>2. e.val \notin old
      BY <2>4, <2>6 DEF PropsOk, ListOk
    <3> HIDE DEF hp, old, new
    <3> QED BY <1>1, <1>8, <2>3, <3>1, <3>2
  <2>7. \A e \in K : CellOk(e, hp)
    BY <2>6 DEF PropsOk, ListOk, CellOk
  <2>8. \A e, f \in K : Own(e) /\ Own(f) /\ e.val = f.val => e = f
    BY DEF PropsOk, ListOk
  <2> HIDE DEF hp, qr, l, old, new, w
  <2>9. ListOk(l, hp)
    <3>1. \A e \in CellsOf(l) : CellOk(e, hp)
      BY <2>1, <2>5, <2>7
    <3>2. \A e, f \in CellsOf(l) : Own(e) /\ Own(f) /\ e.val = f.val => e = f
      BY <2>1, <2>2, <2>6, <2>8
    <3> QED BY <2>1, <3>1, <3>2 DEF ListOk
  <2>10. ASSUME NEW v \in Things, v # t
         PROVE  ListOk(props[v], hp) /\ Apart(l, props[v]) /\ Apart(props[v], l)
    <3>1. ListOk(props[v], heap) /\ Apart(props[t], props[v]) /\ Apart(props[v], props[t])
      BY <2>10 DEF PropsOk
    <3>2. ASSUME NEW e \in CellsOf(props[v]) PROVE CellOk(e, hp)
      BY <1>10, <2>10, <3>1 DEF ListOk, CellOk
    <3>3. Apart(l, props[v]) /\ Apart(props[v], l)
      BY <1>10, <2>1, <2>2, <2>10, <3>1 DEF Apart
    <3> QED BY <3>1, <3>2, <3>3 DEF ListOk
  <2>11. \A v \in Things : ListOk(qr[v], hp)
    BY <1>11, <2>9, <2>10
  <2>12. \A u, v \in Things : u # v => Apart(qr[u], qr[v])
    BY <1>11, <2>10 DEF PropsOk
  <2>13. qr = [v \in Things |-> qr[v]]
    BY <1>11
  <2> QED BY <1>2, <1>9, <2>11, <2>12, <2>13 DEF PropsOk
<1> QED BY <1>12, <1>13

-----------------------------------------------------------------------------
(* The C stack.                                                            *)

Finished == {"over", "done"}

(* What is to be done, by kind of task.                                     *)
Task ==
  {t \in [op : Ops \cup {"on", "over"}, e : Events \cup Kinds \cup {NULL},
          a : Things \cup {NULL}, b : Things \cup {NULL}] :
     /\ t.op \in {"join", "join_now", "left", "left_now"} =>
          t.a \in Users /\ t.b \in Chans
     /\ t.op \in {"rmchan", "rmchan_fire", "rmchan_detach"} =>
          t.a \in Chans /\ t.b = NULL
     /\ t.op \in {"deluser", "deluser_fire", "deluser_detach", "adduser"} =>
          t.a \in Users /\ t.b = NULL
     /\ t.op = "done" => t.a \in Users \cup Chans /\ t.b = NULL
     /\ t.op = "on" => t.e \in Events
     /\ t.op = "over" => t.e \in Kinds}

(* s is stack without its first k entries.                                  *)
Rest(s, stack, k) ==
  /\ k \in 0 .. Len(stack)
  /\ Len(s) = Len(stack) - k
  /\ \A i \in 1 .. Len(s) : s[i] = stack[i + k]

(* Only what has nothing left to do goes when the stack settles.            *)
LEMMA SettledIs ==
  ASSUME NEW stack \in Seq(Task)
  PROVE  /\ Settled(stack) \in Seq(Task)
         /\ \E k \in 0 .. Len(stack) :
              /\ Rest(Settled(stack), stack, k)
              /\ \A i \in 1 .. k : stack[i].op \in Finished
              /\ Ended(stack) = {stack[i].e : i \in {j \in 1 .. k : stack[j].op = "over"}}
         /\ Settled(stack) # << >> => Settled(stack)[1].op \notin Finished
<1> DEFINE I == {i \in 1 .. Len(stack) : stack[i].op \notin {"over", "done"}}
<1>0. Len(stack) \in Nat
  BY LenProperties
<1>1. Ends(stack) = IF I # {} THEN Min(I) ELSE 0
  BY DEF Ends, SelectInSeq
<1>2. CASE I = {}
  <2>1. Settled(stack) = << >>
    BY <1>1, <1>2 DEF Settled
  <2>2. Len(<< >>) = 0 /\ << >> \in Seq(Task)
    OBVIOUS
  <2>3. Rest(Settled(stack), stack, Len(stack))
    BY <1>0, <2>1, <2>2 DEF Rest
  <2>4. Ended(stack) = {stack[i].e : i \in {j \in 1 .. Len(stack) : stack[j].op = "over"}}
    BY <1>0, <2>1, <2>2 DEF Ended
  <2>5. \A i \in 1 .. Len(stack) : stack[i].op \in Finished
    BY <1>2 DEF Finished
  <2> QED BY <1>0, <2>1, <2>2, <2>3, <2>4, <2>5
<1>3. CASE I # {}
  <2> DEFINE m == Min(I)
             s == SubSeq(stack, m, Len(stack))
  <2>1. m \in I /\ \A y \in I : m <= y
    <3>1. I \in SUBSET Nat
      BY <1>0
    <3> HIDE DEF I
    <3>2. \E x \in I : \A y \in I : x <= y
      BY <1>3, <3>1, Least
    <3> QED BY <3>2 DEF Min
  <2>2. m \in 1 .. Len(stack)
    BY <2>1
  <2>3. Settled(stack) = s
    <3>1. Ends(stack) = m
      BY <1>1, <1>3
    <3> HIDE DEF m
    <3> QED BY <1>0, <2>2, <3>1 DEF Settled
  <2> HIDE DEF m
  <2>4. s \in Seq(Task) /\ Len(s) = Len(stack) - (m - 1)
    <3>1. \A i \in m .. Len(stack) : stack[i] \in Task
      BY <1>0, <2>2, ElementOfSeq
    <3> QED BY <1>0, <2>2, <3>1, SubSeqProperties
  <2>5. \A i \in 1 .. Len(s) : s[i] = stack[i + (m - 1)]
    <3>1. \A i \in 1 .. Len(stack) - m + 1 : s[i] = stack[m + i - 1]
      BY <1>0, <2>2, SubSeqProperties
    <3> QED BY <1>0, <2>2, <2>4, <3>1
  <2> HIDE DEF s
  <2>6. m - 1 \in 0 .. Len(stack) /\ Rest(s, stack, m - 1)
    BY <1>0, <2>2, <2>4, <2>5 DEF Rest
  <2>7. \A i \in 1 .. m - 1 : stack[i].op \in Finished
    <3> TAKE i \in 1 .. m - 1
    <3>1. i \in 1 .. Len(stack) /\ ~(m <= i)
      BY <1>0, <2>2
    <3> QED BY <2>1, <3>1 DEF Finished
  <2>8. Len(stack) - Len(s) = m - 1
    BY <1>0, <2>2, <2>4
  <2>9. Ended(stack) = {stack[i].e : i \in {j \in 1 .. m - 1 : stack[j].op = "over"}}
    BY <2>3, <2>8 DEF Ended
  <2>10. s[1].op \notin Finished
    <3>1. s[1] = stack[m]
      BY <1>0, <2>2, <2>4, <2>5
    <3> QED BY <2>1, <3>1 DEF Finished
  <2> QED BY <2>3, <2>4, <2>6, <2>7, <2>9, <2>10
<1> QED BY <1>2, <1>3

(* New work on top of a stack.                                              *)
LEMMA OnTop ==
  ASSUME NEW new \in Seq(Task), NEW r \in Seq(Task)
  PROVE  /\ new \o r \in Seq(Task)
         /\ Len(new) \in Nat /\ Len(r) \in Nat
         /\ Len(new \o r) = Len(new) + Len(r)
         /\ \A i \in 1 .. Len(new) : (new \o r)[i] = new[i]
         /\ \A i \in 1 .. Len(r) : (new \o r)[Len(new) + i] = r[i]
<1>1. new \o r \in Seq(Task) /\ Len(new \o r) = Len(new) + Len(r)
  BY ConcatProperties
<1>2. Len(new) \in Nat /\ Len(r) \in Nat
  BY LenProperties
<1>3. \A i \in 1 .. Len(new) + Len(r) :
        (new \o r)[i] = IF i <= Len(new) THEN new[i] ELSE r[i - Len(new)]
  BY ConcatProperties
<1>4. \A i \in 1 .. Len(new) : (new \o r)[i] = new[i]
  BY <1>2, <1>3
<1>5. ASSUME NEW i \in 1 .. Len(r) PROVE (new \o r)[Len(new) + i] = r[i]
  <2>1. /\ Len(new) + i \in 1 .. Len(new) + Len(r) /\ ~(Len(new) + i <= Len(new))
        /\ (Len(new) + i) - Len(new) = i
    BY <1>2
  <2> QED BY <1>3, <2>1
<1> QED BY <1>1, <1>2, <1>4, <1>5

-----------------------------------------------------------------------------
(* What makes the stack safe.  Entry i of a stack is done before entry j   *)
(* when i < j; o is the memberships, au the channels with AUTODESTROY.      *)

(* What a task that waits will still use, and what a task may free.         *)
Pins(t) == IF t.op \in {"on", "over"} THEN {} ELSE {t.a, t.b}

Kills(t, x, o, au) ==
  \/ t.op \in {"rmchan", "rmchan_fire"} /\ x = t.a
  \/ t.op \in {"left", "left_now"} /\ x = t.b /\ x \in au
  \/ t.op \in {"deluser", "deluser_fire"} /\ (x = t.a \/ <<t.a, x>> \in o)

IsOver(t, k) == t.op = "over" /\ t.e = k
Joins(t)   == t.op \in {"join", "join_now"}
Leaves(t)  == t.op \in {"left", "left_now"}
Deletes(t) == t.op \in {"deluser", "deluser_fire"}
Removes(t) == t.op \in {"rmchan", "rmchan_fire"}

(* x comes before y: it frees nothing y needs, no event is delivered twice *)
(* at a time, nobody is deleted and no channel removed for its last member *)
(* while a removal is reported, nobody comes back to a channel he is about *)
(* to be taken off, and nobody is accepted who is being deleted.            *)
Pair(x, y, o, au) ==
  /\ \A z \in Things : Kills(x, z, o, au) => z \notin Pins(y)
  /\ x.op = "over" /\ y.op = "over" => x.e # y.e
  /\ IsOver(y, "rmchan") => ~Deletes(x) /\ (Leaves(x) => x.b \notin au)
  /\ Joins(x) /\ y.op = "left_now" => x.a # y.a \/ x.b # y.b
  /\ x.op = "adduser" /\ Deletes(y) => x.a # y.a

(* x comes before y and y before z: who is being deleted joins no channel  *)
(* that is needed afterwards; nobody joins a channel in the second run of  *)
(* rmchan(), or anything in the second run of deluser().                    *)
Triple(x, y, z) ==
  Joins(x) =>
    /\ Deletes(y) /\ x.a = y.a => x.b \notin Pins(z)
    /\ ~(y.op = "rmchan_fire" /\ x.b = y.a /\ IsOver(z, "rmchan"))
    /\ ~(y.op = "deluser_fire" /\ x.a = y.a /\ IsOver(z, "deluser"))

Pairs(s, o, au) ==
  \A i, j \in 1 .. Len(s) : i < j => Pair(s[i], s[j], o, au)
Triples(s) ==
  \A i, j, k \in 1 .. Len(s) : i < j /\ j < k => Triple(s[i], s[j], s[k])

(* Entry j is under way while the event k is delivered.                     *)
Inside(s, j, k) == \E p \in 1 .. Len(s) : j < p /\ IsOver(s[p], k)
Leaving(s, j, u, c) ==
  \E i \in 1 .. Len(s) : i < j /\ Leaves(s[i]) /\ s[i].a = u /\ s[i].b = c
Ahead(s, j, op, t) ==
  \E i \in 1 .. Len(s) : i < j /\ s[i].op = op /\ s[i].a = t

(* The second runs of rmchan() and deluser() end with nobody on the        *)
(* channel, and with the user on none.                                      *)
Emptied(s, o) ==
  \A j \in 1 .. Len(s) :
    /\ s[j].op = "rmchan_fire" /\ Inside(s, j, "rmchan") =>
         \A u \in Users : <<u, s[j].a>> \in o => Leaving(s, j, u, s[j].a)
    /\ s[j].op = "deluser_fire" /\ Inside(s, j, "deluser") =>
         \A c \in Chans : <<s[j].a, c>> \in o => Leaving(s, j, s[j].a, c)

(* In the second run no object leads to what is about to be freed.          *)
Loose(t, pr, ro) == pr[Obj(t)] = NULL /\ pr[Pipe(t)] = NULL /\ t \notin ro
Unbound(s, pr, ro) ==
  \A j \in 1 .. Len(s) :
    /\ Removes(s[j]) /\ Inside(s, j, "rmchan") =>
         Loose(s[j].a, pr, ro) \/ Ahead(s, j, "rmchan_detach", s[j].a)
    /\ Deletes(s[j]) /\ Inside(s, j, "deluser") =>
         Loose(s[j].a, pr, ro) \/ Ahead(s, j, "deluser_detach", s[j].a)

(* The events being delivered are those that will end.                      *)
Firing(s, f) ==
  /\ \A i \in 1 .. Len(s) : s[i].op = "over" => s[i].e \in f
  /\ \A k \in f : \E i \in 1 .. Len(s) : IsOver(s[i], k)
Hooked(s) ==
  \A i \in 1 .. Len(s) : s[i].op = "on" /\ s[i].e = "connect" =>
    i < Len(s) /\ s[i + 1].op = "adduser"
PinsLive(s, st) ==
  \A i \in 1 .. Len(s) : \A x \in Things : x \in Pins(s[i]) => st[x] = "live"

StackOk(s, f, st, o, au, pr, ro) ==
  /\ s \in Seq(Task)
  /\ Hooked(s)
  /\ Firing(s, f)
  /\ PinsLive(s, st)
  /\ Pairs(s, o, au)
  /\ Triples(s)
  /\ Emptied(s, o)
  /\ Unbound(s, pr, ro)

(* All of this survives when the stack settles.                             *)
LEMMA Settles ==
  ASSUME NEW stack, NEW f, NEW st, NEW o, NEW au, NEW pr, NEW ro,
         StackOk(stack, f, st, o, au, pr, ro)
  PROVE  StackOk(Settled(stack), f \ Ended(stack), st, o, au, pr, ro)
<1> DEFINE s == Settled(stack)
<1>1. stack \in Seq(Task) /\ Len(stack) \in Nat
  BY LenProperties DEF StackOk
<1>2. s \in Seq(Task) /\ Len(s) \in Nat
  BY <1>1, SettledIs, LenProperties
<1>3. PICK k \in 0 .. Len(stack) :
        /\ Rest(s, stack, k)
        /\ \A i \in 1 .. k : stack[i].op \in Finished
        /\ Ended(stack) = {stack[i].e : i \in {j \in 1 .. k : stack[j].op = "over"}}
  BY <1>1, SettledIs
<1> HIDE DEF s
<1>4. /\ Len(s) = Len(stack) - k
      /\ \A i \in 1 .. Len(s) : s[i] = stack[i + k] /\ i + k \in 1 .. Len(stack)
  BY <1>1, <1>2, <1>3 DEF Rest
<1>5. ASSUME NEW i \in 1 .. Len(stack), stack[i].op \notin Finished
      PROVE  i - k \in 1 .. Len(s) /\ s[i - k] = stack[i]
  <2>1. ~(i <= k)
    BY <1>1, <1>3, <1>5
  <2> QED BY <1>1, <1>4, <2>1
<1>6. Pairs(s, o, au)
  BY <1>1, <1>4 DEF StackOk, Pairs
<1>7. Triples(s)
  <2> SUFFICES ASSUME NEW x \in 1 .. Len(s), NEW y \in 1 .. Len(s), NEW z \in 1 .. Len(s), x < y, y < z
               PROVE  Triple(s[x], s[y], s[z])
    BY DEF Triples
  <2>1. x + k < y + k /\ y + k < z + k
    BY <1>1, <1>4
  <2>2. Triples(stack)
    BY DEF StackOk
  <2>3. Triple(stack[x + k], stack[y + k], stack[z + k])
    BY <1>4, <2>1, <2>2 DEF Triples
  <2> QED BY <1>4, <2>3
<1>8. PinsLive(s, st)
  BY <1>1, <1>4 DEF StackOk, PinsLive
<1>9. Hooked(s)
  <2> SUFFICES ASSUME NEW i \in 1 .. Len(s), s[i].op = "on", s[i].e = "connect"
               PROVE  i < Len(s) /\ s[i + 1].op = "adduser"
    BY DEF Hooked
  <2>1. i + k < Len(stack) /\ stack[(i + k) + 1].op = "adduser"
    BY <1>4 DEF StackOk, Hooked
  <2>2. i < Len(s) /\ s[i + 1] = stack[(i + 1) + k] /\ (i + 1) + k = (i + k) + 1
    BY <1>1, <1>2, <1>4, <2>1
  <2> QED BY <2>1, <2>2
<1>10. Firing(s, f \ Ended(stack))
  <2>1. ASSUME NEW i \in 1 .. Len(s), s[i].op = "over"
        PROVE  s[i].e \in f \ Ended(stack)
    <3>1. s[i].e \in f
      BY <1>4, <2>1 DEF StackOk, Firing
    <3>2. ASSUME NEW j \in 1 .. k, stack[j].op = "over" PROVE stack[j].e # s[i].e
      <4>1. j \in 1 .. Len(stack) /\ j < i + k
        BY <1>1, <1>2, <1>4
      <4> QED BY <1>4, <2>1, <3>2, <4>1 DEF StackOk, Pairs, Pair
    <3> QED BY <1>3, <3>1, <3>2
  <2>2. ASSUME NEW e \in f \ Ended(stack)
        PROVE  \E i \in 1 .. Len(s) : IsOver(s[i], e)
    <3>1. PICK i \in 1 .. Len(stack) : IsOver(stack[i], e)
      BY <2>2 DEF StackOk, Firing
    <3>2. ~(i <= k)
      BY <1>3, <2>2, <3>1 DEF IsOver
    <3>3. i - k \in 1 .. Len(s) /\ s[i - k] = stack[i]
      BY <1>1, <1>4, <3>1, <3>2
    <3> QED BY <3>1, <3>3
  <2> QED BY <2>1, <2>2 DEF Firing
<1>11. \A e : \A j \in 1 .. Len(s) : Inside(s, j, e) => Inside(stack, j + k, e)
  BY <1>1, <1>4 DEF Inside
<1>12. ASSUME NEW j \in 1 .. Len(s), NEW u, NEW c, Leaving(stack, j + k, u, c)
       PROVE  Leaving(s, j, u, c)
  <2>1. PICK i \in 1 .. Len(stack) :
          i < j + k /\ Leaves(stack[i]) /\ stack[i].a = u /\ stack[i].b = c
    BY <1>12 DEF Leaving
  <2>2. i - k \in 1 .. Len(s) /\ s[i - k] = stack[i]
    BY <1>5, <2>1 DEF Leaves, Finished
  <2>3. i - k < j
    BY <1>1, <1>4, <2>1
  <2> QED BY <2>1, <2>2, <2>3 DEF Leaving
<1>13. ASSUME NEW j \in 1 .. Len(s), NEW op \in {"rmchan_detach", "deluser_detach"},
              NEW t, Ahead(stack, j + k, op, t)
       PROVE  Ahead(s, j, op, t)
  <2>1. PICK i \in 1 .. Len(stack) : i < j + k /\ stack[i].op = op /\ stack[i].a = t
    BY <1>13 DEF Ahead
  <2>2. i - k \in 1 .. Len(s) /\ s[i - k] = stack[i]
    BY <1>5, <2>1 DEF Finished
  <2>3. i - k < j
    BY <1>1, <1>4, <2>1
  <2> QED BY <2>1, <2>2, <2>3 DEF Ahead
<1>14. Emptied(s, o)
  BY <1>4, <1>11, <1>12 DEF StackOk, Emptied
<1>15. Unbound(s, pr, ro)
  BY <1>4, <1>11, <1>13 DEF StackOk, Unbound
<1> QED BY <1>2, <1>6, <1>7, <1>8, <1>9, <1>10, <1>14, <1>15 DEF StackOk, s

(* The stack under its first entry h: what h was to do may still be wanted. *)
EmptiedBut(s, o, h) ==
  \A j \in 1 .. Len(s) :
    /\ s[j].op = "rmchan_fire" /\ Inside(s, j, "rmchan") =>
         \A u \in Users : <<u, s[j].a>> \in o =>
           Leaving(s, j, u, s[j].a) \/ (Leaves(h) /\ h.a = u /\ h.b = s[j].a)
    /\ s[j].op = "deluser_fire" /\ Inside(s, j, "deluser") =>
         \A c \in Chans : <<s[j].a, c>> \in o =>
           Leaving(s, j, s[j].a, c) \/ (Leaves(h) /\ h.a = s[j].a /\ h.b = c)
UnboundBut(s, pr, ro, h) ==
  \A j \in 1 .. Len(s) :
    /\ Removes(s[j]) /\ Inside(s, j, "rmchan") =>
         \/ Loose(s[j].a, pr, ro) \/ Ahead(s, j, "rmchan_detach", s[j].a)
         \/ h.op = "rmchan_detach" /\ h.a = s[j].a
    /\ Deletes(s[j]) /\ Inside(s, j, "deluser") =>
         \/ Loose(s[j].a, pr, ro) \/ Ahead(s, j, "deluser_detach", s[j].a)
         \/ h.op = "deluser_detach" /\ h.a = s[j].a

(* x may be put on top of r.                                                *)
Fit(x, r, o, au) ==
  /\ \A j \in 1 .. Len(r) : Pair(x, r[j], o, au)
  /\ Joins(x) => \A j, k \in 1 .. Len(r) : j < k => Triple(x, r[j], r[k])

(* The stack r under h.                                                     *)
UnderOk(h, r, f, st, o, au, pr, ro) ==
  /\ h \in Task /\ r \in Seq(Task) /\ Len(r) \in Nat
  /\ Hooked(r)
  /\ h.op # "over" => Firing(r, f)
  /\ PinsLive(r, st)
  /\ \A x \in Things : x \in Pins(h) => st[x] = "live"
  /\ Pairs(r, o, au)
  /\ Triples(r)
  /\ Fit(h, r, o, au)
  /\ EmptiedBut(r, o, h)
  /\ UnboundBut(r, pr, ro, h)

LEMMA Under ==
  ASSUME NEW s, NEW f, NEW st, NEW o, NEW au, NEW pr, NEW ro,
         StackOk(s, f, st, o, au, pr, ro), s # << >>
  PROVE  /\ UnderOk(Head(s), Tail(s), f, st, o, au, pr, ro)
         /\ Head(s) = s[1] /\ Len(s) = Len(Tail(s)) + 1 /\ Len(s) \in Nat
         /\ \A i \in 1 .. Len(Tail(s)) : Tail(s)[i] = s[i + 1]
<1> DEFINE h == Head(s)
           r == Tail(s)
<1>1. s \in Seq(Task) /\ Len(s) \in Nat /\ Len(s) > 0
  BY LenProperties, EmptySeq DEF StackOk
<1>2. /\ h = s[1] /\ h \in Task /\ r \in Seq(Task) /\ Len(r) = Len(s) - 1
      /\ \A i \in 1 .. Len(r) : r[i] = s[i + 1]
  BY <1>1, HeadTailProperties, ElementOfSeq
<1> HIDE DEF h, r
<1>3. \A i \in 1 .. Len(r) : i + 1 \in 1 .. Len(s)
  BY <1>1, <1>2
<1>4. Pairs(r, o, au)
  BY <1>1, <1>2, <1>3 DEF StackOk, Pairs
<1>5. Triples(r)
  <2> SUFFICES ASSUME NEW x \in 1 .. Len(r), NEW y \in 1 .. Len(r), NEW z \in 1 .. Len(r), x < y, y < z
               PROVE  Triple(r[x], r[y], r[z])
    BY DEF Triples
  <2>1. x + 1 < y + 1 /\ y + 1 < z + 1
    BY <1>1, <1>2
  <2>2. Triples(s)
    BY DEF StackOk
  <2>3. Triple(s[x + 1], s[y + 1], s[z + 1])
    BY <1>3, <2>1, <2>2 DEF Triples
  <2> QED BY <1>2, <2>3
<1>6. PinsLive(r, st) /\ \A x \in Things : x \in Pins(h) => st[x] = "live"
  BY <1>1, <1>2, <1>3 DEF StackOk, PinsLive
<1>7. Hooked(r)
  <2> SUFFICES ASSUME NEW i \in 1 .. Len(r), r[i].op = "on", r[i].e = "connect"
               PROVE  i < Len(r) /\ r[i + 1].op = "adduser"
    BY DEF Hooked
  <2>1. i + 1 < Len(s) /\ s[(i + 1) + 1].op = "adduser"
    BY <1>2, <1>3 DEF StackOk, Hooked
  <2>2. i < Len(r) /\ r[i + 1] = s[(i + 1) + 1]
    BY <1>1, <1>2, <2>1
  <2> QED BY <2>1, <2>2
<1>8. ASSUME h.op # "over" PROVE Firing(r, f)
  <2>1. \A i \in 1 .. Len(r) : r[i].op = "over" => r[i].e \in f
    BY <1>2, <1>3 DEF StackOk, Firing
  <2>2. ASSUME NEW e \in f PROVE \E i \in 1 .. Len(r) : IsOver(r[i], e)
    <3>1. PICK i \in 1 .. Len(s) : IsOver(s[i], e)
      BY <2>2 DEF StackOk, Firing
    <3>2. i # 1
      BY <1>2, <1>8, <3>1 DEF IsOver
    <3>3. i - 1 \in 1 .. Len(r) /\ r[i - 1] = s[i]
      BY <1>1, <1>2, <3>1, <3>2
    <3> QED BY <3>1, <3>3
  <2> QED BY <2>1, <2>2 DEF Firing
<1>9. Fit(h, r, o, au)
  <2>1. 1 \in 1 .. Len(s)
    BY <1>1
  <2>2. \A j \in 1 .. Len(r) : Pair(h, r[j], o, au)
    BY <1>1, <1>2, <1>3, <2>1 DEF StackOk, Pairs
  <2>3. ASSUME NEW j \in 1 .. Len(r), NEW k \in 1 .. Len(r), j < k
        PROVE  Triple(h, r[j], r[k])
    <3>1. 1 < j + 1 /\ j + 1 < k + 1
      BY <1>1, <1>2, <2>3
    <3> QED BY <1>2, <1>3, <2>1, <3>1 DEF StackOk, Triples
  <2> QED BY <2>2, <2>3 DEF Fit
<1>10. ASSUME NEW j \in 1 .. Len(r), NEW e, Inside(r, j, e) PROVE Inside(s, j + 1, e)
  <2>1. PICK p \in 1 .. Len(r) : j < p /\ IsOver(r[p], e)
    BY <1>10 DEF Inside
  <2>2. j + 1 < p + 1
    BY <1>1, <1>2, <2>1
  <2> QED BY <1>2, <1>3, <2>1, <2>2 DEF Inside
<1>11. ASSUME NEW j \in 1 .. Len(r), NEW u, NEW c, Leaving(s, j + 1, u, c)
       PROVE  Leaving(r, j, u, c) \/ (Leaves(h) /\ h.a = u /\ h.b = c)
  <2>1. PICK i \in 1 .. Len(s) : i < j + 1 /\ Leaves(s[i]) /\ s[i].a = u /\ s[i].b = c
    BY <1>11 DEF Leaving
  <2>2. CASE i = 1
    BY <1>2, <2>1, <2>2
  <2>3. CASE i # 1
    <3>1. i - 1 \in 1 .. Len(r) /\ r[i - 1] = s[i] /\ i - 1 < j
      BY <1>1, <1>2, <2>1, <2>3
    <3> QED BY <2>1, <3>1 DEF Leaving
  <2> QED BY <2>2, <2>3
<1>12. ASSUME NEW j \in 1 .. Len(r), NEW op, NEW t, Ahead(s, j + 1, op, t)
       PROVE  Ahead(r, j, op, t) \/ (h.op = op /\ h.a = t)
  <2>1. PICK i \in 1 .. Len(s) : i < j + 1 /\ s[i].op = op /\ s[i].a = t
    BY <1>12 DEF Ahead
  <2>2. CASE i = 1
    BY <1>2, <2>1, <2>2
  <2>3. CASE i # 1
    <3>1. i - 1 \in 1 .. Len(r) /\ r[i - 1] = s[i] /\ i - 1 < j
      BY <1>1, <1>2, <2>1, <2>3
    <3> QED BY <2>1, <3>1 DEF Ahead
  <2> QED BY <2>2, <2>3
<1>13. EmptiedBut(r, o, h)
  BY <1>2, <1>3, <1>10, <1>11 DEF StackOk, Emptied, EmptiedBut
<1>14. UnboundBut(r, pr, ro, h)
  BY <1>2, <1>3, <1>10, <1>12 DEF StackOk, Unbound, UnboundBut
<1>15. UnderOk(h, r, f, st, o, au, pr, ro)
  BY <1>1, <1>2, <1>4, <1>5, <1>6, <1>7, <1>8, <1>9, <1>13, <1>14 DEF UnderOk
<1> QED BY <1>1, <1>2, <1>15 DEF h, r

(* The stack r after h has been done, with the new state of everything.     *)
BaseOk(r, f, st, o, au, pr, ro, h) ==
  /\ r \in Seq(Task)
  /\ Hooked(r)
  /\ Firing(r, f)
  /\ PinsLive(r, st)
  /\ Pairs(r, o, au)
  /\ Triples(r)
  /\ EmptiedBut(r, o, h)
  /\ UnboundBut(r, pr, ro, h)

(* What the new entries must be so that they can follow h on top of r: f0  *)
(* is the events of r, f those of the whole.                                *)
EventsOk(new, f0, f) ==
  /\ f0 \subseteq f
  /\ \A i \in 1 .. Len(new) : new[i].op = "over" => new[i].e \in f
  /\ \A k \in f \ f0 : \E i \in 1 .. Len(new) : IsOver(new[i], k)
NoMix(new) ==
  \A i, j \in 1 .. Len(new) :
    i < j /\ Joins(new[i]) => ~Deletes(new[j]) /\ new[j].op # "rmchan_fire"
EmptiedBlock(new, f0, o, h) ==
  /\ Leaves(h) /\ <<h.a, h.b>> \in o =>
       \E i \in 1 .. Len(new) : Leaves(new[i]) /\ new[i].a = h.a /\ new[i].b = h.b
  /\ \A j \in 1 .. Len(new) :
       /\ new[j].op = "rmchan_fire" /\ (Inside(new, j, "rmchan") \/ "rmchan" \in f0) =>
            \A u \in Users : <<u, new[j].a>> \in o => Leaving(new, j, u, new[j].a)
       /\ new[j].op = "deluser_fire" /\ (Inside(new, j, "deluser") \/ "deluser" \in f0) =>
            \A c \in Chans : <<new[j].a, c>> \in o => Leaving(new, j, new[j].a, c)
UnboundBlock(new, f0, pr, ro, h) ==
  /\ h.op \in {"rmchan_detach", "deluser_detach"} => Loose(h.a, pr, ro)
  /\ \A j \in 1 .. Len(new) :
       /\ Removes(new[j]) /\ (Inside(new, j, "rmchan") \/ "rmchan" \in f0) =>
            Loose(new[j].a, pr, ro) \/ Ahead(new, j, "rmchan_detach", new[j].a)
       /\ Deletes(new[j]) /\ (Inside(new, j, "deluser") \/ "deluser" \in f0) =>
            Loose(new[j].a, pr, ro) \/ Ahead(new, j, "deluser_detach", new[j].a)
BlockOk(new, r, f0, f, st, o, au, pr, ro, h) ==
  /\ new \in Seq(Task)
  /\ Hooked(new)
  /\ EventsOk(new, f0, f)
  /\ PinsLive(new, st)
  /\ Pairs(new, o, au)
  /\ \A i \in 1 .. Len(new) : Fit(new[i], r, o, au)
  /\ NoMix(new)
  /\ EmptiedBlock(new, f0, o, h)
  /\ UnboundBlock(new, f0, pr, ro, h)

LEMMA Pushed ==
  ASSUME NEW new, NEW r, NEW f0, NEW f, NEW st, NEW o, NEW au, NEW pr, NEW ro, NEW h,
         BaseOk(r, f0, st, o, au, pr, ro, h),
         BlockOk(new, r, f0, f, st, o, au, pr, ro, h)
  PROVE  StackOk(new \o r, f, st, o, au, pr, ro)
<1> DEFINE s == new \o r
           n == Len(new)
<1>1. new \in Seq(Task) /\ r \in Seq(Task)
  BY DEF BaseOk, BlockOk
<1>2. /\ s \in Seq(Task) /\ n \in Nat /\ Len(r) \in Nat /\ Len(s) = n + Len(r)
      /\ \A i \in 1 .. n : s[i] = new[i] /\ i \in 1 .. Len(s)
      /\ \A i \in 1 .. Len(r) : s[n + i] = r[i] /\ n + i \in 1 .. Len(s)
  <2>1. /\ s \in Seq(Task) /\ n \in Nat /\ Len(r) \in Nat /\ Len(s) = n + Len(r)
        /\ \A i \in 1 .. n : s[i] = new[i]
        /\ \A i \in 1 .. Len(r) : s[n + i] = r[i]
    BY <1>1, OnTop
  <2> HIDE DEF s, n
  <2> QED BY <2>1
<1> HIDE DEF s
<1>3. ASSUME NEW i \in 1 .. Len(s)
      PROVE  \/ i <= n /\ i \in 1 .. n /\ s[i] = new[i]
             \/ i > n /\ i - n \in 1 .. Len(r) /\ s[i] = r[i - n]
  <2> HIDE DEF n
  <2>1. i > n => i - n \in 1 .. Len(r) /\ n + (i - n) = i
    BY <1>2
  <2> QED BY <1>2, <2>1
<1>4. Hooked(s)
  <2> SUFFICES ASSUME NEW i \in 1 .. Len(s), s[i].op = "on", s[i].e = "connect"
               PROVE  i < Len(s) /\ s[i + 1].op = "adduser"
    BY DEF Hooked
  <2>1. CASE i <= n
    <3>1. i < n /\ new[i + 1].op = "adduser" /\ i + 1 \in 1 .. n
      BY <1>2, <1>3, <2>1 DEF BlockOk, Hooked
    <3> HIDE DEF n
    <3> QED BY <1>2, <3>1
  <2>2. CASE i > n
    <3> HIDE DEF n
    <3>2. i - n \in 1 .. Len(r) /\ s[i] = r[i - n]
      BY <1>2, <1>3, <2>2
    <3>h. Hooked(r)
      BY DEF BaseOk
    <3>1. i - n < Len(r) /\ r[(i - n) + 1].op = "adduser"
      BY <3>2, <3>h DEF Hooked
    <3>3. (i - n) + 1 \in 1 .. Len(r) /\ n + ((i - n) + 1) = i + 1
      BY <1>2, <3>1, <3>2
    <3> QED BY <1>2, <3>1, <3>3
  <2> HIDE DEF n
  <2> QED BY <1>2, <2>1, <2>2
<1>5. Firing(s, f)
  <2>1. \A i \in 1 .. Len(s) : s[i].op = "over" => s[i].e \in f
    BY <1>3 DEF BaseOk, BlockOk, Firing, EventsOk
  <2>2. ASSUME NEW k \in f PROVE \E i \in 1 .. Len(s) : IsOver(s[i], k)
    BY <1>2 DEF BaseOk, BlockOk, Firing, EventsOk
  <2> QED BY <2>1, <2>2 DEF Firing
<1>6. PinsLive(s, st)
  BY <1>3 DEF BaseOk, BlockOk, PinsLive
<1>7. Pairs(s, o, au)
  <2> SUFFICES ASSUME NEW i \in 1 .. Len(s), NEW j \in 1 .. Len(s), i < j
               PROVE  Pair(s[i], s[j], o, au)
    BY DEF Pairs
  <2>1. CASE i <= n /\ j <= n
    BY <1>3, <2>1 DEF BlockOk, Pairs
  <2>2. CASE i <= n /\ j > n
    BY <1>3, <2>2 DEF BlockOk, Fit
  <2>3. CASE i > n /\ j > n
    <3>1. i - n < j - n
      BY <1>2
    <3> QED BY <1>3, <2>3, <3>1 DEF BaseOk, Pairs
  <2> HIDE DEF n
  <2> QED BY <1>2, <2>1, <2>2, <2>3
<1>8. Triples(s)
  <2> SUFFICES ASSUME NEW i \in 1 .. Len(s), NEW j \in 1 .. Len(s),
                      NEW k \in 1 .. Len(s), i < j, j < k, Joins(s[i])
               PROVE  Triple(s[i], s[j], s[k])
    BY DEF Triples, Triple
  <2>1. CASE j <= n
    <3>1. i \in 1 .. n /\ j \in 1 .. n /\ s[i] = new[i] /\ s[j] = new[j]
      BY <1>2, <1>3, <2>1
    <3>2. ~Deletes(s[j]) /\ s[j].op # "rmchan_fire"
      BY <3>1 DEF BlockOk, NoMix
    <3> QED BY <3>2 DEF Triple, Deletes
  <2>2. CASE i <= n /\ j > n
    <3>0. k > n /\ j - n < k - n
      BY <1>2, <2>2
    <3>1. /\ i \in 1 .. n /\ s[i] = new[i]
          /\ j - n \in 1 .. Len(r) /\ s[j] = r[j - n]
          /\ k - n \in 1 .. Len(r) /\ s[k] = r[k - n] /\ j - n < k - n
      BY <1>3, <2>2, <3>0
    <3> QED BY <3>1 DEF BlockOk, Fit
  <2>3. CASE i > n
    <3>1. /\ i - n \in 1 .. Len(r) /\ s[i] = r[i - n]
          /\ j - n \in 1 .. Len(r) /\ s[j] = r[j - n] /\ i - n < j - n
          /\ k - n \in 1 .. Len(r) /\ s[k] = r[k - n] /\ j - n < k - n
      BY <1>2, <1>3, <2>3
    <3> QED BY <3>1 DEF BaseOk, Triples
  <2> HIDE DEF n
  <2> QED BY <1>2, <2>1, <2>2, <2>3
<1>9. ASSUME NEW j \in 1 .. n, NEW e, Inside(s, j, e) PROVE Inside(new, j, e) \/ e \in f0
  <2>1. PICK p \in 1 .. Len(s) : j < p /\ IsOver(s[p], e)
    BY <1>9 DEF Inside
  <2>2. CASE p <= n
    BY <1>3, <2>1, <2>2 DEF Inside
  <2>3. CASE p > n
    BY <1>3, <2>1, <2>3 DEF BaseOk, Firing, IsOver
  <2> HIDE DEF n
  <2> QED BY <1>2, <2>1, <2>2, <2>3
<1>10. ASSUME NEW j \in 1 .. Len(r), NEW e, Inside(s, n + j, e) PROVE Inside(r, j, e)
  <2>1. PICK p \in 1 .. Len(s) : n + j < p /\ IsOver(s[p], e)
    BY <1>10 DEF Inside
  <2>2. p > n /\ j < p - n
    BY <1>2, <2>1
  <2> QED BY <1>3, <2>1, <2>2 DEF Inside
<1>11. ASSUME NEW j \in 1 .. n, NEW u, NEW c, Leaving(new, j, u, c)
       PROVE  Leaving(s, j, u, c)
  BY <1>2, <1>11 DEF Leaving
<1>12. ASSUME NEW j \in 1 .. Len(r), NEW u, NEW c, Leaving(r, j, u, c)
       PROVE  Leaving(s, n + j, u, c)
  <2>1. PICK i \in 1 .. Len(r) : i < j /\ Leaves(r[i]) /\ r[i].a = u /\ r[i].b = c
    BY <1>12 DEF Leaving
  <2>2. n + i < n + j
    BY <1>2, <2>1
  <2> QED BY <1>2, <2>1, <2>2 DEF Leaving
<1>13. ASSUME NEW j \in 1 .. n, NEW op, NEW t, Ahead(new, j, op, t)
       PROVE  Ahead(s, j, op, t)
  BY <1>2, <1>13 DEF Ahead
<1>14. ASSUME NEW j \in 1 .. Len(r), NEW op, NEW t, Ahead(r, j, op, t)
       PROVE  Ahead(s, n + j, op, t)
  <2>1. PICK i \in 1 .. Len(r) : i < j /\ r[i].op = op /\ r[i].a = t
    BY <1>14 DEF Ahead
  <2>2. n + i < n + j
    BY <1>2, <2>1
  <2> QED BY <1>2, <2>1, <2>2 DEF Ahead
<1>15. ASSUME Leaves(h), <<h.a, h.b>> \in o, NEW j \in 1 .. Len(r)
       PROVE  Leaving(s, n + j, h.a, h.b)
  <2>1. PICK i \in 1 .. n : Leaves(new[i]) /\ new[i].a = h.a /\ new[i].b = h.b
    BY <1>15 DEF BlockOk, EmptiedBlock
  <2>2. i < n + j
    BY <1>2
  <2> QED BY <1>2, <2>1, <2>2 DEF Leaving
<1>16. Emptied(s, o)
  <2> SUFFICES ASSUME NEW j \in 1 .. Len(s)
               PROVE  /\ s[j].op = "rmchan_fire" /\ Inside(s, j, "rmchan") =>
                           \A u \in Users : <<u, s[j].a>> \in o => Leaving(s, j, u, s[j].a)
                      /\ s[j].op = "deluser_fire" /\ Inside(s, j, "deluser") =>
                           \A c \in Chans : <<s[j].a, c>> \in o => Leaving(s, j, s[j].a, c)
    BY DEF Emptied
  <2>1. CASE j <= n
    BY <1>3, <1>9, <1>11, <2>1 DEF BlockOk, EmptiedBlock
  <2>2. CASE j > n
    <3> DEFINE i == j - n
    <3>1. i \in 1 .. Len(r) /\ s[j] = r[i] /\ n + i = j
      BY <1>2, <1>3, <2>2
    <3> HIDE DEF i
    <3>2. ASSUME r[i].op = "rmchan_fire", Inside(s, j, "rmchan"),
                 NEW u \in Users, <<u, r[i].a>> \in o
          PROVE  Leaving(s, j, u, r[i].a)
      <4>1. Inside(r, i, "rmchan")
        BY <1>10, <3>1, <3>2
      <4>2. Leaving(r, i, u, r[i].a) \/ (Leaves(h) /\ h.a = u /\ h.b = r[i].a)
        BY <3>1, <3>2, <4>1 DEF BaseOk, EmptiedBut
      <4> QED BY <1>12, <1>15, <3>1, <3>2, <4>2
    <3>3. ASSUME r[i].op = "deluser_fire", Inside(s, j, "deluser"),
                 NEW c \in Chans, <<r[i].a, c>> \in o
          PROVE  Leaving(s, j, r[i].a, c)
      <4>1. Inside(r, i, "deluser")
        BY <1>10, <3>1, <3>3
      <4>2. Leaving(r, i, r[i].a, c) \/ (Leaves(h) /\ h.a = r[i].a /\ h.b = c)
        BY <3>1, <3>3, <4>1 DEF BaseOk, EmptiedBut
      <4> QED BY <1>12, <1>15, <3>1, <3>3, <4>2
    <3> QED BY <3>1, <3>2, <3>3
  <2> HIDE DEF n
  <2> QED BY <1>2, <2>1, <2>2
<1>17. Unbound(s, pr, ro)
  <2> SUFFICES ASSUME NEW j \in 1 .. Len(s)
               PROVE  /\ Removes(s[j]) /\ Inside(s, j, "rmchan") =>
                           Loose(s[j].a, pr, ro) \/ Ahead(s, j, "rmchan_detach", s[j].a)
                      /\ Deletes(s[j]) /\ Inside(s, j, "deluser") =>
                           Loose(s[j].a, pr, ro) \/ Ahead(s, j, "deluser_detach", s[j].a)
    BY DEF Unbound
  <2>1. CASE j <= n
    BY <1>3, <1>9, <1>13, <2>1 DEF BlockOk, UnboundBlock
  <2>2. CASE j > n
    <3> DEFINE i == j - n
    <3>1. i \in 1 .. Len(r) /\ s[j] = r[i] /\ n + i = j
      BY <1>2, <1>3, <2>2
    <3> HIDE DEF i
    <3>2. h.op \in {"rmchan_detach", "deluser_detach"} => Loose(h.a, pr, ro)
      BY DEF BlockOk, UnboundBlock
    <3>3. ASSUME Removes(r[i]), Inside(s, j, "rmchan")
          PROVE  Loose(r[i].a, pr, ro) \/ Ahead(s, j, "rmchan_detach", r[i].a)
      <4>1. Inside(r, i, "rmchan")
        BY <1>10, <3>1, <3>3
      <4> QED BY <1>14, <3>1, <3>2, <3>3, <4>1 DEF BaseOk, UnboundBut
    <3>4. ASSUME Deletes(r[i]), Inside(s, j, "deluser")
          PROVE  Loose(r[i].a, pr, ro) \/ Ahead(s, j, "deluser_detach", r[i].a)
      <4>1. Inside(r, i, "deluser")
        BY <1>10, <3>1, <3>4
      <4> QED BY <1>14, <3>1, <3>2, <3>4, <4>1 DEF BaseOk, UnboundBut
    <3> QED BY <3>1, <3>3, <3>4
  <2> HIDE DEF n
  <2> QED BY <1>2, <2>1, <2>2
<1> QED BY <1>2, <1>4, <1>5, <1>6, <1>7, <1>8, <1>16, <1>17 DEF StackOk, s

LEMMA Runs ==
  ASSUME NEW new, NEW r, NEW firing, NEW st, NEW o, NEW au, NEW pr, NEW ro, NEW h,
         BaseOk(r, fire, st, o, au, pr, ro, h),
         BlockOk(new, r, fire, firing, st, o, au, pr, ro, h),
         Run(new \o r, firing)
  PROVE  StackOk(todo', fire', st, o, au, pr, ro)
<1>1. StackOk(new \o r, firing, st, o, au, pr, ro)
  BY Pushed
<1>2. StackOk(Settled(new \o r), firing \ Ended(new \o r), st, o, au, pr, ro)
  BY <1>1, Settles
<1> QED BY <1>2 DEF Run

-----------------------------------------------------------------------------
(* The entries actions put on the stack.                                   *)

LEMMA Fields ==
  /\ \A op, a, b : /\ Do(op, a, b).op = op /\ Do(op, a, b).e = NULL
                   /\ Do(op, a, b).a = a /\ Do(op, a, b).b = b
  /\ \A e, a, b : /\ On(e, a, b).op = "on" /\ On(e, a, b).e = e
                  /\ On(e, a, b).a = a /\ On(e, a, b).b = b
  /\ \A e : /\ Over(e).op = "over" /\ Over(e).e = e
            /\ Over(e).a = NULL /\ Over(e).b = NULL
BY DEF Do, On, Over

LEMMA Entries ==
  /\ \A op \in {"join", "join_now", "left", "left_now"}, u \in Users, c \in Chans :
       Do(op, u, c) \in Task
  /\ \A op \in {"rmchan", "rmchan_fire", "rmchan_detach"}, c \in Chans :
       Do(op, c, NULL) \in Task
  /\ \A op \in {"deluser", "deluser_fire", "deluser_detach", "adduser"}, u \in Users :
       Do(op, u, NULL) \in Task
  /\ \A t \in Users \cup Chans : Do("done", t, NULL) \in Task
  /\ \A e \in Events, a \in Things \cup {NULL}, b \in Things \cup {NULL} :
       On(e, a, b) \in Task
  /\ \A k \in Kinds : Over(k) \in Task
<1>1. ASSUME NEW op \in {"join", "join_now", "left", "left_now"}, NEW u \in Users, NEW c \in Chans
      PROVE  Do(op, u, c) \in Task
  BY DEF Do, Task, Things, Ops
<1>2. ASSUME NEW op \in {"rmchan", "rmchan_fire", "rmchan_detach"}, NEW c \in Chans
      PROVE  Do(op, c, NULL) \in Task
  BY DEF Do, Task, Things, Ops
<1>3. ASSUME NEW op \in {"deluser", "deluser_fire", "deluser_detach", "adduser"}, NEW u \in Users
      PROVE  Do(op, u, NULL) \in Task
  BY DEF Do, Task, Things, Ops
<1>4. ASSUME NEW t \in Users \cup Chans PROVE Do("done", t, NULL) \in Task
  BY DEF Do, Task, Things, Ops
<1>5. ASSUME NEW e \in Events, NEW a \in Things \cup {NULL}, NEW b \in Things \cup {NULL}
      PROVE  On(e, a, b) \in Task
  BY DEF On, Task
<1>6. ASSUME NEW k \in Kinds PROVE Over(k) \in Task
  BY DEF Over, Task
<1> QED BY <1>1, <1>2, <1>3, <1>4, <1>5, <1>6

(* Entries that free nothing and bring nobody anywhere.                     *)
Still(x) == x.op \in {"on", "done", "rmchan_detach", "deluser_detach"}
LEMMA StillFits ==
  ASSUME NEW x, Still(x), NEW r, NEW o, NEW au
  PROVE  Fit(x, r, o, au) /\ \A y : Pair(x, y, o, au)
BY DEF Still, Fit, Pair, Kills, Joins, Leaves, Deletes

LEMMA OverFits ==
  ASSUME NEW r, NEW f, NEW o, NEW au, Firing(r, f), NEW k, k \notin f
  PROVE  Fit(Over(k), r, o, au)
<1>1. Over(k).op = "over" /\ Over(k).e = k
  BY Fields
<1> QED BY <1>1 DEF Fit, Pair, Kills, Joins, Leaves, Deletes, Firing

(* What is pinned is a user or a channel.                                   *)
LEMMA PinnedKinds ==
  ASSUME NEW t \in Task, NEW x \in Things, x \in Pins(t)
  PROVE  x \in Users \cup Chans
BY ThingsAssumption DEF Pins, Task, Ops, Things

(* The stack under what is done, when nothing else changes.                 *)
LEMMA Replaced ==
  ASSUME NEW h, NEW r, NEW f, NEW st, NEW o, NEW au, NEW pr, NEW ro,
         UnderOk(h, r, f, st, o, au, pr, ro), h.op # "over"
  PROVE  BaseOk(r, f, st, o, au, pr, ro, h)
BY DEF UnderOk, BaseOk

(* The stack under a call from outside.                                     *)
Nothing == On("timer", NULL, NULL)
LEMMA Kept ==
  ASSUME NEW s, NEW f, NEW st, NEW o, NEW au, NEW pr, NEW ro,
         StackOk(s, f, st, o, au, pr, ro)
  PROVE  BaseOk(s, f, st, o, au, pr, ro, Nothing)
BY DEF StackOk, BaseOk, Emptied, EmptiedBut, Unbound, UnboundBut

LEMMA NothingIs == Nothing.op = "on" /\ ~Leaves(Nothing)
BY DEF Nothing, On, Leaves

(* A stack that is only made shorter.                                       *)
LEMMA NoEntry ==
  ASSUME NEW r, NEW f, NEW st, NEW o, NEW au, NEW pr, NEW ro, NEW h,
         Leaves(h) => <<h.a, h.b>> \notin o,
         h.op \in {"rmchan_detach", "deluser_detach"} => Loose(h.a, pr, ro)
  PROVE  BlockOk(<< >>, r, f, f, st, o, au, pr, ro, h)
<1>1. << >> \in Seq(Task) /\ Len(<< >>) = 0
  BY EmptySeq
<1> QED BY <1>1 DEF BlockOk, Hooked, EventsOk, PinsLive, Pairs, NoMix, EmptiedBlock, UnboundBlock

-----------------------------------------------------------------------------
(* Each action keeps the stack in order.                                   *)

Stacked == StackOk(todo, fire, state, on, auto, priv, roots)

LEMMA Steps ==
  ASSUME Stacked, todo # << >>, Head(todo).op # "over", NEW new, NEW firing,
         BlockOk(new, Tail(todo), fire, firing, state, on, auto, priv, roots, Head(todo)),
         Run(new \o Tail(todo), firing),
         UNCHANGED <<state, on, auto, priv, roots>>
  PROVE  Stacked'
<1>1. UnderOk(Head(todo), Tail(todo), fire, state, on, auto, priv, roots)
  BY Under DEF Stacked
<1>2. BaseOk(Tail(todo), fire, state, on, auto, priv, roots, Head(todo))
  BY <1>1, Replaced
<1>3. StackOk(todo', fire', state, on, auto, priv, roots)
  BY <1>2, Runs
<1> QED BY <1>3 DEF Stacked

LEMMA JoinFireStack ==
  ASSUME Stacked, JoinFire PROVE Stacked'
<1> DEFINE h == Head(todo)
           r == Tail(todo)
           x1 == On("beforeJoin", h.a, h.b)
           x2 == Do("join_now", h.a, h.b)
           x3 == On("afterJoin", h.a, h.b)
           x4 == Over("join")
           new == <<x1, x2, x3, x4>>
<1>1. /\ todo # << >> /\ h.op = "join" /\ "join" \notin fire
      /\ Run(new \o r, fire \cup {"join"})
      /\ UNCHANGED <<state, on, auto, priv, roots>>
  BY DEF JoinFire, At, Fire, This, That, server, engine
<1>2. UnderOk(h, r, fire, state, on, auto, priv, roots)
  BY <1>1, Under DEF Stacked
<1>3. h \in Task /\ h.a \in Users /\ h.b \in Chans
  BY <1>1, <1>2 DEF UnderOk, Task
<1>4. x1 \in Task /\ x2 \in Task /\ x3 \in Task /\ x4 \in Task
  BY <1>3, Entries DEF Events, Kinds, Things
<1>5. /\ x1.op = "on" /\ x1.e = "beforeJoin"
      /\ x2.op = "join_now" /\ x2.a = h.a /\ x2.b = h.b
      /\ x3.op = "on" /\ x3.e = "afterJoin" /\ x4.op = "over" /\ x4.e = "join"
  BY Fields
<1> HIDE DEF x1, x2, x3, x4
<1>6. /\ new \in Seq(Task) /\ Len(new) = 4
      /\ new[1] = x1 /\ new[2] = x2 /\ new[3] = x3 /\ new[4] = x4
  BY <1>4
<1> HIDE DEF new, h, r
<1>7. Fit(x2, r, on, auto)
  <2>1. Fit(h, r, on, auto)
    BY <1>2 DEF UnderOk
  <2>2. ASSUME NEW y, Pair(h, y, on, auto) PROVE Pair(x2, y, on, auto)
    BY <1>1, <1>5, <2>2 DEF Pair, Kills, Joins, Leaves, Deletes
  <2>3. ASSUME NEW y, NEW z, Triple(h, y, z) PROVE Triple(x2, y, z)
    BY <1>1, <1>5, <2>3 DEF Triple, Joins
  <2> QED BY <1>1, <2>1, <2>2, <2>3 DEF Fit, Joins
<1>8. Fit(x4, r, on, auto)
  BY <1>1, <1>2, OverFits DEF UnderOk, x4
<1>9. Fit(x1, r, on, auto) /\ Fit(x3, r, on, auto)
  BY <1>5, StillFits DEF Still
<1>10. Pairs(new, on, auto)
  <2>0. Still(x1) /\ Still(x3)
    BY <1>5 DEF Still
  <2>1. \A y : Pair(x1, y, on, auto) /\ Pair(x3, y, on, auto)
    BY <2>0, StillFits
  <2>2. Pair(x2, x3, on, auto) /\ Pair(x2, x4, on, auto)
    BY <1>5 DEF Pair, Kills, Joins, Leaves, Deletes, Pins, IsOver
  <2> QED BY <1>6, <2>1, <2>2 DEF Pairs
<1>11. PinsLive(new, state)
  <2>1. ASSUME NEW x \in Things, x \in Pins(x2) PROVE state[x] = "live"
    BY <1>1, <1>2, <1>5, <2>1 DEF UnderOk, Pins
  <2> QED BY <1>5, <1>6, <2>1 DEF PinsLive, Pins
<1>12. BlockOk(new, r, fire, fire \cup {"join"}, state, on, auto, priv, roots, h)
  <2>1. Hooked(new) /\ NoMix(new)
    BY <1>5, <1>6 DEF Hooked, NoMix, Deletes
  <2>2. EventsOk(new, fire, fire \cup {"join"})
    BY <1>5, <1>6 DEF EventsOk, IsOver
  <2>3. EmptiedBlock(new, fire, on, h) /\ UnboundBlock(new, fire, priv, roots, h)
    BY <1>1, <1>5, <1>6 DEF EmptiedBlock, UnboundBlock, Leaves, Removes, Deletes
  <2>4. \A i \in 1 .. Len(new) : Fit(new[i], r, on, auto)
    BY <1>6, <1>7, <1>8, <1>9
  <2> QED BY <1>6, <1>10, <1>11, <2>1, <2>2, <2>3, <2>4 DEF BlockOk
<1> QED BY <1>1, <1>12, Steps DEF h, r

LEMMA LeftFireStack ==
  ASSUME Stacked, LeftFire PROVE Stacked'
<1> DEFINE h == Head(todo)
           r == Tail(todo)
           x1 == On("left", h.a, h.b)
           x2 == Do("left_now", h.a, h.b)
           x3 == Over("left")
           new == <<x1, x2, x3>>
<1>1. /\ todo # << >> /\ h.op = "left" /\ "left" \notin fire
      /\ Run(new \o r, fire \cup {"left"})
      /\ UNCHANGED <<state, on, auto, priv, roots>>
  BY DEF LeftFire, At, Fire, This, That, server, engine
<1>2. UnderOk(h, r, fire, state, on, auto, priv, roots)
  BY <1>1, Under DEF Stacked
<1>3. h \in Task /\ h.a \in Users /\ h.b \in Chans
  BY <1>1, <1>2 DEF UnderOk, Task
<1>4. x1 \in Task /\ x2 \in Task /\ x3 \in Task
  BY <1>3, Entries DEF Events, Kinds, Things
<1>5. /\ x1.op = "on" /\ x1.e = "left"
      /\ x2.op = "left_now" /\ x2.a = h.a /\ x2.b = h.b
      /\ x3.op = "over" /\ x3.e = "left"
  BY Fields
<1> HIDE DEF x1, x2, x3
<1>6. /\ new \in Seq(Task) /\ Len(new) = 3
      /\ new[1] = x1 /\ new[2] = x2 /\ new[3] = x3
  BY <1>4
<1> HIDE DEF new, h, r
<1>7. Fit(x2, r, on, auto)
  <2>1. Fit(h, r, on, auto)
    BY <1>2 DEF UnderOk
  <2>2. ASSUME NEW y, Pair(h, y, on, auto) PROVE Pair(x2, y, on, auto)
    BY <1>1, <1>5, <2>2 DEF Pair, Kills, Joins, Leaves, Deletes
  <2> QED BY <1>5, <2>1, <2>2 DEF Fit, Joins
<1>8. Fit(x3, r, on, auto)
  BY <1>1, <1>2, OverFits DEF UnderOk, x3
<1>9. Still(x1)
  BY <1>5 DEF Still
<1>10. Pairs(new, on, auto)
  <2>1. \A y : Pair(x1, y, on, auto)
    BY <1>9, StillFits
  <2>2. Pair(x2, x3, on, auto)
    BY <1>5 DEF Pair, Kills, Joins, Leaves, Deletes, Pins, IsOver
  <2> QED BY <1>6, <2>1, <2>2 DEF Pairs
<1>11. PinsLive(new, state)
  <2>1. ASSUME NEW x \in Things, x \in Pins(x2) PROVE state[x] = "live"
    BY <1>1, <1>2, <1>5, <2>1 DEF UnderOk, Pins
  <2> QED BY <1>5, <1>6, <2>1 DEF PinsLive, Pins
<1>12. BlockOk(new, r, fire, fire \cup {"left"}, state, on, auto, priv, roots, h)
  <2>1. Hooked(new) /\ NoMix(new)
    BY <1>5, <1>6 DEF Hooked, NoMix, Joins
  <2>2. EventsOk(new, fire, fire \cup {"left"})
    BY <1>5, <1>6 DEF EventsOk, IsOver
  <2>3. EmptiedBlock(new, fire, on, h) /\ UnboundBlock(new, fire, priv, roots, h)
    BY <1>1, <1>5, <1>6 DEF EmptiedBlock, UnboundBlock, Leaves, Removes, Deletes
  <2>4. \A i \in 1 .. Len(new) : Fit(new[i], r, on, auto)
    BY <1>6, <1>7, <1>8, <1>9, StillFits
  <2> QED BY <1>6, <1>10, <1>11, <2>1, <2>2, <2>3, <2>4 DEF BlockOk
<1> QED BY <1>1, <1>12, Steps DEF h, r

LEMMA JoinStack ==
  ASSUME Stacked, join PROVE Stacked'
<1> DEFINE h == Head(todo)
           r == Tail(todo)
           oo == on \cup {<<h.a, h.b>>}
<1>1. /\ todo # << >> /\ Joins(h) /\ on' = oo
      /\ Run(<< >> \o r, fire)
      /\ UNCHANGED <<state, auto, priv, roots>>
  BY DEF join, At, Continue, This, That, engine, Joins
<1>2. UnderOk(h, r, fire, state, on, auto, priv, roots)
  BY <1>1, Under DEF Stacked
<1>3. h \in Task /\ h.op # "over" /\ ~Leaves(h)
      /\ h.op \notin {"rmchan_detach", "deluser_detach"}
  BY <1>1, <1>2 DEF UnderOk, Joins, Leaves
<1> HIDE DEF h, r
<1>4. Pairs(r, oo, auto)
  <2> SUFFICES ASSUME NEW i \in 1 .. Len(r), NEW j \in 1 .. Len(r), i < j
               PROVE  Pair(r[i], r[j], oo, auto)
    BY DEF Pairs
  <2>1. Pair(r[i], r[j], on, auto)
    BY <1>2 DEF UnderOk, Pairs
  <2>2. Triple(h, r[i], r[j])
    BY <1>1, <1>2 DEF UnderOk, Fit
  <2>3. ASSUME NEW z \in Things, Kills(r[i], z, oo, auto) PROVE z \notin Pins(r[j])
    <3>1. CASE Kills(r[i], z, on, auto)
      BY <2>1, <3>1 DEF Pair
    <3>2. CASE ~Kills(r[i], z, on, auto)
      <4>1. Deletes(r[i]) /\ <<r[i].a, z>> = <<h.a, h.b>>
        BY <2>3, <3>2 DEF Kills, Deletes
      <4> QED BY <1>1, <2>2, <4>1 DEF Triple
    <3> QED BY <3>1, <3>2
  <2> QED BY <2>1, <2>3 DEF Pair
<1>5. EmptiedBut(r, oo, h)
  <2>1. ASSUME NEW j \in 1 .. Len(r), Inside(r, j, "rmchan"), r[j].op = "rmchan_fire"
        PROVE  h.b # r[j].a
    <3>1. PICK p \in 1 .. Len(r) : j < p /\ IsOver(r[p], "rmchan")
      BY <2>1 DEF Inside
    <3>2. Triple(h, r[j], r[p])
      BY <1>1, <1>2, <3>1 DEF UnderOk, Fit
    <3> QED BY <1>1, <2>1, <3>1, <3>2 DEF Triple
  <2>2. ASSUME NEW j \in 1 .. Len(r), Inside(r, j, "deluser"), r[j].op = "deluser_fire"
        PROVE  h.a # r[j].a
    <3>1. PICK p \in 1 .. Len(r) : j < p /\ IsOver(r[p], "deluser")
      BY <2>2 DEF Inside
    <3>2. Triple(h, r[j], r[p])
      BY <1>1, <1>2, <3>1 DEF UnderOk, Fit
    <3> QED BY <1>1, <2>2, <3>1, <3>2 DEF Triple
  <2> QED BY <1>2, <2>1, <2>2 DEF UnderOk, EmptiedBut
<1>6. BaseOk(r, fire, state, oo, auto, priv, roots, h)
  BY <1>2, <1>3, <1>4, <1>5 DEF UnderOk, BaseOk
<1>7. BlockOk(<< >>, r, fire, fire, state, oo, auto, priv, roots, h)
  BY <1>3, NoEntry
<1>8. StackOk(todo', fire', state, oo, auto, priv, roots)
  BY <1>1, <1>6, <1>7, Runs
<1> QED BY <1>1, <1>8 DEF Stacked

LEMMA LeftStack ==
  ASSUME Stacked, left PROVE Stacked'
<1> DEFINE h == Head(todo)
           r == Tail(todo)
           oo == on \ {<<h.a, h.b>>}
           new == IF LastOne(h.a, h.b) THEN <<Do("rmchan", h.b, NULL)>> ELSE << >>
<1>1. /\ todo # << >> /\ Leaves(h) /\ on' = oo
      /\ Run(new \o r, fire)
      /\ UNCHANGED <<state, auto, priv, roots>>
  BY DEF left, At, Continue, This, That, engine, Leaves
<1>2. UnderOk(h, r, fire, state, on, auto, priv, roots)
  BY <1>1, Under DEF Stacked
<1>3. /\ h \in Task /\ h.op # "over" /\ h.op \notin {"rmchan_detach", "deluser_detach"}
      /\ h.a \in Users /\ h.b \in Chans
  BY <1>1, <1>2 DEF UnderOk, Leaves, Task
<1>4. <<h.a, h.b>> \notin oo /\ oo \subseteq on
  OBVIOUS
<1> HIDE DEF h, r
<1>5. Pairs(r, oo, auto)
  BY <1>2, <1>4 DEF UnderOk, Pairs, Pair, Kills
<1>6. BaseOk(r, fire, state, oo, auto, priv, roots, h)
  <2>1. EmptiedBut(r, oo, h)
    BY <1>2, <1>4 DEF UnderOk, EmptiedBut
  <2> QED BY <1>2, <1>3, <1>5, <2>1 DEF UnderOk, BaseOk
<1>7. BlockOk(new, r, fire, fire, state, oo, auto, priv, roots, h)
  <2>1. CASE ~LastOne(h.a, h.b)
    BY <1>3, <1>4, <2>1, NoEntry
  <2>2. CASE LastOne(h.a, h.b)
    <3> DEFINE x == Do("rmchan", h.b, NULL)
    <3>1. h.b \in auto
      BY <2>2 DEF LastOne
    <3>2. x \in Task /\ x.op = "rmchan" /\ x.a = h.b /\ x.b = NULL
      BY <1>3, Entries, Fields
    <3>3. new = <<x>>
      BY <2>2
    <3> HIDE DEF x, new, oo
    <3>4. new \in Seq(Task) /\ Len(new) = 1 /\ new[1] = x
      BY <3>2, <3>3
    <3>5. Fit(x, r, oo, auto)
      <4>1. ASSUME NEW y, Pair(h, y, on, auto) PROVE Pair(x, y, oo, auto)
        BY <1>1, <3>1, <3>2, <4>1 DEF Pair, Kills, Joins, Leaves, Deletes
      <4> QED BY <1>2, <3>2, <4>1 DEF UnderOk, Fit, Joins
    <3>6. "rmchan" \notin fire
      <4> SUFFICES ASSUME "rmchan" \in fire PROVE FALSE
        OBVIOUS
      <4>1. PICK j \in 1 .. Len(r) : IsOver(r[j], "rmchan")
        BY <1>2, <1>3 DEF UnderOk, Firing
      <4> QED BY <1>1, <1>2, <3>1, <4>1 DEF UnderOk, Fit, Pair
    <3>7. PinsLive(new, state)
      BY <1>1, <1>2, <3>2, <3>4, ThingsAssumption DEF UnderOk, PinsLive, Pins, Leaves
    <3>8. UnboundBlock(new, fire, priv, roots, h)
      BY <1>3, <3>2, <3>4, <3>6 DEF UnboundBlock, Inside, Deletes
    <3>9. EmptiedBlock(new, fire, oo, h)
      BY <1>4, <3>2, <3>4 DEF EmptiedBlock
    <3>10. Hooked(new) /\ NoMix(new) /\ EventsOk(new, fire, fire) /\ Pairs(new, oo, auto)
      BY <3>2, <3>4 DEF Hooked, NoMix, EventsOk, Pairs
    <3> QED BY <3>4, <3>5, <3>7, <3>8, <3>9, <3>10 DEF BlockOk
  <2> QED BY <2>1, <2>2
<1> HIDE DEF oo, new
<1>8. StackOk(todo', fire', state, oo, auto, priv, roots)
  BY <1>1, <1>6, <1>7, Runs
<1> QED BY <1>1, <1>8 DEF Stacked

(* A walk takes every membership there is, once.                            *)
Walks(walk, M) ==
  /\ walk \in Seq(Task)
  /\ \A i \in 1 .. Len(walk) : walk[i].op = "left" /\ <<walk[i].a, walk[i].b>> \in M
  /\ \A i, j \in 1 .. Len(walk) :
       i # j => <<walk[i].a, walk[i].b>> # <<walk[j].a, walk[j].b>>
  /\ \A u, c : <<u, c>> \in M =>
       \E i \in 1 .. Len(walk) : walk[i].a = u /\ walk[i].b = c

LEMMA LeavingsWalk ==
  ASSUME on \subseteq Users \X Chans, IsFiniteSet(on), NEW us, NEW cs,
         NEW walk \in Leavings(us, cs)
  PROVE  Walks(walk, on \cap (us \X cs))
<1> DEFINE S == on \cap (us \X cs)
           n == Cardinality(S)
<1>1. PICK pairs \in SetToSeqs(S) :
        walk = [i \in 1 .. Len(pairs) |-> Do("left", pairs[i][1], pairs[i][2])]
  BY DEF Leavings
<1>2. S \in SUBSET on /\ \A m \in S : m \in Users \X Chans
  OBVIOUS
<1> HIDE DEF S
<1>3. IsFiniteSet(S) /\ n \in Nat
  BY <1>2, FS_Subset, FS_CardinalityType
<1>4. /\ pairs \in [1 .. n -> S]
      /\ \A i, j \in 1 .. n : i # j => pairs[i] # pairs[j]
  BY <1>1 DEF SetToSeqs
<1> HIDE DEF n
<1>5. pairs \in Seq(S)
  BY <1>3, <1>4
<1>6. Len(pairs) = n
  BY <1>3, <1>4, <1>5, LenProperties
<1>7. pairs \in Injection(1 .. n, S)
  BY <1>4 DEF Injection, IsInjective
<1>8. IsFiniteSet(1 .. n) /\ Cardinality(1 .. n) = n
  BY <1>3, FS_Interval
<1>9. pairs \in Surjection(1 .. n, S)
  BY <1>3, <1>7, <1>8, FS_Injection DEF n
<1>10. \A m \in S : \E i \in 1 .. n : pairs[i] = m
  BY <1>9 DEF Surjection
<1>11. \A i \in 1 .. n : pairs[i] \in S /\ pairs[i] \in Users \X Chans
  BY <1>2, <1>4
<1>12. walk = [i \in 1 .. n |-> Do("left", pairs[i][1], pairs[i][2])]
  BY <1>1, <1>6
<1>13. \A i \in 1 .. n : Do("left", pairs[i][1], pairs[i][2]) \in Task
  BY <1>11, Entries
<1>14. walk \in Seq(Task) /\ Len(walk) = n
  <2>1. walk \in [1 .. n -> Task]
    BY <1>12, <1>13
  <2>2. walk \in Seq(Task)
    BY <1>3, <2>1
  <2> QED BY <1>3, <2>1, <2>2, LenProperties
<1>15. ASSUME NEW i \in 1 .. n
       PROVE  walk[i].op = "left" /\ <<walk[i].a, walk[i].b>> = pairs[i]
  <2>1. walk[i] = Do("left", pairs[i][1], pairs[i][2])
    BY <1>12
  <2>2. walk[i].op = "left" /\ walk[i].a = pairs[i][1] /\ walk[i].b = pairs[i][2]
    BY <2>1, Fields
  <2>3. pairs[i] = <<pairs[i][1], pairs[i][2]>>
    BY <1>11
  <2> QED BY <2>2, <2>3
<1>16. \A u, c : <<u, c>> \in S => \E i \in 1 .. n : walk[i].a = u /\ walk[i].b = c
  BY <1>10, <1>15
<1>17. \A i \in 1 .. Len(walk) : walk[i].op = "left" /\ <<walk[i].a, walk[i].b>> \in S
  BY <1>11, <1>14, <1>15
<1>18. \A i, j \in 1 .. Len(walk) :
         i # j => <<walk[i].a, walk[i].b>> # <<walk[j].a, walk[j].b>>
  <2> SUFFICES ASSUME NEW i \in 1 .. Len(walk), NEW j \in 1 .. Len(walk), i # j
               PROVE  <<walk[i].a, walk[i].b>> # <<walk[j].a, walk[j].b>>
    OBVIOUS
  <2>1. i \in 1 .. n /\ j \in 1 .. n
    BY <1>14
  <2>2. pairs[i] # pairs[j]
    BY <1>4, <2>1
  <2>3. <<walk[i].a, walk[i].b>> = pairs[i] /\ <<walk[j].a, walk[j].b>> = pairs[j]
    BY <1>15, <2>1
  <2> QED BY <2>2, <2>3
<1>19. \A u, c : <<u, c>> \in S => \E i \in 1 .. Len(walk) : walk[i].a = u /\ walk[i].b = c
  BY <1>14, <1>16
<1>20. Walks(walk, S)
  BY <1>14, <1>17, <1>18, <1>19 DEF Walks
<1> QED BY <1>20 DEF S

(* At the head of the stack nothing is left to wait for.                    *)
LEMMA HeadFacts ==
  ASSUME Stacked, todo # << >>, Head(todo).op # "over"
  PROVE  /\ Removes(Head(todo)) /\ "rmchan" \in fire => Loose(Head(todo).a, priv, roots)
         /\ Deletes(Head(todo)) /\ "deluser" \in fire => Loose(Head(todo).a, priv, roots)
         /\ Head(todo).op = "rmchan_fire" /\ "rmchan" \in fire =>
              \A u \in Users : <<u, Head(todo).a>> \notin on
         /\ Head(todo).op = "deluser_fire" /\ "deluser" \in fire =>
              \A c \in Chans : <<Head(todo).a, c>> \notin on
<1>1. /\ UnderOk(Head(todo), Tail(todo), fire, state, on, auto, priv, roots)
      /\ Head(todo) = todo[1] /\ Len(todo) = Len(Tail(todo)) + 1 /\ Len(todo) \in Nat
      /\ \A i \in 1 .. Len(Tail(todo)) : Tail(todo)[i] = todo[i + 1]
  BY Under DEF Stacked
<1>2. 1 \in 1 .. Len(todo) /\ Len(Tail(todo)) \in Nat
  BY <1>1 DEF UnderOk
<1>3. ASSUME NEW k \in fire PROVE Inside(todo, 1, k)
  <2>1. PICK i \in 1 .. Len(Tail(todo)) : IsOver(Tail(todo)[i], k)
    BY <1>1, <1>3 DEF UnderOk, Firing
  <2>2. i + 1 \in 1 .. Len(todo) /\ 1 < i + 1
    BY <1>1, <1>2
  <2> QED BY <1>1, <2>1, <2>2 DEF Inside
<1>4. \A op, t : ~Ahead(todo, 1, op, t)
  BY <1>1 DEF Ahead
<1>5. \A u, c : ~Leaving(todo, 1, u, c)
  BY <1>1 DEF Leaving
<1> QED BY <1>1, <1>2, <1>3, <1>4, <1>5 DEF Stacked, StackOk, Emptied, Unbound

(* What a walk and the entry x after it make of the stack r under h.        *)
LEMMA WalkBlock ==
  ASSUME NEW walk, NEW x \in Task, NEW r, NEW h, NEW M, NEW au,
         Walks(walk, M), M \subseteq on, on \subseteq Users \X Chans,
         \A u \in Users, c \in Chans : <<u, c>> \in on => state[u] = "live" /\ state[c] = "live",
         x.op \in {"rmchan_fire", "deluser_fire"},
         \A z \in Things : z \in Pins(x) => state[z] = "live",
         Fit(x, r, on, au),
         \A u, c : <<u, c>> \in M => Fit(Do("left", u, c), r, on, au),
         \A u, c, v, d : <<u, c>> \in M /\ <<v, d>> \in M /\ <<u, c>> # <<v, d>> /\ c \in au =>
           c # d,
         \A u, c : <<u, c>> \in M /\ c \in au => c \notin Pins(x),
         h.op \notin {"left", "left_now", "rmchan_detach", "deluser_detach"},
         x.op = "rmchan_fire" =>
           /\ \A u \in Users : <<u, x.a>> \in on => <<u, x.a>> \in M
           /\ "rmchan" \in fire => Loose(x.a, priv, roots),
         x.op = "deluser_fire" =>
           /\ \A c \in Chans : <<x.a, c>> \in on => <<x.a, c>> \in M
           /\ "deluser" \in fire => Loose(x.a, priv, roots)
  PROVE  BlockOk(walk \o <<x>>, r, fire, fire, state, on, au, priv, roots, h)
<1> DEFINE new == walk \o <<x>>
           n == Len(walk)
<1>1. <<x>> \in Seq(Task) /\ Len(<<x>>) = 1 /\ <<x>>[1] = x
  OBVIOUS
<1>2. walk \in Seq(Task) /\ n \in Nat
  BY LenProperties DEF Walks
<1>3. /\ new \in Seq(Task) /\ Len(new) = n + 1
      /\ \A i \in 1 .. n : new[i] = walk[i]
      /\ new[n + 1] = x
  <2>1. new \in Seq(Task) /\ Len(new) = n + Len(<<x>>)
    BY <1>1, <1>2, OnTop
  <2>2. \A i \in 1 .. n : new[i] = walk[i]
    BY <1>1, <1>2, OnTop
  <2>3. \A i \in 1 .. Len(<<x>>) : new[n + i] = <<x>>[i]
    BY <1>1, <1>2, OnTop
  <2> QED BY <1>1, <2>1, <2>2, <2>3
<1> HIDE DEF new
<1>4. ASSUME NEW i \in 1 .. n
      PROVE  /\ new[i].op = "left" /\ <<new[i].a, new[i].b>> \in M
             /\ new[i].a \in Users /\ new[i].b \in Chans
             /\ new[i] \in Task
  <2>1. new[i].op = "left" /\ <<new[i].a, new[i].b>> \in M
    BY <1>3 DEF Walks
  <2>2. <<new[i].a, new[i].b>> \in Users \X Chans
    BY <2>1
  <2>3. new[i] \in Task
    BY <1>2, <1>3, ElementOfSeq
  <2> QED BY <2>1, <2>2, <2>3
<1>5. \A i \in 1 .. Len(new) : i \in 1 .. n \/ (i = n + 1 /\ new[i] = x)
  BY <1>2, <1>3
<1> HIDE DEF n
<1>6. Hooked(new) /\ NoMix(new) /\ EventsOk(new, fire, fire)
  <2>1. \A i \in 1 .. Len(new) : new[i].op \in {"left", "rmchan_fire", "deluser_fire"}
    BY <1>4, <1>5
  <2> QED BY <2>1 DEF Hooked, NoMix, EventsOk, Joins
<1>7. PinsLive(new, state)
  <2>1. ASSUME NEW i \in 1 .. n, NEW z \in Things, z \in Pins(new[i]) PROVE state[z] = "live"
    <3>1. state[new[i].a] = "live" /\ state[new[i].b] = "live"
      BY <1>4
    <3> QED BY <1>4, <2>1, <3>1 DEF Pins
  <2> QED BY <1>5, <2>1 DEF PinsLive
<1>8. Pairs(new, on, au)
  <2> SUFFICES ASSUME NEW i \in 1 .. Len(new), NEW j \in 1 .. Len(new), i < j
               PROVE  Pair(new[i], new[j], on, au)
    BY DEF Pairs
  <2>1. i \in 1 .. n
    BY <1>2, <1>3, <1>5
  <2>2. ASSUME NEW z \in Things, Kills(new[i], z, on, au) PROVE z \notin Pins(new[j])
    <3>1. z = new[i].b /\ z \in au
      BY <1>4, <2>1, <2>2 DEF Kills
    <3>2. CASE j \in 1 .. n
      <4>1. <<new[i].a, new[i].b>> # <<new[j].a, new[j].b>>
        BY <1>2, <1>3, <2>1, <3>2 DEF Walks, n
      <4>2. z # new[j].b
        <5>1. <<new[i].a, new[i].b>> \in M /\ <<new[j].a, new[j].b>> \in M
          BY <1>4, <2>1, <3>2
        <5> QED BY <3>1, <4>1, <5>1
      <4>3. z # new[j].a
        BY <1>4, <2>1, <3>1, <3>2, ThingsAssumption
      <4> QED BY <1>4, <3>2, <4>2, <4>3 DEF Pins
    <3>3. CASE new[j] = x
      BY <1>4, <2>1, <3>1, <3>3
    <3> QED BY <1>5, <3>2, <3>3
  <2>3. new[j].op \in {"left", "rmchan_fire", "deluser_fire"}
    BY <1>4, <1>5
  <2> QED BY <1>4, <2>1, <2>2, <2>3 DEF Pair, Joins, Deletes, IsOver
<1>9. ASSUME NEW i \in 1 .. Len(new) PROVE Fit(new[i], r, on, au)
  <2>1. CASE i \in 1 .. n
    <3> DEFINE y == Do("left", new[i].a, new[i].b)
    <3>1. Fit(y, r, on, au)
      BY <1>4, <2>1
    <3>2. y.op = new[i].op /\ y.a = new[i].a /\ y.b = new[i].b
      <4>1. y.op = "left" /\ y.a = new[i].a /\ y.b = new[i].b
        BY Fields
      <4> QED BY <1>4, <2>1, <4>1
    <3> HIDE DEF y
    <3>3. ASSUME NEW w, Pair(y, w, on, au) PROVE Pair(new[i], w, on, au)
      BY <1>4, <2>1, <3>2, <3>3 DEF Pair, Kills, Joins, Deletes, Leaves
    <3> QED BY <1>4, <2>1, <3>1, <3>3 DEF Fit, Joins
  <2>2. CASE new[i] = x
    BY <2>2
  <2> QED BY <1>5, <2>1, <2>2
<1>10. ASSUME NEW u, NEW c, <<u, c>> \in M PROVE Leaving(new, n + 1, u, c)
  <2>1. PICK i \in 1 .. n : walk[i].a = u /\ walk[i].b = c
    BY <1>10 DEF Walks, n
  <2>2. i \in 1 .. Len(new) /\ i < n + 1
    BY <1>2, <1>3
  <2> QED BY <1>3, <1>4, <2>1, <2>2 DEF Leaving, Leaves
<1>11. \A k : ~Inside(new, n + 1, k)
  BY <1>2, <1>3 DEF Inside
<1>12. EmptiedBlock(new, fire, on, h)
  <2>1. ~Leaves(h)
    BY DEF Leaves
  <2>2. ASSUME NEW j \in 1 .. Len(new), new[j].op # "left" PROVE j = n + 1 /\ new[j] = x
    BY <1>4, <1>5, <2>2
  <2>3. ASSUME NEW j \in 1 .. Len(new), new[j].op = "rmchan_fire",
               NEW u \in Users, <<u, new[j].a>> \in on
        PROVE  Leaving(new, j, u, new[j].a)
    <3>1. j = n + 1 /\ new[j] = x
      BY <2>2, <2>3
    <3>2. <<u, new[j].a>> \in M
      BY <2>3, <3>1
    <3> QED BY <1>10, <3>1, <3>2
  <2>4. ASSUME NEW j \in 1 .. Len(new), new[j].op = "deluser_fire",
               NEW c \in Chans, <<new[j].a, c>> \in on
        PROVE  Leaving(new, j, new[j].a, c)
    <3>1. j = n + 1 /\ new[j] = x
      BY <2>2, <2>4
    <3>2. <<new[j].a, c>> \in M
      BY <2>4, <3>1
    <3> QED BY <1>10, <3>1, <3>2
  <2> QED BY <2>1, <2>3, <2>4 DEF EmptiedBlock
<1>13. UnboundBlock(new, fire, priv, roots, h)
  <2>1. ASSUME NEW j \in 1 .. Len(new), new[j].op # "left" PROVE j = n + 1 /\ new[j] = x
    BY <1>4, <1>5, <2>1
  <2>2. ASSUME NEW j \in 1 .. Len(new), Removes(new[j]), Inside(new, j, "rmchan") \/ "rmchan" \in fire
        PROVE  Loose(new[j].a, priv, roots)
    <3>1. j = n + 1 /\ new[j] = x
      BY <2>1, <2>2 DEF Removes
    <3> QED BY <1>11, <2>2, <3>1 DEF Removes
  <2>3. ASSUME NEW j \in 1 .. Len(new), Deletes(new[j]), Inside(new, j, "deluser") \/ "deluser" \in fire
        PROVE  Loose(new[j].a, priv, roots)
    <3>1. j = n + 1 /\ new[j] = x
      BY <2>1, <2>3 DEF Deletes
    <3> QED BY <1>11, <2>3, <3>1 DEF Deletes
  <2> QED BY <2>2, <2>3 DEF UnboundBlock
<1>14. BlockOk(new, r, fire, fire, state, on, au, priv, roots, h)
  BY <1>3, <1>6, <1>7, <1>8, <1>9, <1>12, <1>13 DEF BlockOk
<1> QED BY <1>14 DEF new

(* What keeps the stack under h in order when flags, pointers and lives    *)
(* change: fewer channels destroy themselves, what is needed lives, what   *)
(* is loose stays so.                                                       *)
LEMMA BaseMoves ==
  ASSUME NEW r, NEW f, NEW st, NEW o, NEW au, NEW pr, NEW ro, NEW h,
         BaseOk(r, f, st, o, au, pr, ro, h),
         NEW st2, NEW au2, NEW pr2, NEW ro2, au2 \subseteq au,
         \A i \in 1 .. Len(r) : \A x \in Things :
           x \in Pins(r[i]) /\ st[x] = "live" => st2[x] = "live",
         \A i \in 1 .. Len(r) : (Removes(r[i]) \/ Deletes(r[i])) /\ Loose(r[i].a, pr, ro) =>
           Loose(r[i].a, pr2, ro2)
  PROVE  BaseOk(r, f, st2, o, au2, pr2, ro2, h)
<1>1. PinsLive(r, st2)
  BY DEF BaseOk, PinsLive
<1>2. Pairs(r, o, au2)
  BY DEF BaseOk, Pairs, Pair, Kills
<1>3. UnboundBut(r, pr2, ro2, h)
  BY DEF BaseOk, UnboundBut
<1> QED BY <1>1, <1>2, <1>3 DEF BaseOk

OnLive == \A u \in Users, c \in Chans : <<u, c>> \in on => Live(u) /\ Live(c)
OnOk   == on \subseteq Users \X Chans /\ IsFiniteSet(on) /\ OnLive

LEMMA RmchanStack ==
  ASSUME Stacked, OnOk, rmchan PROVE Stacked'
<1> DEFINE h == Head(todo)
           r == Tail(todo)
           au == DontDestroy(h.a)
           x == Do("rmchan_fire", h.a, NULL)
           M == on \cap (Users \X {h.a})
<1>1. /\ todo # << >> /\ h.op = "rmchan" /\ auto' = au
      /\ UNCHANGED <<state, on, priv, roots>>
  BY DEF rmchan, At, This, engine
<1>2. PICK walk \in Leavings(Users, {h.a}) : Run((walk \o <<x>>) \o r, fire)
  BY DEF rmchan, This, Continue
<1>3. UnderOk(h, r, fire, state, on, auto, priv, roots)
  BY <1>1, Under DEF Stacked
<1>4. h \in Task /\ h.a \in Chans
  BY <1>1, <1>3 DEF UnderOk, Task
<1>5. au \subseteq auto /\ \A u, c : <<u, c>> \in M => c = h.a /\ c \notin au
  BY DEF DontDestroy, Members
<1>6. x \in Task /\ x.op = "rmchan_fire" /\ x.a = h.a /\ x.b = NULL
  BY <1>4, Entries, Fields
<1>7. Walks(walk, M)
  BY LeavingsWalk DEF OnOk
<1>8. M \subseteq on /\ \A u \in Users : <<u, h.a>> \in on => <<u, h.a>> \in M
  OBVIOUS
<1>9. "rmchan" \in fire => Loose(h.a, priv, roots)
  BY <1>1, HeadFacts DEF Removes
<1>10. BaseOk(r, fire, state, on, auto, priv, roots, h)
  BY <1>1, <1>3, Replaced
<1> HIDE DEF au, x, M, h, r
<1>11. BaseOk(r, fire, state, on, au, priv, roots, h)
  BY <1>5, <1>10, BaseMoves
<1>12. Fit(x, r, on, au)
  <2>1. ASSUME NEW y, Pair(h, y, on, auto) PROVE Pair(x, y, on, au)
    BY <1>1, <1>6, <2>1 DEF Pair, Kills, Joins, Leaves, Deletes
  <2> QED BY <1>3, <1>6, <2>1 DEF UnderOk, Fit, Joins
<1>13. ASSUME NEW u, NEW c, <<u, c>> \in M PROVE Fit(Do("left", u, c), r, on, au)
  <2> DEFINE y == Do("left", u, c)
  <2>1. y.op = "left" /\ y.b = c
    BY Fields
  <2>2. c \notin au
    BY <1>5, <1>13
  <2> HIDE DEF y
  <2>3. Fit(y, r, on, au)
    BY <2>1, <2>2 DEF Fit, Pair, Kills, Joins, Leaves, Deletes
  <2> QED BY <2>3 DEF y
<1>14. \A z \in Things : z \in Pins(x) => state[z] = "live"
  BY <1>1, <1>3, <1>6, ThingsAssumption DEF UnderOk, Pins
<1>15. BlockOk(walk \o <<x>>, r, fire, fire, state, on, au, priv, roots, h)
  <2>1. \A u \in Users, c \in Chans : <<u, c>> \in on => state[u] = "live" /\ state[c] = "live"
    BY DEF OnOk, OnLive, Live
  <2>2. \A u, c, v, d : <<u, c>> \in M /\ <<v, d>> \in M /\ <<u, c>> # <<v, d>> /\ c \in au => c # d
    BY <1>5
  <2>3. \A u, c : <<u, c>> \in M /\ c \in au => c \notin Pins(x)
    BY <1>5
  <2>4. on \subseteq Users \X Chans
    BY DEF OnOk
  <2>5. x.op \in {"rmchan_fire", "deluser_fire"} /\ x.op # "deluser_fire"
    BY <1>6
  <2>6. h.op \notin {"left", "left_now", "rmchan_detach", "deluser_detach"}
    BY <1>1
  <2>7. x.op = "rmchan_fire" => /\ \A u \in Users : <<u, x.a>> \in on => <<u, x.a>> \in M
                                /\ "rmchan" \in fire => Loose(x.a, priv, roots)
    BY <1>6, <1>8, <1>9
  <2> QED BY <1>6, <1>7, <1>8, <1>12, <1>13, <1>14, <2>1, <2>2, <2>3, <2>4, <2>5, <2>6, <2>7, WalkBlock
<1>16. StackOk(todo', fire', state, on, au, priv, roots)
  BY <1>2, <1>11, <1>15, Runs
<1> QED BY <1>1, <1>16 DEF Stacked

LEMMA DeluserStack ==
  ASSUME Stacked, OnOk, deluser PROVE Stacked'
<1> DEFINE h == Head(todo)
           r == Tail(todo)
           x == Do("deluser_fire", h.a, NULL)
           M == on \cap ({h.a} \X Chans)
<1>1. /\ todo # << >> /\ h.op = "deluser"
      /\ UNCHANGED <<state, on, auto, priv, roots>>
  BY DEF deluser, At, This, engine, server
<1>2. PICK walk \in Leavings({h.a}, Chans) : Run((walk \o <<x>>) \o r, fire)
  BY DEF deluser, This, Continue
<1>3. UnderOk(h, r, fire, state, on, auto, priv, roots)
  BY <1>1, Under DEF Stacked
<1>4. h \in Task /\ h.a \in Users
  BY <1>1, <1>3 DEF UnderOk, Task
<1>5. \A u, c : <<u, c>> \in M => u = h.a /\ c \in Chans /\ <<h.a, c>> \in on
  OBVIOUS
<1>6. x \in Task /\ x.op = "deluser_fire" /\ x.a = h.a /\ x.b = NULL
  BY <1>4, Entries, Fields
<1>7. Walks(walk, M)
  BY LeavingsWalk DEF OnOk
<1>8. M \subseteq on /\ \A c \in Chans : <<h.a, c>> \in on => <<h.a, c>> \in M
  OBVIOUS
<1>9. "deluser" \in fire => Loose(h.a, priv, roots)
  BY <1>1, HeadFacts DEF Deletes
<1> HIDE DEF x, M, h, r
<1>12. Fit(x, r, on, auto)
  <2>1. ASSUME NEW y, Pair(h, y, on, auto) PROVE Pair(x, y, on, auto)
    BY <1>1, <1>6, <2>1 DEF Pair, Kills, Joins, Leaves, Deletes
  <2> QED BY <1>3, <1>6, <2>1 DEF UnderOk, Fit, Joins
<1>13. ASSUME NEW u, NEW c, <<u, c>> \in M PROVE Fit(Do("left", u, c), r, on, auto)
  <2> DEFINE y == Do("left", u, c)
  <2>1. y.op = "left" /\ y.b = c
    BY Fields
  <2>2. <<h.a, c>> \in on
    BY <1>5, <1>13
  <2> HIDE DEF y
  <2>3. ASSUME NEW z, Pair(h, z, on, auto) PROVE Pair(y, z, on, auto)
    BY <1>1, <2>1, <2>2, <2>3 DEF Pair, Kills, Joins, Leaves, Deletes
  <2>4. Fit(y, r, on, auto)
    BY <1>3, <2>1, <2>3 DEF UnderOk, Fit, Joins
  <2> QED BY <2>4 DEF y
<1>14. \A z \in Things : z \in Pins(x) => state[z] = "live"
  BY <1>1, <1>3, <1>6, ThingsAssumption DEF UnderOk, Pins
<1>15. BlockOk(walk \o <<x>>, r, fire, fire, state, on, auto, priv, roots, h)
  <2>1. \A u \in Users, c \in Chans : <<u, c>> \in on => state[u] = "live" /\ state[c] = "live"
    BY DEF OnOk, OnLive, Live
  <2>2. \A u, c, v, d : <<u, c>> \in M /\ <<v, d>> \in M /\ <<u, c>> # <<v, d>> /\ c \in auto => c # d
    <3> SUFFICES ASSUME NEW u, NEW c, NEW v, NEW d, <<u, c>> \in M, <<v, d>> \in M,
                        <<u, c>> # <<v, d>>
                 PROVE  c # d
      OBVIOUS
    <3>1. u = h.a /\ v = h.a
      BY <1>5
    <3> QED BY <3>1
  <2>3. \A u, c : <<u, c>> \in M /\ c \in auto => c \notin Pins(x)
    BY <1>4, <1>5, <1>6, ThingsAssumption DEF Pins, Things
  <2>4. on \subseteq Users \X Chans
    BY DEF OnOk
  <2>5. x.op \in {"rmchan_fire", "deluser_fire"} /\ x.op # "rmchan_fire"
    BY <1>6
  <2>6. h.op \notin {"left", "left_now", "rmchan_detach", "deluser_detach"}
    BY <1>1
  <2>7. x.op = "deluser_fire" => /\ \A c \in Chans : <<x.a, c>> \in on => <<x.a, c>> \in M
                                 /\ "deluser" \in fire => Loose(x.a, priv, roots)
    BY <1>6, <1>8, <1>9
  <2> QED BY <1>6, <1>7, <1>8, <1>12, <1>13, <1>14, <2>1, <2>2, <2>3, <2>4, <2>5, <2>6, <2>7, WalkBlock
<1>16. BaseOk(r, fire, state, on, auto, priv, roots, h)
  BY <1>1, <1>3, Replaced
<1>17. StackOk(todo', fire', state, on, auto, priv, roots)
  BY <1>2, <1>15, <1>16, Runs
<1> QED BY <1>1, <1>17 DEF Stacked

LEMMA RmchanFireStack ==
  ASSUME Stacked, RmchanFire PROVE Stacked'
<1> DEFINE h == Head(todo)
           r == Tail(todo)
           x1 == On("rmchan", h.a, NULL)
           x2 == Do("rmchan_detach", h.a, NULL)
           x3 == Do("rmchan", h.a, NULL)
           x4 == Over("rmchan")
           new == <<x1, x2, x3, x4>>
<1>1. /\ todo # << >> /\ h.op = "rmchan_fire" /\ "rmchan" \notin fire
      /\ Run(new \o r, fire \cup {"rmchan"})
      /\ UNCHANGED <<state, on, auto, priv, roots>>
  BY DEF RmchanFire, At, Fire, This, server, engine
<1>2. UnderOk(h, r, fire, state, on, auto, priv, roots)
  BY <1>1, Under DEF Stacked
<1>3. h \in Task /\ h.a \in Chans
  BY <1>1, <1>2 DEF UnderOk, Task
<1>4. x1 \in Task /\ x2 \in Task /\ x3 \in Task /\ x4 \in Task
  BY <1>3, Entries DEF Events, Kinds, Things
<1>5. /\ x1.op = "on" /\ x1.e = "rmchan"
      /\ x2.op = "rmchan_detach" /\ x2.a = h.a /\ x2.b = NULL
      /\ x3.op = "rmchan" /\ x3.a = h.a /\ x3.b = NULL
      /\ x4.op = "over" /\ x4.e = "rmchan"
  BY Fields
<1> HIDE DEF x1, x2, x3, x4
<1>6. /\ new \in Seq(Task) /\ Len(new) = 4
      /\ new[1] = x1 /\ new[2] = x2 /\ new[3] = x3 /\ new[4] = x4
  BY <1>4
<1> HIDE DEF new, h, r
<1>7. Fit(x3, r, on, auto)
  <2>1. ASSUME NEW y, Pair(h, y, on, auto) PROVE Pair(x3, y, on, auto)
    BY <1>1, <1>5, <2>1 DEF Pair, Kills, Joins, Leaves, Deletes
  <2> QED BY <1>2, <1>5, <2>1 DEF UnderOk, Fit, Joins
<1>8. Fit(x4, r, on, auto)
  BY <1>1, <1>2, OverFits DEF UnderOk, x4
<1>9. Still(x1) /\ Still(x2)
  BY <1>5 DEF Still
<1>10. Pairs(new, on, auto)
  <2>1. \A y : Pair(x1, y, on, auto) /\ Pair(x2, y, on, auto)
    BY <1>9, StillFits
  <2>2. Pair(x3, x4, on, auto)
    BY <1>5 DEF Pair, Kills, Joins, Leaves, Deletes, Pins, IsOver
  <2> QED BY <1>6, <2>1, <2>2 DEF Pairs
<1>11. PinsLive(new, state)
  <2>1. ASSUME NEW x \in Things, x \in Pins(x2) \cup Pins(x3) PROVE state[x] = "live"
    <3>1. x = h.a
      BY <1>5, <2>1, ThingsAssumption DEF Pins
    <3> QED BY <1>1, <1>2, <3>1 DEF UnderOk, Pins
  <2> QED BY <1>5, <1>6, <2>1 DEF PinsLive, Pins
<1>12. UnboundBlock(new, fire, priv, roots, h)
  <2>1. Ahead(new, 3, "rmchan_detach", h.a)
    BY <1>5, <1>6 DEF Ahead
  <2> QED BY <1>1, <1>5, <1>6, <2>1 DEF UnboundBlock, Removes, Deletes
<1>13. BlockOk(new, r, fire, fire \cup {"rmchan"}, state, on, auto, priv, roots, h)
  <2>1. Hooked(new) /\ NoMix(new)
    BY <1>5, <1>6 DEF Hooked, NoMix, Joins
  <2>2. EventsOk(new, fire, fire \cup {"rmchan"})
    BY <1>5, <1>6 DEF EventsOk, IsOver
  <2>3. EmptiedBlock(new, fire, on, h)
    BY <1>1, <1>5, <1>6 DEF EmptiedBlock, Leaves
  <2>4. \A i \in 1 .. Len(new) : Fit(new[i], r, on, auto)
    BY <1>6, <1>7, <1>8, <1>9, StillFits
  <2> QED BY <1>6, <1>10, <1>11, <1>12, <2>1, <2>2, <2>3, <2>4 DEF BlockOk
<1> QED BY <1>1, <1>13, Steps DEF h, r

LEMMA DeluserFireBlock ==
  ASSUME Stacked, todo # << >>, Head(todo).op = "deluser_fire", "deluser" \notin fire,
         NEW first \in Seq(Task), Len(first) <= 1,
         \A i \in 1 .. Len(first) : first[i].op = "on" /\ first[i].e # "connect"
  PROVE  BlockOk(first \o <<Do("deluser_detach", Head(todo).a, NULL),
                            Do("deluser", Head(todo).a, NULL), Over("deluser")>>,
                 Tail(todo), fire, fire \cup {"deluser"}, state, on, auto, priv, roots,
                 Head(todo))
<1> DEFINE h == Head(todo)
           r == Tail(todo)
           x2 == Do("deluser_detach", h.a, NULL)
           x3 == Do("deluser", h.a, NULL)
           x4 == Over("deluser")
           last == <<x2, x3, x4>>
           new == first \o last
           n == Len(first)
<1>1. h.op = "deluser_fire" /\ "deluser" \notin fire
  OBVIOUS
<1>2. UnderOk(h, r, fire, state, on, auto, priv, roots)
  BY Under DEF Stacked
<1>3. h \in Task /\ h.a \in Users
  BY <1>1, <1>2 DEF UnderOk, Task
<1>4. x2 \in Task /\ x3 \in Task /\ x4 \in Task
  BY <1>3, Entries DEF Events, Kinds, Things
<1>5. /\ x2.op = "deluser_detach" /\ x2.a = h.a /\ x2.b = NULL
      /\ x3.op = "deluser" /\ x3.a = h.a /\ x3.b = NULL
      /\ x4.op = "over" /\ x4.e = "deluser"
  BY Fields
<1> HIDE DEF x2, x3, x4
<1>6. /\ last \in Seq(Task) /\ Len(last) = 3
      /\ last[1] = x2 /\ last[2] = x3 /\ last[3] = x4
  BY <1>4
<1> HIDE DEF last, h, r
<1>7. /\ new \in Seq(Task) /\ n \in Nat /\ Len(new) = n + 3
      /\ \A i \in 1 .. n : new[i] = first[i]
      /\ new[n + 1] = x2 /\ new[n + 2] = x3 /\ new[n + 3] = x4
  <2>1. /\ new \in Seq(Task) /\ n \in Nat /\ Len(new) = n + Len(last)
        /\ \A i \in 1 .. n : new[i] = first[i]
    BY <1>6, OnTop
  <2>2. \A i \in 1 .. Len(last) : new[n + i] = last[i]
    BY <1>6, OnTop
  <2> HIDE DEF new, n
  <2> QED BY <1>6, <2>1, <2>2
<1> HIDE DEF new
<1>8. /\ \A i \in 1 .. n : new[i].op = "on" /\ new[i].e # "connect"
      /\ \A i \in 1 .. Len(new) : i \in 1 .. n \/ i = n + 1 \/ i = n + 2 \/ i = n + 3
  BY <1>7
<1> HIDE DEF n
<1>9. Fit(x3, r, on, auto)
  <2>1. ASSUME NEW y, Pair(h, y, on, auto) PROVE Pair(x3, y, on, auto)
    BY <1>1, <1>5, <2>1 DEF Pair, Kills, Joins, Leaves, Deletes
  <2> QED BY <1>2, <1>5, <2>1 DEF UnderOk, Fit, Joins
<1>10. Fit(x4, r, on, auto)
  BY <1>1, <1>2, OverFits DEF UnderOk, x4
<1>11. Still(x2) /\ \A i \in 1 .. n : Still(new[i])
  BY <1>5, <1>8 DEF Still
<1>12. Pair(x3, x4, on, auto)
  BY <1>5 DEF Pair, Kills, Joins, Leaves, Deletes, Pins, IsOver
<1>13. Pairs(new, on, auto)
  <2> SUFFICES ASSUME NEW i \in 1 .. Len(new), NEW j \in 1 .. Len(new), i < j
               PROVE  Pair(new[i], new[j], on, auto)
    BY DEF Pairs
  <2>1. CASE i \in 1 .. n \/ i = n + 1
    <3>1. Still(new[i])
      BY <1>7, <1>11, <2>1
    <3> QED BY <3>1, StillFits
  <2>2. CASE i = n + 2
    <3>1. j = n + 3
      BY <1>7, <2>2
    <3> QED BY <1>7, <1>12, <2>2, <3>1
  <2>3. i # n + 3
    BY <1>7
  <2> QED BY <1>8, <2>1, <2>2, <2>3
<1>14. PinsLive(new, state)
  <2>1. ASSUME NEW x \in Things, x \in Pins(x2) \cup Pins(x3) PROVE state[x] = "live"
    <3>1. x = h.a
      BY <1>5, <2>1, ThingsAssumption DEF Pins
    <3> QED BY <1>1, <1>2, <3>1 DEF UnderOk, Pins
  <2>2. Pins(x4) = {} /\ \A i \in 1 .. n : Pins(new[i]) = {}
    BY <1>5, <1>8 DEF Pins
  <2> QED BY <1>7, <1>8, <2>1, <2>2 DEF PinsLive
<1>15. UnboundBlock(new, fire, priv, roots, h)
  <2>1. Ahead(new, n + 2, "deluser_detach", h.a)
    BY <1>5, <1>7 DEF Ahead
  <2>2. ASSUME NEW j \in 1 .. Len(new), Removes(new[j]) \/ Deletes(new[j])
        PROVE  j = n + 2 /\ new[j] = x3 /\ ~Removes(new[j])
    BY <1>5, <1>7, <1>8, <2>2 DEF Removes, Deletes
  <2> QED BY <1>1, <1>5, <2>1, <2>2 DEF UnboundBlock
<1>16. \A j \in 1 .. Len(new) : new[j].op \in {"on", "deluser_detach", "deluser", "over"}
  BY <1>5, <1>7, <1>8
<1>17. \A i \in 1 .. Len(new) : Fit(new[i], r, on, auto)
  <2>1. \A i \in 1 .. n : Fit(new[i], r, on, auto)
    BY <1>11, StillFits
  <2>2. Fit(x2, r, on, auto)
    BY <1>11, StillFits
  <2> QED BY <1>7, <1>8, <1>9, <1>10, <2>1, <2>2
<1>18. BlockOk(new, r, fire, fire \cup {"deluser"}, state, on, auto, priv, roots, h)
  <2>1. NoMix(new)
    BY <1>16 DEF NoMix, Joins
  <2>2. Hooked(new)
    <3>1. ASSUME NEW i \in 1 .. Len(new), new[i].op = "on" PROVE new[i].e # "connect"
      BY <1>5, <1>7, <1>8, <3>1
    <3> QED BY <3>1 DEF Hooked
  <2>3. EventsOk(new, fire, fire \cup {"deluser"})
    <3>1. IsOver(new[n + 3], "deluser") /\ n + 3 \in 1 .. Len(new)
      BY <1>5, <1>7 DEF IsOver
    <3>2. ASSUME NEW i \in 1 .. Len(new), new[i].op = "over" PROVE new[i].e = "deluser"
      BY <1>5, <1>7, <1>8, <3>2
    <3> QED BY <3>1, <3>2 DEF EventsOk
  <2>4. EmptiedBlock(new, fire, on, h)
    BY <1>1, <1>16 DEF EmptiedBlock, Leaves
  <2> QED BY <1>7, <1>13, <1>14, <1>15, <1>17, <2>1, <2>2, <2>3, <2>4 DEF BlockOk
<1> QED BY <1>18 DEF h, r, new, last, x2, x3, x4

LEMMA DeluserFireStack ==
  ASSUME Stacked, DeluserFire PROVE Stacked'
<1> DEFINE h == Head(todo)
           r == Tail(todo)
           first == IF h.a \in istmp THEN << >> ELSE <<On("deluser", h.a, NULL)>>
           last == <<Do("deluser_detach", h.a, NULL), Do("deluser", h.a, NULL), Over("deluser")>>
<1>1. /\ todo # << >> /\ h.op = "deluser_fire" /\ "deluser" \notin fire
      /\ Run((first \o last) \o r, fire \cup {"deluser"})
      /\ UNCHANGED <<state, on, auto, priv, roots>>
  BY DEF DeluserFire, At, Fire, This, server, engine
<1>2. UnderOk(h, r, fire, state, on, auto, priv, roots)
  BY <1>1, Under DEF Stacked
<1>3. h \in Task /\ h.a \in Users
  BY <1>1, <1>2 DEF UnderOk, Task
<1>4. /\ first \in Seq(Task) /\ Len(first) <= 1
      /\ \A i \in 1 .. Len(first) : first[i].op = "on" /\ first[i].e # "connect"
  <2>1. CASE h.a \in istmp
    <3>1. << >> \in Seq(Task) /\ Len(<< >>) = 0
      BY EmptySeq
    <3> QED BY <2>1, <3>1
  <2>2. CASE h.a \notin istmp
    <3> DEFINE y == On("deluser", h.a, NULL)
    <3>1. y \in Task /\ y.op = "on" /\ y.e = "deluser"
      BY <1>3, Entries, Fields DEF Events, Things
    <3>2. first = <<y>>
      BY <2>2
    <3> HIDE DEF y
    <3> QED BY <3>1, <3>2
  <2> QED BY <2>1, <2>2
<1> HIDE DEF first
<1>5. BlockOk(first \o last, r, fire, fire \cup {"deluser"}, state, on, auto, priv, roots, h)
  BY <1>1, <1>4, DeluserFireBlock
<1> HIDE DEF last
<1> QED BY <1>1, <1>5, Steps

-----------------------------------------------------------------------------
(* The objects of scripts.                                                 *)

TInv ==
  /\ api \in Installs
  /\ state \in [Things -> {"none", "live", "gone"}]
  /\ istmp \subseteq Users /\ auto \subseteq Chans
  /\ name \in [Chans -> {Lower[n] : n \in Names} \cup {NULL}]
  /\ js \in [Objs -> {"none", "alive", "collected"}]
  /\ priv \in [Objs -> Things \cup {NULL}]
  /\ data \in [Things -> Objs \cup {NULL}]
  /\ roots \subseteq Users \cup Chans
  /\ held \subseteq Customs
  /\ calls \in 0 .. MaxCalls
  /\ heard \in [users : SUBSET Users, list : [Chans -> SUBSET Users]]
  /\ unheard \subseteq Things

(* An object leads to what it was made for, while that lives, or nowhere.   *)
PrivOk ==
  /\ \A t \in Users \cup Chans : priv[Obj(t)] # NULL => priv[Obj(t)] = t /\ Live(t)
  /\ \A t \in Things : priv[Pipe(t)] # NULL => priv[Pipe(t)] = t /\ Live(t)

(* The property of a user or channel that names its object.                 *)
Named(l, t) == \E e \in CellsOf(l) : e.key = "jsobj" /\ e.val = Obj(t)
ObjOk ==
  \A t \in Things : Live(t) =>
    data[t] = Pipe(t) /\ (t \notin Customs => Named(props[t], t))
RootsOk ==
  /\ \A t \in roots : Live(t)
  /\ \A t \in Users \cup Chans : Live(t) => t \in roots \/ Loose(t, priv, roots)

LEMMA ObjFacts ==
  /\ \A t \in Users \cup Chans : Obj(t) \in Objs
  /\ \A t \in Things : Pipe(t) \in Objs
  /\ \A t, v : Obj(t) # Pipe(v)
  /\ \A t, v : Obj(t) = Obj(v) => t = v
  /\ \A t, v : Pipe(t) = Pipe(v) => t = v
  /\ \A o \in Objs : (\E t \in Users \cup Chans : o = Obj(t)) \/ (\E t \in Things : o = Pipe(t))
BY DEF Obj, Pipe, Objs

LEMMA NamedIs ==
  ASSUME NEW l, OneEach(l), NEW t, Named(l, t)
  PROVE  get_property_val(l, "jsobj") = Obj(t)
<1>1. PICK e \in CellsOf(l) : e.key = "jsobj" /\ e.val = Obj(t)
  BY DEF Named
<1>2. get_property(l, "jsobj") = {f \in CellsOf(l) : f.key = "jsobj"}
  BY AtKey
<1>3. \A f \in CellsOf(l) : f.key = "jsobj" => f = e
  BY <1>1, AtKey
<1>4. get_property(l, "jsobj") = {e}
  BY <1>1, <1>2, <1>3
<1> QED BY <1>1, <1>4 DEF get_property_val

LEMMA DetachedIs ==
  ASSUME TInv, ObjOk, PropsOk(props, heap), NEW t \in Users \cup Chans, Live(t), Detached(t)
  PROVE  /\ priv' = [o \in Objs |-> IF o = Obj(t) \/ o = Pipe(t) THEN NULL ELSE priv[o]]
         /\ roots' = roots \ {t}
<1>1. t \in Things /\ t \notin Customs
  BY ThingsAssumption DEF Things
<1>2. OneEach(props[t])
  BY <1>1 DEF PropsOk, ListOk
<1>3. get_property_val(props[t], "jsobj") = Obj(t) /\ data[t] = Pipe(t)
  BY <1>1, <1>2, NamedIs DEF ObjOk
<1> QED BY <1>3 DEF Detached, TInv

LEMMA DetachStack ==
  ASSUME Stacked, TInv, ObjOk, PropsOk(props, heap), todo # << >>,
         Head(todo).op \in {"rmchan_detach", "deluser_detach"},
         Detached(This), Continue(<< >>), UNCHANGED <<state, on, auto>>
  PROVE  Stacked'
<1> DEFINE h == Head(todo)
           r == Tail(todo)
<1>1. UnderOk(h, r, fire, state, on, auto, priv, roots)
  BY Under DEF Stacked
<1>2. h \in Task /\ h.a \in Users \cup Chans /\ h.a \in Things /\ Live(h.a) /\ h.op # "over"
  BY <1>1 DEF UnderOk, Task, Pins, Live, Things
<1>3. /\ priv' = [o \in Objs |-> IF o = Obj(h.a) \/ o = Pipe(h.a) THEN NULL ELSE priv[o]]
      /\ roots' = roots \ {h.a}
  BY <1>2, DetachedIs DEF This
<1>4. Run(<< >> \o r, fire)
  BY DEF Continue
<1>5. h.op \in {"rmchan_detach", "deluser_detach"}
  OBVIOUS
<1> HIDE DEF h, r
<1>6. Loose(h.a, priv', roots')
  BY <1>2, <1>3, ObjFacts DEF Loose
<1>7. ASSUME NEW t \in Users \cup Chans, Loose(t, priv, roots) PROVE Loose(t, priv', roots')
  <2>1. t \in Things /\ Obj(t) \in Objs /\ Pipe(t) \in Objs
    BY ObjFacts DEF Things
  <2> QED BY <1>3, <1>7, <2>1 DEF Loose
<1>8. BaseOk(r, fire, state, on, auto, priv, roots, h)
  BY <1>1, <1>2, Replaced
<1>9. ASSUME NEW i \in 1 .. Len(r), Removes(r[i]) \/ Deletes(r[i]), Loose(r[i].a, priv, roots)
      PROVE  Loose(r[i].a, priv', roots')
  <2>1. r[i] \in Task
    BY <1>1, ElementOfSeq DEF UnderOk
  <2>2. r[i].a \in Users \cup Chans
    BY <1>9, <2>1 DEF Task, Removes, Deletes
  <2> QED BY <1>7, <1>9, <2>2
<1> DEFINE pr == priv'
           ro == roots'
<1> HIDE DEF pr, ro
<1>10. \A i \in 1 .. Len(r) : (Removes(r[i]) \/ Deletes(r[i])) /\ Loose(r[i].a, priv, roots) =>
           Loose(r[i].a, pr, ro)
  BY <1>9 DEF pr, ro
<1>11. BaseOk(r, fire, state, on, auto, pr, ro, h)
  BY <1>8, <1>10, BaseMoves
<1>12. BlockOk(<< >>, r, fire, fire, state, on, auto, pr, ro, h)
  BY <1>5, <1>6, NoEntry DEF pr, ro, Leaves
<1>13. StackOk(todo', fire', state, on, auto, pr, ro)
  BY <1>4, <1>11, <1>12, Runs
<1> QED BY <1>13 DEF Stacked, pr, ro

LEMMA EndStack ==
  ASSUME Stacked, state \in [Things -> {"none", "live", "gone"}], todo # << >>,
         Head(todo).op \in {"rmchan_fire", "deluser_fire"},
         state' = [state EXCEPT ![This] = "gone"], auto' \subseteq auto,
         Continue(<< >>), UNCHANGED <<on, priv, roots>>
  PROVE  Stacked'
<1> DEFINE h == Head(todo)
           r == Tail(todo)
<1>1. UnderOk(h, r, fire, state, on, auto, priv, roots)
  BY Under DEF Stacked
<1>2. h \in Task /\ h.a \in Things /\ h.op # "over"
  BY <1>1 DEF UnderOk, Task, Things
<1>3. state' = [state EXCEPT ![h.a] = "gone"] /\ Run(<< >> \o r, fire)
  BY DEF This, Continue
<1>4. h.op \in {"rmchan_fire", "deluser_fire"}
  OBVIOUS
<1> HIDE DEF h, r
<1>5. ASSUME NEW i \in 1 .. Len(r) PROVE h.a \notin Pins(r[i])
  <2>1. Pair(h, r[i], on, auto)
    BY <1>1 DEF UnderOk, Fit
  <2>2. Kills(h, h.a, on, auto)
    BY <1>4 DEF Kills
  <2> QED BY <1>2, <2>1, <2>2 DEF Pair
<1>6. BaseOk(r, fire, state, on, auto, priv, roots, h)
  BY <1>1, <1>2, Replaced
<1> DEFINE st == state'
           au == auto'
<1>7. au \subseteq auto /\ st = [state EXCEPT ![h.a] = "gone"]
  BY <1>3
<1> HIDE DEF st, au
<1>8. \A i \in 1 .. Len(r) : \A x \in Things : x \in Pins(r[i]) /\ state[x] = "live" => st[x] = "live"
  BY <1>5, <1>7
<1>9. BaseOk(r, fire, st, on, au, priv, roots, h)
  <2>1. au \subseteq auto
    BY <1>7
  <2> QED BY <1>6, <1>8, <2>1, BaseMoves
<1>10. BlockOk(<< >>, r, fire, fire, st, on, au, priv, roots, h)
  BY <1>4, NoEntry DEF Leaves
<1>11. StackOk(todo', fire', st, on, au, priv, roots)
  BY <1>3, <1>9, <1>10, Runs
<1> QED BY <1>11 DEF Stacked, st, au

LEMMA DroppedStack ==
  ASSUME Stacked, todo # << >>,
         Head(todo).op \in {"on", "adduser"}, Continue(<< >>),
         UNCHANGED <<state, on, auto, priv, roots>>
  PROVE  Stacked'
<1>1. BlockOk(<< >>, Tail(todo), fire, fire, state, on, auto, priv, roots, Head(todo))
  BY NoEntry DEF Leaves
<1> QED BY <1>1, Steps DEF Continue

LEMMA AdduserStack ==
  ASSUME Stacked, adduser PROVE Stacked'
<1> DEFINE h == Head(todo)
           r == Tail(todo)
           x1 == On("adduser", h.a, NULL)
           x2 == Over("adduser")
           new == <<x1, x2>>
<1>1. /\ todo # << >> /\ h.op = "adduser"
      /\ UNCHANGED <<state, on, auto, priv, roots>>
  BY DEF adduser, At, engine
<1>2. UnderOk(h, r, fire, state, on, auto, priv, roots)
  BY <1>1, Under DEF Stacked
<1>3. h \in Task /\ h.a \in Users
  BY <1>1, <1>2 DEF UnderOk, Task
<1>4. CASE Continue(<< >>)
  BY <1>1, <1>4, DroppedStack
<1>5. CASE "adduser" \notin fire /\ Run(new \o r, fire \cup {"adduser"})
  <2>1. x1 \in Task /\ x2 \in Task
    BY <1>3, Entries DEF Events, Kinds, Things
  <2>2. x1.op = "on" /\ x1.e = "adduser" /\ x2.op = "over" /\ x2.e = "adduser"
    BY Fields
  <2> HIDE DEF x1, x2
  <2>3. new \in Seq(Task) /\ Len(new) = 2 /\ new[1] = x1 /\ new[2] = x2
    BY <2>1
  <2> HIDE DEF new, h, r
  <2>4. Fit(x2, r, on, auto)
    BY <1>1, <1>2, <1>5, OverFits DEF UnderOk, x2
  <2>5. Still(x1)
    BY <2>2 DEF Still
  <2>6. Fit(x1, r, on, auto) /\ Pair(x1, x2, on, auto)
    BY <2>5, StillFits
  <2>7. Pairs(new, on, auto) /\ PinsLive(new, state) /\ Hooked(new) /\ NoMix(new)
    BY <2>2, <2>3, <2>6 DEF Pairs, PinsLive, Pins, Hooked, NoMix, Joins
  <2>8. EventsOk(new, fire, fire \cup {"adduser"})
    BY <2>2, <2>3 DEF EventsOk, IsOver
  <2>9. EmptiedBlock(new, fire, on, h) /\ UnboundBlock(new, fire, priv, roots, h)
    BY <1>1, <2>2, <2>3 DEF EmptiedBlock, UnboundBlock, Leaves, Removes, Deletes
  <2>10. \A i \in 1 .. Len(new) : Fit(new[i], r, on, auto)
    BY <2>3, <2>4, <2>6
  <2>11. BlockOk(new, r, fire, fire \cup {"adduser"}, state, on, auto, priv, roots, h)
    BY <2>3, <2>7, <2>8, <2>9, <2>10 DEF BlockOk
  <2> QED BY <1>1, <1>5, <2>11, Steps DEF h, r
<1> QED BY <1>4, <1>5 DEF adduser, Fire, This

LEMMA RefuseStack ==
  ASSUME Stacked, Refuse PROVE Stacked'
<1> DEFINE r == Tail(todo)
           q == Tail(r)
<1>1. /\ todo # << >> /\ Head(todo).op = "on" /\ Head(todo).e = "connect"
      /\ Run(SubSeq(todo, 3, Len(todo)), fire)
      /\ UNCHANGED <<state, on, auto, priv, roots>>
  BY DEF Refuse, At, server, engine
<1>2. /\ UnderOk(Head(todo), r, fire, state, on, auto, priv, roots)
      /\ Head(todo) = todo[1] /\ Len(todo) = Len(r) + 1 /\ Len(todo) \in Nat
      /\ \A i \in 1 .. Len(r) : r[i] = todo[i + 1]
  BY <1>1, Under DEF Stacked
<1>3. r \in Seq(Task) /\ Len(r) \in Nat /\ todo \in Seq(Task)
  BY <1>2 DEF UnderOk, Stacked, StackOk
<1>4. BaseOk(r, fire, state, on, auto, priv, roots, Head(todo))
  BY <1>1, <1>2, Replaced
<1>5. BlockOk(<< >>, r, fire, fire, state, on, auto, priv, roots, Head(todo))
  BY <1>1, NoEntry DEF Leaves
<1> HIDE DEF r
<1>6. StackOk(<< >> \o r, fire, state, on, auto, priv, roots)
  BY <1>4, <1>5, Pushed
<1>7. << >> \o r = r
  BY <1>3, ConcatEmptySeq
<1>8. StackOk(r, fire, state, on, auto, priv, roots)
  BY <1>6, <1>7
<1>9. 1 < Len(todo) /\ todo[2].op = "adduser"
  <2>1. 1 \in 1 .. Len(todo) /\ todo[1].op = "on" /\ todo[1].e = "connect"
    BY <1>1, <1>2, <1>3
  <2>2. 1 < Len(todo) /\ todo[1 + 1].op = "adduser"
    BY <2>1 DEF Stacked, StackOk, Hooked
  <2> QED BY <2>2
<1>10. r # << >>
  BY <1>2, <1>3, <1>9
<1>11. /\ UnderOk(Head(r), q, fire, state, on, auto, priv, roots)
       /\ Head(r) = r[1] /\ Len(r) = Len(q) + 1
       /\ \A i \in 1 .. Len(q) : q[i] = r[i + 1]
  BY <1>8, <1>10, Under
<1>12. Head(r).op = "adduser"
  <2>1. 1 \in 1 .. Len(r)
    BY <1>2, <1>3, <1>9
  <2> QED BY <1>2, <1>9, <1>11, <2>1
<1>13. BaseOk(q, fire, state, on, auto, priv, roots, Head(r))
  BY <1>11, <1>12, Replaced
<1>14. BlockOk(<< >>, q, fire, fire, state, on, auto, priv, roots, Head(r))
  BY <1>12, NoEntry DEF Leaves
<1>15. q \in Seq(Task) /\ Len(q) \in Nat
  BY <1>11 DEF UnderOk
<1> HIDE DEF q
<1>16. SubSeq(todo, 3, Len(todo)) = q
  <2> DEFINE z == SubSeq(todo, 3, Len(todo))
  <2>1. Len(todo) = Len(q) + 2
    BY <1>2, <1>3, <1>11, <1>15
  <2>2. \A i \in 3 .. Len(todo) : todo[i] \in Task
    BY <1>2, <1>3, ElementOfSeq
  <2>3. /\ z \in Seq(Task) /\ Len(z) = Len(q)
        /\ \A i \in 1 .. Len(q) : z[i] = todo[3 + i - 1]
    <3>1. /\ z \in Seq(Task)
          /\ Len(z) = IF 3 <= Len(todo) THEN Len(todo) - 3 + 1 ELSE 0
          /\ \A i \in 1 .. Len(todo) - 3 + 1 : z[i] = todo[3 + i - 1]
      BY <1>2, <2>2, SubSeqProperties
    <3> HIDE DEF z
    <3> QED BY <1>15, <2>1, <3>1
  <2>4. ASSUME NEW i \in 1 .. Len(q) PROVE z[i] = q[i]
    <3>1. z[i] = todo[(i + 1) + 1]
      BY <1>15, <2>3
    <3>2. i + 1 \in 1 .. Len(r)
      BY <1>11, <1>15
    <3>3. q[i] = r[i + 1] /\ r[i + 1] = todo[(i + 1) + 1]
      BY <1>2, <1>11, <3>2
    <3> QED BY <3>1, <3>3
  <2> HIDE DEF z
  <2>5. z = q
    BY <1>15, <2>3, <2>4, SeqEqual
  <2> QED BY <2>5 DEF z
<1>17. << >> \o q = q
  BY <1>15, ConcatEmptySeq
<1>18. StackOk(todo', fire', state, on, auto, priv, roots)
  BY <1>1, <1>13, <1>14, <1>16, <1>17, Runs
<1> QED BY <1>1, <1>18 DEF Stacked

-----------------------------------------------------------------------------
(* Calls from outside put their work on top of what is there.              *)

LEMMA StackMoves ==
  ASSUME NEW r, NEW f, NEW st, NEW o, NEW au, NEW pr, NEW ro,
         StackOk(r, f, st, o, au, pr, ro),
         NEW st2, NEW au2, NEW pr2, NEW ro2, au2 \subseteq au,
         \A i \in 1 .. Len(r) : \A x \in Things :
           x \in Pins(r[i]) /\ st[x] = "live" => st2[x] = "live",
         \A i \in 1 .. Len(r) : (Removes(r[i]) \/ Deletes(r[i])) /\ Loose(r[i].a, pr, ro) =>
           Loose(r[i].a, pr2, ro2)
  PROVE  StackOk(r, f, st2, o, au2, pr2, ro2)
<1>1. PinsLive(r, st2)
  BY DEF StackOk, PinsLive
<1>2. Pairs(r, o, au2)
  BY DEF StackOk, Pairs, Pair, Kills
<1>3. Unbound(r, pr2, ro2)
  BY DEF StackOk, Unbound
<1> QED BY <1>1, <1>2, <1>3 DEF StackOk

(* One more entry, which is no second run that has begun.                   *)
LEMMA PushOne ==
  ASSUME NEW s, NEW f, NEW st, NEW o, NEW au, NEW pr, NEW ro,
         StackOk(s, f, st, o, au, pr, ro),
         NEW x \in Task, Fit(x, s, o, au),
         \A z \in Things : z \in Pins(x) => st[z] = "live",
         x.op \notin {"over", "rmchan_fire", "deluser_fire"},
         x.op = "on" => x.e # "connect",
         Removes(x) => "rmchan" \notin f, Deletes(x) => "deluser" \notin f
  PROVE  StackOk(<<x>> \o s, f, st, o, au, pr, ro)
<1> DEFINE new == <<x>>
<1>1. new \in Seq(Task) /\ Len(new) = 1 /\ new[1] = x
  OBVIOUS
<1> HIDE DEF new
<1>2. Hooked(new) /\ EventsOk(new, f, f) /\ PinsLive(new, st) /\ Pairs(new, o, au) /\ NoMix(new)
  BY <1>1 DEF Hooked, EventsOk, PinsLive, Pairs, NoMix
<1>3. EmptiedBlock(new, f, o, Nothing)
  BY <1>1, NothingIs DEF EmptiedBlock
<1>4. UnboundBlock(new, f, pr, ro, Nothing)
  BY <1>1, NothingIs DEF UnboundBlock, Inside
<1>5. BlockOk(new, s, f, f, st, o, au, pr, ro, Nothing)
  BY <1>1, <1>2, <1>3, <1>4 DEF BlockOk
<1>6. BaseOk(s, f, st, o, au, pr, ro, Nothing)
  BY Kept
<1>7. StackOk(new \o s, f, st, o, au, pr, ro)
  BY <1>5, <1>6, Pushed
<1> QED BY <1>7 DEF new

LEMMA PushOver ==
  ASSUME NEW s, NEW f, NEW st, NEW o, NEW au, NEW pr, NEW ro,
         StackOk(s, f, st, o, au, pr, ro), NEW k \in Kinds, k \notin f
  PROVE  StackOk(<<Over(k)>> \o s, f \cup {k}, st, o, au, pr, ro)
<1> DEFINE x == Over(k)
           new == <<x>>
<1>0. x \in Task /\ x.op = "over" /\ x.e = k
  BY Entries, Fields
<1>1. Fit(x, s, o, au)
  BY OverFits DEF StackOk
<1> HIDE DEF x
<1>2. new \in Seq(Task) /\ Len(new) = 1 /\ new[1] = x
  BY <1>0
<1> HIDE DEF new
<1>3. Hooked(new) /\ PinsLive(new, st) /\ Pairs(new, o, au) /\ NoMix(new)
  BY <1>0, <1>2 DEF Hooked, PinsLive, Pins, Pairs, NoMix
<1>4. EventsOk(new, f, f \cup {k})
  BY <1>0, <1>2 DEF EventsOk, IsOver
<1>5. EmptiedBlock(new, f, o, Nothing)
  BY <1>0, <1>2, NothingIs DEF EmptiedBlock
<1>6. UnboundBlock(new, f, pr, ro, Nothing)
  BY <1>0, <1>2, NothingIs DEF UnboundBlock, Removes, Deletes
<1>7. BlockOk(new, s, f, f \cup {k}, st, o, au, pr, ro, Nothing)
  BY <1>1, <1>2, <1>3, <1>4, <1>5, <1>6 DEF BlockOk
<1>8. BaseOk(s, f, st, o, au, pr, ro, Nothing)
  BY Kept
<1>9. StackOk(new \o s, f \cup {k}, st, o, au, pr, ro)
  BY <1>7, <1>8, Pushed
<1> QED BY <1>9 DEF new, x

(* The rest of the caller, which only has to return.                        *)
LEMMA PushDone ==
  ASSUME NEW s, NEW f, NEW st, NEW o, NEW au, NEW pr, NEW ro,
         StackOk(s, f, st, o, au, pr, ro), NEW t \in Users \cup Chans, st[t] = "live"
  PROVE  StackOk(<<Do("done", t, NULL)>> \o s, f, st, o, au, pr, ro)
<1> DEFINE x == Do("done", t, NULL)
<1>1. x \in Task /\ x.op = "done" /\ x.a = t /\ x.b = NULL
  BY Entries, Fields
<1> HIDE DEF x
<1>2. Still(x)
  BY <1>1 DEF Still
<1>3. Fit(x, s, o, au)
  BY <1>2, StillFits
<1>4. \A z \in Things : z \in Pins(x) => st[z] = "live"
  BY <1>1, ThingsAssumption DEF Pins
<1>5. StackOk(<<x>> \o s, f, st, o, au, pr, ro)
  BY <1>1, <1>3, <1>4, PushOne DEF Removes, Deletes
<1> QED BY <1>5 DEF x

(* A script function is called.                                             *)
LEMMA PushOn ==
  ASSUME NEW s, NEW f, NEW st, NEW o, NEW au, NEW pr, NEW ro,
         StackOk(s, f, st, o, au, pr, ro), NEW e \in Events, e # "connect",
         NEW a \in Things \cup {NULL}, NEW b \in Things \cup {NULL}
  PROVE  StackOk(<<On(e, a, b)>> \o s, f, st, o, au, pr, ro)
<1> DEFINE x == On(e, a, b)
<1>1. x \in Task /\ x.op = "on" /\ x.e = e
  BY Entries, Fields
<1> HIDE DEF x
<1>2. Still(x)
  BY <1>1 DEF Still
<1>3. Fit(x, s, o, au)
  BY <1>2, StillFits
<1>4. \A z \in Things : z \in Pins(x) => st[z] = "live"
  BY <1>1 DEF Pins
<1>5. StackOk(<<x>> \o s, f, st, o, au, pr, ro)
  BY <1>1, <1>3, <1>4, PushOne DEF Removes, Deletes
<1> QED BY <1>5 DEF x

(* What fits a stack fits it with the rest of the caller on top.            *)
LEMMA FitsDone ==
  ASSUME NEW x, NEW s \in Seq(Task), NEW o, NEW au, Fit(x, s, o, au),
         NEW t \in Users \cup Chans, ~Kills(x, t, o, au)
  PROVE  Fit(x, <<Do("done", t, NULL)>> \o s, o, au)
<1> DEFINE d == Do("done", t, NULL)
           new == <<d>>
           z == new \o s
<1>1. d \in Task /\ d.op = "done" /\ d.a = t /\ d.b = NULL
  BY Entries, Fields
<1> HIDE DEF d
<1>2. new \in Seq(Task) /\ Len(new) = 1 /\ new[1] = d
  BY <1>1
<1> HIDE DEF new
<1>3. /\ z \in Seq(Task) /\ Len(s) \in Nat /\ Len(z) = 1 + Len(s) /\ z[1] = d
      /\ \A i \in 1 .. Len(s) : z[1 + i] = s[i]
  <2>1. /\ z \in Seq(Task) /\ Len(s) \in Nat /\ Len(z) = Len(new) + Len(s)
        /\ \A i \in 1 .. Len(new) : z[i] = new[i]
        /\ \A i \in 1 .. Len(s) : z[Len(new) + i] = s[i]
    BY <1>2, OnTop
  <2> HIDE DEF z
  <2> QED BY <1>2, <2>1
<1> HIDE DEF z
<1>4. \A i \in 1 .. Len(z) : i = 1 \/ (i - 1 \in 1 .. Len(s) /\ z[i] = s[i - 1])
  BY <1>3
<1>5. Pair(x, d, o, au)
  BY <1>1, ThingsAssumption DEF Pair, Pins, IsOver, Deletes
<1>6. \A y : Triple(x, d, y)
  BY <1>1 DEF Triple, Deletes
<1>7. \A i \in 1 .. Len(z) : Pair(x, z[i], o, au)
  BY <1>3, <1>4, <1>5 DEF Fit
<1>8. ASSUME Joins(x), NEW i \in 1 .. Len(z), NEW j \in 1 .. Len(z), i < j
      PROVE  Triple(x, z[i], z[j])
  <2>1. CASE i = 1
    BY <1>3, <1>6, <2>1
  <2>2. CASE i # 1
    <3>1. i - 1 \in 1 .. Len(s) /\ z[i] = s[i - 1] /\ j - 1 \in 1 .. Len(s) /\ z[j] = s[j - 1]
      BY <1>3, <1>4, <1>8, <2>2
    <3>2. i - 1 < j - 1
      BY <1>3, <1>8
    <3> QED BY <1>8, <3>1, <3>2 DEF Fit
  <2> QED BY <2>1, <2>2
<1>9. Fit(x, z, o, au)
  BY <1>7, <1>8 DEF Fit
<1> QED BY <1>9 DEF z, new, d

LEMMA OneByOne ==
  ASSUME NEW a \in Task, NEW b \in Task, NEW r \in Seq(Task)
  PROVE  <<a, b>> \o r = <<a>> \o (<<b>> \o r)
<1> DEFINE A == <<a>>
           B == <<b>>
           C == <<a, b>>
<1>1. A \in Seq(Task) /\ Len(A) = 1 /\ A[1] = a
  OBVIOUS
<1>2. B \in Seq(Task) /\ Len(B) = 1 /\ B[1] = b
  OBVIOUS
<1>3. C \in Seq(Task) /\ Len(C) = 2 /\ C[1] = a /\ C[2] = b
  OBVIOUS
<1> HIDE DEF A, B, C
<1>4. /\ A \o B \in Seq(Task) /\ Len(A \o B) = Len(A) + Len(B)
      /\ \A i \in 1 .. Len(A) : (A \o B)[i] = A[i]
      /\ \A i \in 1 .. Len(B) : (A \o B)[Len(A) + i] = B[i]
  BY <1>1, <1>2, OnTop
<1>5. A \o B = C
  <2> DEFINE D == A \o B
  <2>1. D \in Seq(Task) /\ Len(D) = 2 /\ D[1] = a /\ D[1 + 1] = b
    BY <1>1, <1>2, <1>4
  <2> HIDE DEF D
  <2>2. Len(D) = Len(C) /\ \A i \in 1 .. Len(D) : D[i] = C[i]
    BY <1>3, <2>1
  <2>3. D = C
    BY <1>3, <2>1, <2>2, SeqEqual
  <2> QED BY <2>3 DEF D
<1>6. (A \o B) \o r = A \o (B \o r)
  BY <1>1, <1>2, ConcatAssociative
<1> QED BY <1>5, <1>6 DEF A, B, C

(* While nothing is under way everything fits.                              *)
LEMMA IdleStack ==
  ASSUME Stacked, Idle
  PROVE  /\ todo = << >> /\ fire = {}
         /\ \A st, o, au, pr, ro : StackOk(<< >>, {}, st, o, au, pr, ro)
         /\ \A x, o, au : Fit(x, << >>, o, au)
<1>1. todo = << >> /\ Len(<< >>) = 0 /\ << >> \in Seq(Task)
  BY EmptySeq DEF Idle
<1>2. fire = {}
  BY <1>1 DEF Stacked, StackOk, Firing
<1>3. ASSUME NEW st, NEW o, NEW au, NEW pr, NEW ro
      PROVE  StackOk(<< >>, {}, st, o, au, pr, ro)
  BY <1>1 DEF StackOk, Hooked, Firing, PinsLive, Pairs, Triples, Emptied, Unbound
<1>4. \A x, o, au : Fit(x, << >>, o, au)
  BY <1>1 DEF Fit
<1> QED BY <1>1, <1>2, <1>3, <1>4

LEMMA CalledOne ==
  ASSUME Stacked, NEW x \in Task, Fit(x, todo, on, auto),
         \A z \in Things : z \in Pins(x) => Live(z),
         x.op \notin {"over", "rmchan_fire", "deluser_fire"},
         x.op = "on" => x.e # "connect",
         Removes(x) => "rmchan" \notin fire, Deletes(x) => "deluser" \notin fire,
         Called(<<x>>), UNCHANGED <<state, on, auto, priv, roots, fire>>
  PROVE  Stacked'
<1>1. StackOk(<<x>> \o todo, fire, state, on, auto, priv, roots)
  BY PushOne DEF Stacked, Live
<1> QED BY <1>1 DEF Called, Stacked

LEMMA CalledTwo ==
  ASSUME Stacked, NEW x \in Task, Fit(x, todo, on, auto),
         \A z \in Things : z \in Pins(x) => Live(z),
         x.op \notin {"over", "rmchan_fire", "deluser_fire"},
         x.op = "on" => x.e # "connect",
         Removes(x) => "rmchan" \notin fire, Deletes(x) => "deluser" \notin fire,
         NEW t \in Users \cup Chans, Live(t), ~Kills(x, t, on, auto),
         Called(<<x, Do("done", t, NULL)>>), UNCHANGED <<state, on, auto, priv, roots, fire>>
  PROVE  Stacked'
<1> DEFINE d == Do("done", t, NULL)
           s == <<d>> \o todo
<1>1. d \in Task /\ todo \in Seq(Task)
  BY Entries DEF Stacked, StackOk
<1>2. StackOk(s, fire, state, on, auto, priv, roots)
  BY PushDone DEF Stacked, Live
<1>3. Fit(x, s, on, auto)
  BY <1>1, FitsDone
<1>4. <<x, d>> \o todo = <<x>> \o s
  BY <1>1, OneByOne
<1> HIDE DEF s, d
<1>5. StackOk(<<x>> \o s, fire, state, on, auto, priv, roots)
  BY <1>2, <1>3, PushOne DEF Live
<1>6. todo' = <<x, d>> \o todo
  BY DEF Called, d
<1> QED BY <1>4, <1>5, <1>6 DEF Stacked

(* A channel that is found by its name is there.                            *)
FoundLive ==
  \A n \in Names : getchan(n) # NULL => getchan(n) \in Chans /\ Live(getchan(n))

LEMMA OutsideStack ==
  ASSUME Stacked, FoundLive, api \in Installs, on \subseteq Users \X Chans,
         \/ \E u \in Users : cmd_quit(u)
         \/ \E u, w \in Users : check_timeout(u, w)
         \/ Timer
         \/ \E u \in Users, p \in Customs : cmd_send(u, p)
         \/ \E u \in Users, n \in api.names : cmd_left(u, n)
         \/ \E u \in Users, n \in api.names : cmd_join(u, n) /\ getchan(n) # NULL
  PROVE  Stacked'
<1>0. Idle
  BY DEF cmd_quit, check_timeout, Timer, cmd_send, cmd_left, cmd_join
<1>1. /\ todo = << >> /\ fire = {}
      /\ \A x, o, au : Fit(x, todo, o, au)
  BY <1>0, IdleStack
<1>2. \A n \in api.names : n \in Names
  BY InstallsAssumption
<1>3. CASE \E u \in Users : cmd_quit(u)
  <2>1. PICK u \in Users : cmd_quit(u)
    BY <1>3
  <2> DEFINE x == Do("deluser", u, NULL)
  <2>2. x \in Task /\ x.op = "deluser" /\ x.a = u /\ x.b = NULL
    BY Entries, Fields
  <2>3. Called(<<x>>) /\ Live(u) /\ UNCHANGED <<state, on, auto, priv, roots, fire>>
    BY <2>1 DEF cmd_quit, server, engine
  <2> HIDE DEF x
  <2>4. \A z \in Things : z \in Pins(x) => Live(z)
    BY <2>2, <2>3, ThingsAssumption DEF Pins
  <2>5. Fit(x, todo, on, auto) /\ "deluser" \notin fire
    BY <1>1
  <2> QED BY <2>2, <2>3, <2>4, <2>5, CalledOne DEF Removes
<1>8. CASE \E u, w \in Users : check_timeout(u, w)
  <2>1. PICK u \in Users, w \in Users : check_timeout(u, w)
    BY <1>8
  <2> DEFINE x == Do("deluser", u, NULL)
  <2>2. x \in Task /\ x.op = "deluser" /\ x.a = u /\ x.b = NULL
    BY Entries, Fields
  <2>3. /\ Called(<<x, Do("done", w, NULL)>>) /\ Live(u) /\ Live(w) /\ u # w
        /\ UNCHANGED <<state, on, auto, priv, roots, fire>>
    BY <2>1 DEF check_timeout, server, engine
  <2> HIDE DEF x
  <2>4. \A z \in Things : z \in Pins(x) => Live(z)
    BY <2>2, <2>3, ThingsAssumption DEF Pins
  <2>5. Fit(x, todo, on, auto) /\ "deluser" \notin fire
    BY <1>1
  <2>6. ~Kills(x, w, on, auto)
    BY <2>2, <2>3, ThingsAssumption DEF Kills
  <2> QED BY <2>2, <2>3, <2>4, <2>5, <2>6, CalledTwo DEF Removes
<1>4. CASE Timer
  <2> DEFINE x == On("timer", NULL, NULL)
  <2>1. "timer" \in Events /\ NULL \in Things \cup {NULL}
    BY DEF Events
  <2>2. x \in Task /\ x.op = "on" /\ x.e = "timer"
    <3>1. x \in Task
      BY <2>1, Entries
    <3>2. x.op = "on" /\ x.e = "timer"
      BY Fields
    <3> QED BY <3>1, <3>2
  <2>3. Called(<<x>>) /\ UNCHANGED <<state, on, auto, priv, roots, fire>>
    BY <1>4 DEF Timer, server, engine
  <2> HIDE DEF x
  <2>4. \A z \in Things : z \in Pins(x) => Live(z)
    BY <2>2 DEF Pins
  <2>5. Fit(x, todo, on, auto)
    BY <1>1
  <2> QED BY <2>2, <2>3, <2>4, <2>5, CalledOne DEF Removes, Deletes
<1>5. CASE \E u \in Users, p \in Customs : cmd_send(u, p)
  <2>1. PICK u \in Users, p \in Customs : cmd_send(u, p)
    BY <1>5
  <2> DEFINE x == On("onSend", u, p)
  <2>2. x \in Task /\ x.op = "on" /\ x.e = "onSend"
    BY Entries, Fields DEF Events, Things
  <2>3. /\ Called(<<x, Do("done", u, NULL)>>) /\ Live(u)
        /\ UNCHANGED <<state, on, auto, priv, roots, fire>>
    BY <2>1 DEF cmd_send, server, engine
  <2> HIDE DEF x
  <2>4. \A z \in Things : z \in Pins(x) => Live(z)
    BY <2>2 DEF Pins
  <2>5. Fit(x, todo, on, auto)
    BY <1>1
  <2>6. ~Kills(x, u, on, auto)
    BY <2>2 DEF Kills
  <2> QED BY <2>2, <2>3, <2>4, <2>5, <2>6, CalledTwo DEF Removes, Deletes
<1>6. CASE \E u \in Users, n \in api.names : cmd_left(u, n)
  <2>1. PICK u \in Users, n \in api.names : cmd_left(u, n)
    BY <1>6
  <2> DEFINE c == getchan(n)
             x == Do("left", u, c)
  <2>2. c \in Chans /\ Live(c)
    BY <1>2, <2>1 DEF FoundLive, cmd_left
  <2>3. x \in Task /\ x.op = "left" /\ x.a = u /\ x.b = c
    BY <2>2, Entries, Fields
  <2>4. /\ Called(<<x, Do("done", u, NULL)>>) /\ Live(u)
        /\ UNCHANGED <<state, on, auto, priv, roots, fire>>
    BY <2>1 DEF cmd_left, server, engine
  <2> HIDE DEF x, c
  <2>5. \A z \in Things : z \in Pins(x) => Live(z)
    BY <2>2, <2>3, <2>4 DEF Pins
  <2>6. Fit(x, todo, on, auto)
    BY <1>1
  <2>7. ~Kills(x, u, on, auto)
    BY <2>2, <2>3, ThingsAssumption DEF Kills
  <2> QED BY <2>3, <2>4, <2>5, <2>6, <2>7, CalledTwo DEF Removes, Deletes
<1>7. CASE \E u \in Users, n \in api.names : cmd_join(u, n) /\ getchan(n) # NULL
  <2>1. PICK u \in Users, n \in api.names : cmd_join(u, n) /\ getchan(n) # NULL
    BY <1>7
  <2> DEFINE c == getchan(n)
             x == Do("join", u, c)
  <2>2. c \in Chans /\ Live(c)
    BY <1>2, <2>1 DEF FoundLive
  <2>3. x \in Task /\ x.op = "join" /\ x.a = u /\ x.b = c
    BY <2>2, Entries, Fields
  <2>4. /\ Called(<<x, Do("done", u, NULL)>>) /\ Live(u)
        /\ UNCHANGED <<state, on, auto, priv, roots, fire>>
    BY <2>1 DEF cmd_join, server, engine
  <2> HIDE DEF x, c
  <2>5. \A z \in Things : z \in Pins(x) => Live(z)
    BY <2>2, <2>3, <2>4 DEF Pins
  <2>6. Fit(x, todo, on, auto)
    BY <1>1
  <2>7. ~Kills(x, u, on, auto)
    BY <2>3 DEF Kills
  <2> QED BY <2>3, <2>4, <2>5, <2>6, <2>7, CalledTwo DEF Removes, Deletes
<1> QED BY <1>3, <1>4, <1>5, <1>6, <1>7, <1>8

(* What a script calls, with what the calls that wait will still use.       *)
LEMMA Waiting ==
  ASSUME Stacked, NEW i \in 1 .. Len(todo)
  PROVE  /\ todo[i] \in Task
         /\ \A x \in Things : x \in Pins(todo[i]) => x \in Pinned
         /\ \A k : IsOver(todo[i], k) => k \in fire
<1>1. todo[i] \in Task
  BY ElementOfSeq DEF Stacked, StackOk
<1>2. \A k : IsOver(todo[i], k) => k \in fire
  BY DEF Stacked, StackOk, Firing, IsOver
<1>3. ASSUME NEW x \in Things, x \in Pins(todo[i]) PROVE x \in Pinned
  <2>1. todo[i].op \notin {"on", "over"} /\ x \in {todo[i].a, todo[i].b}
    BY <1>3 DEF Pins
  <2> QED BY <2>1 DEF Pinned
<1> QED BY <1>1, <1>2, <1>3

LEMMA SmJoinStack ==
  ASSUME Stacked, NEW u \in Users, NEW c \in Chans, Live(u), Live(c), MayJoin(u, c),
         Called(<<Do("join", u, c)>>), UNCHANGED <<state, on, auto, priv, roots, fire>>
  PROVE  Stacked'
<1> DEFINE x == Do("join", u, c)
<1>1. x \in Task /\ x.op = "join" /\ x.a = u /\ x.b = c
  BY Entries, Fields
<1>2. Called(<<x>>)
  OBVIOUS
<1> HIDE DEF x
<1>3. \A z \in Things : z \in Pins(x) => Live(z)
  BY <1>1 DEF Pins
<1>4. ASSUME NEW i \in 1 .. Len(todo) PROVE Pair(x, todo[i], on, auto)
  <2>1. ~(todo[i].op = "left_now" /\ todo[i].a = u /\ todo[i].b = c)
    BY DEF MayJoin, Awaits
  <2> QED BY <1>1, <2>1 DEF Pair, Kills, Leaves, Deletes
<1>5. ASSUME NEW i \in 1 .. Len(todo), NEW j \in 1 .. Len(todo), i < j
      PROVE  Triple(x, todo[i], todo[j])
  <2>0. c \in Things
    BY DEF Things
  <2>1. ASSUME Deletes(todo[i]), todo[i].a = u PROVE c \notin Pins(todo[j])
    <3>1. todo[i].b = NULL
      BY <2>1, Waiting DEF Task, Deletes
    <3>2. Deleting(u)
      BY <2>1, <3>1 DEF Deleting, Awaits, Deletes
    <3> QED BY <2>0, <3>2, Waiting DEF MayJoin
  <2>2. ASSUME todo[i].op = "rmchan_fire", todo[i].a = c, IsOver(todo[j], "rmchan") PROVE FALSE
    <3>1. todo[i].b = NULL
      BY <2>2, Waiting DEF Task
    <3>2. "rmchan" \in fire
      BY <2>2, Waiting
    <3> QED BY <2>2, <3>1, <3>2 DEF MayJoin, Ending, Awaits
  <2>3. ASSUME todo[i].op = "deluser_fire", todo[i].a = u, IsOver(todo[j], "deluser") PROVE FALSE
    <3>1. todo[i].b = NULL
      BY <2>3, Waiting DEF Task
    <3>2. "deluser" \in fire
      BY <2>3, Waiting
    <3> QED BY <2>3, <3>1, <3>2 DEF MayJoin, Ending, Awaits
  <2> QED BY <1>1, <2>1, <2>2, <2>3 DEF Triple
<1>6. Fit(x, todo, on, auto)
  BY <1>4, <1>5 DEF Fit
<1> QED BY <1>1, <1>2, <1>3, <1>6, CalledOne DEF Removes, Deletes

LEMMA SmLeftStack ==
  ASSUME Stacked, NEW u \in Users, NEW c \in Chans, Live(u), Live(c), MayTakeOff(c),
         Called(<<Do("left", u, c)>>), UNCHANGED <<state, on, auto, priv, roots, fire>>
  PROVE  Stacked'
<1> DEFINE x == Do("left", u, c)
<1>1. x \in Task /\ x.op = "left" /\ x.a = u /\ x.b = c
  BY Entries, Fields
<1>2. Called(<<x>>)
  OBVIOUS
<1> HIDE DEF x
<1>3. \A z \in Things : z \in Pins(x) => Live(z)
  BY <1>1 DEF Pins
<1>4. ASSUME NEW i \in 1 .. Len(todo) PROVE Pair(x, todo[i], on, auto)
  <2>1. c \in Things /\ c \notin Pins(todo[i]) /\ ~IsOver(todo[i], "rmchan")
    BY Waiting DEF MayTakeOff, Things
  <2> QED BY <1>1, <2>1 DEF Pair, Kills, Joins, Deletes
<1>5. Fit(x, todo, on, auto)
  BY <1>1, <1>4 DEF Fit, Joins
<1> QED BY <1>1, <1>2, <1>3, <1>5, CalledOne DEF Removes, Deletes

LEMMA SmQuitStack ==
  ASSUME Stacked, OnOk, NEW u \in Users, Live(u), MayDelete(u),
         Called(<<Do("deluser", u, NULL)>>), UNCHANGED <<state, on, auto, priv, roots, fire>>
  PROVE  Stacked'
<1> DEFINE x == Do("deluser", u, NULL)
<1>1. x \in Task /\ x.op = "deluser" /\ x.a = u /\ x.b = NULL
  BY Entries, Fields
<1>2. Called(<<x>>)
  OBVIOUS
<1> HIDE DEF x
<1>3. \A z \in Things : z \in Pins(x) => Live(z)
  BY <1>1, ThingsAssumption DEF Pins
<1>4. ASSUME NEW i \in 1 .. Len(todo) PROVE Pair(x, todo[i], on, auto)
  <2>1. ASSUME NEW z \in Things, Kills(x, z, on, auto) PROVE z \notin Pins(todo[i])
    <3>1. CASE z = u
      BY <3>1, Waiting DEF MayDelete
    <3>2. CASE <<u, z>> \in on
      <4>1. z \in ChansOf(u)
        BY <3>2 DEF ChansOf, OnOk
      <4> QED BY <4>1, Waiting DEF MayDelete, MayTakeOff
    <3> QED BY <1>1, <2>1, <3>1, <3>2 DEF Kills
  <2>2. ~IsOver(todo[i], "rmchan")
    BY Waiting DEF MayDelete
  <2> QED BY <1>1, <2>1, <2>2 DEF Pair, Joins
<1>5. Fit(x, todo, on, auto)
  BY <1>1, <1>4 DEF Fit, Joins
<1>6. "deluser" \notin fire
  BY DEF MayDelete
<1> QED BY <1>1, <1>2, <1>3, <1>5, <1>6, CalledOne DEF Removes

LEMMA SmRmchanStack ==
  ASSUME Stacked, NEW c \in Chans, Live(c), MayTakeOff(c),
         Called(<<Do("rmchan", c, NULL)>>), UNCHANGED <<state, on, auto, priv, roots, fire>>
  PROVE  Stacked'
<1> DEFINE x == Do("rmchan", c, NULL)
<1>1. x \in Task /\ x.op = "rmchan" /\ x.a = c /\ x.b = NULL
  BY Entries, Fields
<1>2. Called(<<x>>)
  OBVIOUS
<1> HIDE DEF x
<1>3. \A z \in Things : z \in Pins(x) => Live(z)
  BY <1>1, ThingsAssumption DEF Pins
<1>4. ASSUME NEW i \in 1 .. Len(todo) PROVE Pair(x, todo[i], on, auto)
  <2>1. c \in Things /\ c \notin Pins(todo[i])
    BY Waiting DEF MayTakeOff, Things
  <2> QED BY <1>1, <2>1 DEF Pair, Kills, Joins, Deletes, Leaves
<1>5. Fit(x, todo, on, auto)
  BY <1>1, <1>4 DEF Fit, Joins
<1>6. "rmchan" \notin fire
  BY DEF MayTakeOff
<1> QED BY <1>1, <1>2, <1>3, <1>5, <1>6, CalledOne DEF Deletes

LEMMA SmAdduserStack ==
  ASSUME Stacked, NEW u \in Users, Live(u), MayAccept(u),
         Called(<<Do("adduser", u, NULL), Do("done", u, NULL)>>),
         UNCHANGED <<state, on, auto, priv, roots, fire>>
  PROVE  Stacked'
<1> DEFINE x == Do("adduser", u, NULL)
<1>1. x \in Task /\ x.op = "adduser" /\ x.a = u /\ x.b = NULL
  BY Entries, Fields
<1>2. Called(<<x, Do("done", u, NULL)>>)
  OBVIOUS
<1> HIDE DEF x
<1>3. \A z \in Things : z \in Pins(x) => Live(z)
  BY <1>1, ThingsAssumption DEF Pins
<1>4. ASSUME NEW i \in 1 .. Len(todo) PROVE Pair(x, todo[i], on, auto)
  <2>1. ASSUME Deletes(todo[i]), todo[i].a = u PROVE FALSE
    <3>1. todo[i].b = NULL
      BY <2>1, Waiting DEF Task, Deletes
    <3> QED BY <2>1, <3>1 DEF MayAccept, Deleting, Awaits, Deletes
  <2> QED BY <1>1, <2>1 DEF Pair, Kills, Joins, Leaves, Deletes
<1>5. Fit(x, todo, on, auto)
  BY <1>1, <1>4 DEF Fit, Joins
<1>6. ~Kills(x, u, on, auto)
  BY <1>1 DEF Kills
<1> QED BY <1>1, <1>2, <1>3, <1>5, <1>6, CalledTwo DEF Removes, Deletes

(* Making and destroying a custom pipe, and setting properties.             *)
LEMMA PipeStack ==
  ASSUME Stacked, state \in [Things -> {"none", "live", "gone"}],
         priv \in [Objs -> Things \cup {NULL}], NEW p \in Customs,
         Called(<< >>), UNCHANGED <<on, auto, roots, fire>>,
         \A t \in Things \ {p} : state'[t] = state[t],
         \A o \in Objs \ {Pipe(p)} : priv'[o] = priv[o]
  PROVE  Stacked'
<1> DEFINE st == state'
           pr == priv'
<1>1. ASSUME NEW i \in 1 .. Len(todo), NEW x \in Things, x \in Pins(todo[i]), state[x] = "live"
      PROVE  st[x] = "live"
  <2>1. x \in Users \cup Chans
    BY <1>1, Waiting, PinnedKinds
  <2> QED BY <1>1, <2>1, ThingsAssumption
<1>2. ASSUME NEW i \in 1 .. Len(todo), Removes(todo[i]) \/ Deletes(todo[i]),
             Loose(todo[i].a, priv, roots)
      PROVE  Loose(todo[i].a, pr, roots)
  <2>1. todo[i].a \in Users \cup Chans
    BY <1>2, Waiting DEF Task, Removes, Deletes
  <2>2. /\ Obj(todo[i].a) \in Objs \ {Pipe(p)} /\ Pipe(todo[i].a) \in Objs
        /\ Pipe(todo[i].a) # Pipe(p)
    BY <2>1, ObjFacts, ThingsAssumption DEF Things
  <2> QED BY <1>2, <2>2 DEF Loose
<1> HIDE DEF st, pr
<1>3. StackOk(todo, fire, st, on, auto, pr, roots)
  BY <1>1, <1>2, StackMoves DEF Stacked
<1>4. todo' = todo
  BY ConcatEmptySeq DEF Called, Stacked, StackOk
<1> QED BY <1>3, <1>4 DEF Stacked, st, pr

LEMMA SameStack ==
  ASSUME Stacked, UNCHANGED <<todo, fire, state, on, auto, priv, roots>>
  PROVE  Stacked'
BY DEF Stacked

LEMMA NoneCalled ==
  ASSUME Stacked, Called(<< >>) PROVE todo' = todo
BY ConcatEmptySeq DEF Called, Stacked, StackOk

-----------------------------------------------------------------------------
(* Users and channels are made.                                            *)

LEMMA MadeBase ==
  ASSUME Stacked, TInv, NEW t \in Users \cup Chans, state[t] = "none", Wrapped(t),
         state' = [state EXCEPT ![t] = "live"]
  PROVE  StackOk(todo, fire, state', on, auto, priv', roots')
<1> DEFINE st == state'
           pr == priv'
           ro == roots'
<1>1. /\ st = [state EXCEPT ![t] = "live"] /\ ro = roots \cup {t}
      /\ pr = [priv EXCEPT ![Obj(t)] = t, ![Pipe(t)] = t]
  BY DEF Wrapped
<1>2. ASSUME NEW i \in 1 .. Len(todo), NEW x \in Things, x \in Pins(todo[i]), state[x] = "live"
      PROVE  st[x] = "live"
  BY <1>1, <1>2 DEF TInv
<1>3. ASSUME NEW i \in 1 .. Len(todo), Removes(todo[i]) \/ Deletes(todo[i]),
             Loose(todo[i].a, priv, roots)
      PROVE  Loose(todo[i].a, pr, ro)
  <2> DEFINE v == todo[i].a
  <2>1. v \in Users \cup Chans /\ v \in Pins(todo[i])
    BY <1>3, Waiting DEF Task, Removes, Deletes, Pins
  <2>2. v \in Things
    BY <2>1 DEF Things
  <2>3. v # t
    BY <2>1, <2>2 DEF Stacked, StackOk, PinsLive
  <2>4. /\ Obj(v) \in Objs /\ Obj(v) # Obj(t) /\ Obj(v) # Pipe(t)
        /\ Pipe(v) \in Objs /\ Pipe(v) # Pipe(t) /\ Pipe(v) # Obj(t)
    BY <2>1, <2>2, <2>3, ObjFacts
  <2> HIDE DEF v, pr, ro
  <2>5. Loose(v, pr, ro)
    BY <1>1, <1>3, <2>3, <2>4 DEF Loose, TInv, v
  <2> QED BY <2>5 DEF v
<1> HIDE DEF st, pr, ro
<1>4. StackOk(todo, fire, st, on, auto, pr, ro)
  BY <1>2, <1>3, StackMoves DEF Stacked
<1> QED BY <1>4 DEF st, pr, ro

LEMMA MkchanStack ==
  ASSUME NEW n, NEW c \in Chans, NEW fl, NEW next \in Seq(Task), mkchan(n, c, fl, next),
         Stacked, "mkchan" \notin fire,
         StackOk(next \o todo, fire, state', on, auto', priv', roots')
  PROVE  Stacked'
<1> DEFINE x1 == On("mkchan", c, NULL)
           x2 == Over("mkchan")
           r == next \o todo
           st == state'
           au == auto'
           pr == priv'
           ro == roots'
<1>1. /\ fire' = fire \cup {"mkchan"} /\ on' = on
      /\ todo' = (<<x1, x2>> \o next) \o todo
  BY DEF mkchan, Called
<1>2. x1 \in Task /\ x2 \in Task /\ todo \in Seq(Task)
  BY Entries DEF Events, Kinds, Things, Stacked, StackOk
<1>3. r \in Seq(Task)
  BY <1>2, ConcatProperties
<1>4. (<<x1, x2>> \o next) \o todo = <<x1, x2>> \o r
  <2>1. <<x1, x2>> \in Seq(Task)
    BY <1>2
  <2> QED BY <1>2, <2>1, ConcatAssociative
<1> HIDE DEF r, st, au, pr, ro
<1>5. <<x1, x2>> \o r = <<x1>> \o (<<x2>> \o r)
  BY <1>2, <1>3, OneByOne
<1>6. StackOk(r, fire, st, on, au, pr, ro)
  BY DEF r, st, au, pr, ro
<1>7. StackOk(<<x2>> \o r, fire \cup {"mkchan"}, st, on, au, pr, ro)
  BY <1>6, PushOver DEF Kinds
<1>8. "mkchan" \in Events /\ c \in Things
  BY DEF Events, Things
<1> DEFINE f == fire \cup {"mkchan"}
           s == <<x2>> \o r
<1>9. StackOk(s, f, st, on, au, pr, ro)
  BY <1>7
<1> HIDE DEF f, s, x2
<1>10. StackOk(<<x1>> \o s, f, st, on, au, pr, ro)
  BY <1>8, <1>9, PushOn
<1> HIDE DEF x1
<1>11. todo' = <<x1>> \o s
  BY <1>1, <1>4, <1>5 DEF s
<1> QED BY <1>1, <1>10, <1>11 DEF Stacked, st, au, pr, ro, f

LEMMA SmMkchanStack ==
  ASSUME Stacked, TInv, NEW n, ape_sm_mkchan(n) PROVE Stacked'
<1>1. PICK c \in Chans : mkchan(n, c, {}, <<Do("done", c, NULL)>>)
  BY DEF ape_sm_mkchan
<1>2. "mkchan" \notin fire
  BY DEF ape_sm_mkchan, MayMake
<1>3. StackOk(todo, fire, state', on, auto, priv', roots')
  BY <1>1, MadeBase DEF mkchan
<1>4. state'[c] = "live" /\ auto' = auto
  BY <1>1 DEF mkchan, TInv, Things
<1> DEFINE st == state'
           au == auto'
           pr == priv'
           ro == roots'
<1>5. StackOk(todo, fire, st, on, au, pr, ro) /\ st[c] = "live"
  BY <1>3, <1>4
<1> HIDE DEF st, au, pr, ro
<1>6. StackOk(<<Do("done", c, NULL)>> \o todo, fire, st, on, au, pr, ro)
  BY <1>5, PushDone
<1> DEFINE d == Do("done", c, NULL)
<1>7. d \in Task
  BY Entries
<1> HIDE DEF d
<1>8. <<d>> \in Seq(Task)
  BY <1>7
<1>9. StackOk(<<d>> \o todo, fire, state', on, auto', priv', roots')
  BY <1>6 DEF st, au, pr, ro, d
<1>10. mkchan(n, c, {}, <<d>>)
  BY <1>1 DEF d
<1> QED BY <1>2, <1>8, <1>9, <1>10, MkchanStack

LEMMA JoinMadeStack ==
  ASSUME Stacked, TInv, NEW u \in Users, NEW n, cmd_join(u, n), getchan(n) = NULL
  PROVE  Stacked'
<1>1. PICK c \in Chans : mkchan(n, c, {c}, <<Do("join", u, c), Do("done", u, NULL)>>)
  BY DEF cmd_join
<1>2. Idle /\ Live(u)
  BY DEF cmd_join
<1>3. /\ todo = << >> /\ fire = {}
      /\ \A st, o, au, pr, ro : StackOk(<< >>, {}, st, o, au, pr, ro)
      /\ \A x, o, au : Fit(x, << >>, o, au)
  BY <1>2, IdleStack
<1> DEFINE st == state'
           au == auto'
           pr == priv'
           ro == roots'
           x == Do("join", u, c)
           d == Do("done", u, NULL)
<1>4. st[c] = "live" /\ st[u] = "live"
  BY <1>1, <1>2 DEF mkchan, TInv, Things, Live
<1>5. x \in Task /\ x.op = "join" /\ x.a = u /\ x.b = c
  BY Entries, Fields
<1>6. d \in Task /\ d.op = "done" /\ d.a = u /\ d.b = NULL
  BY Entries, Fields
<1> HIDE DEF st, au, pr, ro
<1>7. StackOk(<<d>> \o << >>, {}, st, on, au, pr, ro)
  BY <1>3, <1>4, PushDone
<1>8. << >> \in Seq(Task)
  BY EmptySeq
<1>9. ~Kills(x, u, on, au)
  BY <1>5 DEF Kills
<1>10. Fit(x, << >>, on, au)
  BY <1>3
<1>11. Fit(x, <<d>> \o << >>, on, au)
  BY <1>8, <1>9, <1>10, FitsDone
<1> HIDE DEF x, d
<1>12. \A z \in Things : z \in Pins(x) => st[z] = "live"
  BY <1>4, <1>5 DEF Pins
<1> DEFINE s == <<d>> \o << >>
<1>13. StackOk(s, {}, st, on, au, pr, ro) /\ Fit(x, s, on, au)
  BY <1>7, <1>11
<1> HIDE DEF s
<1>14. StackOk(<<x>> \o s, {}, st, on, au, pr, ro)
  BY <1>5, <1>12, <1>13, PushOne DEF Removes, Deletes
<1>15. <<x, d>> \o << >> = <<x>> \o s
  BY <1>5, <1>6, <1>8, OneByOne DEF s
<1>16. StackOk(<<x, d>> \o todo, fire, st, on, au, pr, ro)
  BY <1>3, <1>14, <1>15
<1>17. <<x, d>> \in Seq(Task)
  BY <1>5, <1>6
<1>18. mkchan(n, c, {c}, <<x, d>>)
  BY <1>1 DEF x, d
<1>19. StackOk(<<x, d>> \o todo, fire, state', on, auto', priv', roots')
  BY <1>16 DEF st, au, pr, ro
<1>20. "mkchan" \notin fire
  BY <1>3
<1> QED BY <1>17, <1>18, <1>19, <1>20, MkchanStack

LEMMA ConnectStack ==
  ASSUME Stacked, TInv, NEW u \in Users, Connect(u) PROVE Stacked'
<1> DEFINE x1 == On("connect", u, NULL)
           x2 == Do("adduser", u, NULL)
           x3 == Do("done", u, NULL)
           new == <<x1, x2, x3>>
           st == state'
           pr == priv'
           ro == roots'
<1>1. /\ Idle /\ st = [state EXCEPT ![u] = "live"] /\ todo' = new \o todo
      /\ UNCHANGED <<on, auto, fire>>
  BY DEF Connect, Called
<1>2. /\ todo = << >> /\ fire = {}
      /\ \A a, o, au, p, ro0 : StackOk(<< >>, {}, a, o, au, p, ro0)
      /\ \A x, o, au : Fit(x, << >>, o, au)
  BY <1>1, IdleStack
<1>3. x1 \in Task /\ x1.op = "on" /\ x1.e = "connect"
  BY Entries, Fields DEF Events, Things
<1>4. x2 \in Task /\ x2.op = "adduser" /\ x2.a = u /\ x2.b = NULL
  BY Entries, Fields
<1>5. x3 \in Task /\ x3.op = "done" /\ x3.a = u /\ x3.b = NULL
  BY Entries, Fields
<1>6. st[u] = "live"
  BY <1>1 DEF TInv, Things
<1> HIDE DEF x1, x2, x3, st, pr, ro
<1>7. new \in Seq(Task) /\ Len(new) = 3 /\ new[1] = x1 /\ new[2] = x2 /\ new[3] = x3
  BY <1>3, <1>4, <1>5
<1> HIDE DEF new
<1>8. BaseOk(<< >>, {}, st, on, auto, pr, ro, Nothing)
  BY <1>2, Kept
<1>9. Hooked(new) /\ NoMix(new) /\ EventsOk(new, {}, {})
  BY <1>3, <1>4, <1>5, <1>7 DEF Hooked, NoMix, Joins, EventsOk
<1>10. PinsLive(new, st)
  BY <1>3, <1>4, <1>5, <1>6, <1>7, ThingsAssumption DEF PinsLive, Pins
<1>11. Pairs(new, on, auto)
  <2>1. Still(x1)
    BY <1>3 DEF Still
  <2>2. \A y : Pair(x1, y, on, auto)
    BY <2>1, StillFits
  <2>3. Pair(x2, x3, on, auto)
    BY <1>4, <1>5 DEF Pair, Kills, Joins, Leaves, Deletes
  <2> QED BY <1>7, <2>2, <2>3 DEF Pairs
<1>12. EmptiedBlock(new, {}, on, Nothing) /\ UnboundBlock(new, {}, pr, ro, Nothing)
  BY <1>3, <1>4, <1>5, <1>7, NothingIs DEF EmptiedBlock, UnboundBlock, Removes, Deletes
<1>13. BlockOk(new, << >>, {}, {}, st, on, auto, pr, ro, Nothing)
  BY <1>2, <1>7, <1>9, <1>10, <1>11, <1>12 DEF BlockOk
<1>14. StackOk(new \o << >>, {}, st, on, auto, pr, ro)
  BY <1>8, <1>13, Pushed
<1> QED BY <1>1, <1>2, <1>14 DEF Stacked, st, pr, ro

-----------------------------------------------------------------------------
(* The hash tables.                                                        *)

HCell == [key : DOMAIN Lower, addrs : Things, lnext : Nat \cup {NULL}, lprev : Nat \cup {NULL}]

(* The list of all cells is s.                                              *)
Linked(it, first, s) ==
  /\ s \in Seq(Nat)
  /\ \A i, j \in 1 .. Len(s) : s[i] = s[j] => i = j
  /\ DOMAIN it = {s[i] : i \in 1 .. Len(s)}
  /\ first = IF Len(s) = 0 THEN NULL ELSE s[1]
  /\ \A i \in 1 .. Len(s) :
       /\ it[s[i]].lnext = IF i = Len(s) THEN NULL ELSE s[i + 1]
       /\ it[s[i]].lprev = IF i = 1 THEN NULL ELSE s[i - 1]

(* A cell is in the chain of its bucket, once, and in no other.             *)
InChain(c, ch) == \E i \in 1 .. Len(ch) : ch[i] = c
Chained(it, tb) ==
  /\ tb \in [Buckets -> Seq(Nat)]
  /\ \A b \in Buckets :
       /\ \A i, j \in 1 .. Len(tb[b]) : tb[b][i] = tb[b][j] => i = j
       /\ \A c : InChain(c, tb[b]) <=> c \in DOMAIN it /\ hach_string(it[c].key) = b

(* The cells are the map m.                                                 *)
Keyed(it, m) ==
  /\ \A c, d \in DOMAIN it : SameKey(it[c].key, it[d].key) => c = d
  /\ DOMAIN m = {Lower[it[c].key] : c \in DOMAIN it}
  /\ \A c \in DOMAIN it : m[Lower[it[c].key]] = it[c].addrs

TableOk(h, m) ==
  /\ h.item \in [DOMAIN h.item -> HCell]
  /\ \E s : Linked(h.item, h.first, s)
  /\ Chained(h.item, h.table)
  /\ Keyed(h.item, m)

LEMMA KeyFacts ==
  ASSUME NEW k \in DOMAIN Lower
  PROVE  /\ Lower[k] \in DOMAIN Lower /\ Lower[Lower[k]] = Lower[k]
         /\ hach_string(k) \in Buckets /\ hach_string(k) = Bucket[Lower[k]]
BY HashAssumption DEF Buckets, hach_string

(* A walk of the chain finds the cell with the key, if there is one.        *)
LEMMA SeekIs ==
  ASSUME NEW h, NEW m, TableOk(h, m), NEW k \in DOMAIN Lower
  PROVE  /\ Hits(h, k) = {} <=> Lower[k] \notin DOMAIN m
         /\ Hits(h, k) # {} =>
              /\ Place(h, k) \in 1 .. Len(Chain(h, k))
              /\ Hit(h, k) = Chain(h, k)[Place(h, k)]
              /\ Hit(h, k) \in DOMAIN h.item
              /\ Lower[h.item[Hit(h, k)].key] = Lower[k]
<1> DEFINE b == hach_string(k)
           ch == h.table[b]
           it == h.item
           has(i) == Lower[it[ch[i]].key] = Lower[k]
<1>1. b \in Buckets /\ b = Bucket[Lower[k]]
  BY KeyFacts
<1>2. /\ ch \in Seq(Nat) /\ Len(ch) \in Nat
      /\ \A i, j \in 1 .. Len(ch) : ch[i] = ch[j] => i = j
      /\ \A c : InChain(c, ch) <=> c \in DOMAIN it /\ hach_string(it[c].key) = b
  BY <1>1, LenProperties DEF TableOk, Chained
<1>3. /\ \A c, d \in DOMAIN it : Lower[it[c].key] = Lower[it[d].key] => c = d
      /\ DOMAIN m = {Lower[it[c].key] : c \in DOMAIN it}
  BY DEF TableOk, Keyed, SameKey
<1>4. Hits(h, k) = {i \in 1 .. Len(ch) : has(i) /\ \A j \in 1 .. i - 1 : ~has(j)}
  BY DEF Hits, Chain, SameKey
<1>5. Chain(h, k) = ch /\ Hit(h, k) = ch[Place(h, k)] /\ Place(h, k) = CHOOSE i \in Hits(h, k) : TRUE
  BY DEF Chain, Hit, Place
<1> HIDE DEF ch, b, it
<1>6. \A i \in 1 .. Len(ch) : ch[i] \in DOMAIN it
  BY <1>2 DEF InChain
<1>7. \A i, j \in 1 .. Len(ch) : has(i) /\ has(j) => i = j
  BY <1>2, <1>3, <1>6
<1>8. ASSUME NEW i \in 1 .. Len(ch), has(i) PROVE i \in Hits(h, k)
  <2>1. \A j \in 1 .. i - 1 : ~has(j)
    <3> SUFFICES ASSUME NEW j \in 1 .. i - 1, has(j) PROVE FALSE
      OBVIOUS
    <3>1. j \in 1 .. Len(ch) /\ j # i
      BY <1>2
    <3> QED BY <1>7, <1>8, <3>1
  <2> QED BY <1>4, <1>8, <2>1
<1>9. ASSUME Lower[k] \in DOMAIN m PROVE Hits(h, k) # {}
  <2>1. PICK c \in DOMAIN it : Lower[it[c].key] = Lower[k]
    BY <1>3, <1>9
  <2>2. hach_string(it[c].key) = b
    BY <1>1, <2>1 DEF hach_string
  <2>3. PICK i \in 1 .. Len(ch) : ch[i] = c
    BY <1>2, <2>1, <2>2 DEF InChain
  <2> QED BY <1>8, <2>1, <2>3
<1>10. ASSUME NEW i \in Hits(h, k)
       PROVE  i \in 1 .. Len(ch) /\ ch[i] \in DOMAIN it /\ Lower[it[ch[i]].key] = Lower[k]
  BY <1>4, <1>6, <1>10
<1>11. Hits(h, k) # {} => Lower[k] \in DOMAIN m
  BY <1>3, <1>10
<1>12. Hits(h, k) # {} => Place(h, k) \in Hits(h, k)
  BY <1>5
<1> QED BY <1>5, <1>9, <1>10, <1>11, <1>12 DEF it

LEMMA SeekFinds ==
  ASSUME NEW h, NEW m, TableOk(h, m), NEW k \in DOMAIN Lower
  PROVE  hashtbl_seek(h, k) = IF Lower[k] \in DOMAIN m THEN m[Lower[k]] ELSE NULL
<1>1. CASE Lower[k] \notin DOMAIN m
  <2>1. Hits(h, k) = {}
    BY <1>1, SeekIs
  <2> QED BY <1>1, <2>1 DEF hashtbl_seek
<1>2. CASE Lower[k] \in DOMAIN m
  <2>1. Hits(h, k) # {}
    BY <1>2, SeekIs
  <2>2. Hit(h, k) \in DOMAIN h.item /\ Lower[h.item[Hit(h, k)].key] = Lower[k]
    BY <2>1, SeekIs
  <2>3. m[Lower[k]] = h.item[Hit(h, k)].addrs
    BY <2>2 DEF TableOk, Keyed
  <2> QED BY <1>2, <2>1, <2>3 DEF hashtbl_seek, Hit, Place
<1> QED BY <1>1, <1>2

(* The number of cells.                                                     *)
LEMMA CellCount ==
  ASSUME NEW it, NEW first, NEW s, Linked(it, first, s)
  PROVE  IsFiniteSet(DOMAIN it) /\ Cardinality(DOMAIN it) = Len(s) /\ Len(s) \in Nat
<1> DEFINE n == Len(s)
<1>1. s \in Seq(Nat) /\ n \in Nat
  BY LenProperties DEF Linked
<1>2. s \in [1 .. n -> Nat]
  BY <1>1, LenProperties
<1>3. DOMAIN it = {s[i] : i \in 1 .. n}
  BY DEF Linked
<1>4. \A i, j \in 1 .. n : s[i] = s[j] => i = j
  BY DEF Linked
<1> HIDE DEF n
<1>5. s \in [1 .. n -> DOMAIN it]
  BY <1>2, <1>3
<1>6. s \in Injection(1 .. n, DOMAIN it)
  BY <1>4, <1>5 DEF Injection, IsInjective
<1>7. s \in Surjection(1 .. n, DOMAIN it)
  BY <1>3, <1>5 DEF Surjection
<1>8. s \in Bijection(1 .. n, DOMAIN it)
  BY <1>6, <1>7 DEF Bijection
<1>9. IsFiniteSet(1 .. n) /\ Cardinality(1 .. n) = n
  BY <1>1, FS_Interval
<1>10. ExistsBijection(1 .. n, DOMAIN it)
  BY <1>8 DEF ExistsBijection
<1>11. IsFiniteSet(DOMAIN it) /\ Cardinality(DOMAIN it) = Cardinality(1 .. n)
  BY <1>9, <1>10, FS_Bijection
<1> QED BY <1>1, <1>9, <1>11 DEF n

LEMMA FreshIs ==
  ASSUME NEW h, NEW m, TableOk(h, m)
  PROVE  Fresh(h) \in Nat /\ Fresh(h) \notin DOMAIN h.item
<1> DEFINE C == DOMAIN h.item
           n == Cardinality(C)
<1>1. PICK s : Linked(h.item, h.first, s)
  BY DEF TableOk
<1>2. IsFiniteSet(C) /\ n \in Nat
  BY <1>1, CellCount
<1> HIDE DEF C, n
<1>3. \E c \in 1 .. n + 1 : c \notin C
  <2> SUFFICES ASSUME 1 .. n + 1 \subseteq C PROVE FALSE
    OBVIOUS
  <2>1. Cardinality(1 .. n + 1) <= Cardinality(C)
    BY <1>2, FS_Subset
  <2>2. Cardinality(1 .. n + 1) = n + 1
    <3>1. 1 \in Int /\ n + 1 \in Int /\ ~(1 > n + 1) /\ (n + 1) - 1 + 1 = n + 1
      BY <1>2
    <3> QED BY <3>1, FS_Interval
  <2> QED BY <1>2, <2>1, <2>2 DEF n
<1>4. Fresh(h) \in 1 .. n + 1 /\ Fresh(h) \notin C
  BY <1>3 DEF Fresh, Cells, n, C
<1> QED BY <1>2, <1>4 DEF C

(* One element in front of a sequence.                                      *)
IsCons(z, x, s) ==
  /\ Len(s) \in Nat /\ Len(z) = Len(s) + 1 /\ z[1] = x
  /\ \A i \in 1 .. Len(s) : z[i + 1] = s[i]
  /\ \A i \in 1 .. Len(s) + 1 : i = 1 \/ (i - 1 \in 1 .. Len(s) /\ z[i] = s[i - 1])
LEMMA Prepended ==
  ASSUME NEW S, NEW x \in S, NEW s \in Seq(S)
  PROVE  <<x>> \o s \in Seq(S) /\ IsCons(<<x>> \o s, x, s)
<1> DEFINE a == <<x>>
           z == a \o s
<1>1. a \in Seq(S) /\ Len(a) = 1 /\ a[1] = x
  OBVIOUS
<1>2. Len(s) \in Nat
  BY LenProperties
<1> HIDE DEF a
<1>3. /\ z \in Seq(S) /\ Len(z) = Len(a) + Len(s)
      /\ \A i \in 1 .. Len(a) + Len(s) : z[i] = IF i <= Len(a) THEN a[i] ELSE s[i - Len(a)]
  BY <1>1, ConcatProperties
<1> HIDE DEF z
<1>4. /\ z \in Seq(S) /\ Len(z) = Len(s) + 1
      /\ \A i \in 1 .. Len(s) + 1 : z[i] = IF i <= 1 THEN x ELSE s[i - 1]
  BY <1>1, <1>2, <1>3
<1>5. z[1] = x /\ \A i \in 1 .. Len(s) + 1 : i = 1 \/ (i - 1 \in 1 .. Len(s) /\ z[i] = s[i - 1])
  BY <1>2, <1>4
<1>6. ASSUME NEW i \in 1 .. Len(s) PROVE z[i + 1] = s[i]
  BY <1>2, <1>4
<1>7. IsCons(z, x, s)
  BY <1>2, <1>4, <1>5, <1>6 DEF IsCons
<1> QED BY <1>4, <1>7 DEF z, a

Put(m, x, a) == [y \in DOMAIN m \cup {x} |-> IF y = x THEN a ELSE m[y]]

(* hashtbl_append() with a key that is not there.                           *)
LEMMA AppendNew ==
  ASSUME NEW h, NEW m, TableOk(h, m), NEW k \in DOMAIN Lower, NEW a \in Things,
         Lower[k] \notin DOMAIN m
  PROVE  TableOk(hashtbl_append(h, k, a), Put(m, Lower[k], a))
<1> DEFINE c   == Fresh(h)
           b   == hach_string(k)
           it  == h.item
           new == [key |-> k, addrs |-> a, lnext |-> h.first, lprev |-> NULL]
           up(d) == [it[d] EXCEPT !.lprev = IF d = h.first THEN c ELSE @]
           it2 == [d \in DOMAIN it \cup {c} |-> IF d = c THEN new ELSE up(d)]
           tb2 == [h.table EXCEPT ![b] = <<c>> \o @]
           m2  == Put(m, Lower[k], a)
           g   == hashtbl_append(h, k, a)
<1>1. Hits(h, k) = {}
  BY SeekIs
<1>2. g = [item |-> it2, table |-> tb2, first |-> c]
  BY <1>1 DEF hashtbl_append, WithCell, Cells
<1>3. g.item = it2 /\ g.table = tb2 /\ g.first = c
  BY <1>2
<1>4. c \in Nat /\ c \notin DOMAIN it
  BY FreshIs
<1>5. PICK s : Linked(it, h.first, s)
  BY DEF TableOk
<1>6. s \in Seq(Nat) /\ Len(s) \in Nat
  BY <1>5, LenProperties DEF Linked
<1>7. it \in [DOMAIN it -> HCell]
  BY DEF TableOk
<1>8. h.first \in Nat \cup {NULL}
  <2>1. Len(s) # 0 => s[1] \in Nat
    BY <1>6, ElementOfSeq
  <2> QED BY <1>5, <2>1 DEF Linked
<1>9. ASSUME NEW d \in DOMAIN it
      PROVE  /\ up(d) \in HCell /\ up(d).key = it[d].key /\ up(d).addrs = it[d].addrs
             /\ up(d).lnext = it[d].lnext
             /\ up(d).lprev = IF d = h.first THEN c ELSE it[d].lprev
  <2>1. it[d] \in HCell
    BY <1>7
  <2> QED BY <1>4, <2>1 DEF HCell
<1>10. new \in HCell /\ new.key = k /\ new.addrs = a /\ new.lnext = h.first /\ new.lprev = NULL
  BY <1>8 DEF HCell
<1> HIDE DEF up, new, c
<1>11. /\ DOMAIN it2 = DOMAIN it \cup {c} /\ it2[c] = new
       /\ \A d \in DOMAIN it : it2[d] = up(d)
  BY <1>4
<1> HIDE DEF it2
<1>12. it2 \in [DOMAIN it2 -> HCell]
  <2>1. it2 = [d \in DOMAIN it2 |-> it2[d]]
    BY DEF it2
  <2> QED BY <1>9, <1>10, <1>11, <2>1
<1>13. \E s2 : Linked(it2, c, s2)
  <2> DEFINE z == <<c>> \o s
             n == Len(s)
  <2>1. /\ z \in Seq(Nat) /\ n \in Nat /\ Len(z) = n + 1 /\ z[1] = c
        /\ \A i \in 1 .. n : z[i + 1] = s[i]
        /\ \A i \in 1 .. n + 1 : i = 1 \/ (i - 1 \in 1 .. n /\ z[i] = s[i - 1])
    <3>1. z \in Seq(Nat) /\ IsCons(z, c, s)
      BY <1>4, <1>6, Prepended
    <3> HIDE DEF z
    <3> QED BY <3>1 DEF IsCons
  <2> HIDE DEF z
  <2>2. /\ \A i, j \in 1 .. n : s[i] = s[j] => i = j
        /\ DOMAIN it = {s[i] : i \in 1 .. n}
        /\ h.first = IF n = 0 THEN NULL ELSE s[1]
        /\ \A i \in 1 .. n : /\ it[s[i]].lnext = IF i = n THEN NULL ELSE s[i + 1]
                             /\ it[s[i]].lprev = IF i = 1 THEN NULL ELSE s[i - 1]
    BY <1>5 DEF Linked
  <2> HIDE DEF n
  <2>3. \A i \in 1 .. n : s[i] \in DOMAIN it /\ s[i] # c
    BY <1>4, <2>2
  <2>4. ASSUME NEW i \in 1 .. Len(z), NEW j \in 1 .. Len(z), z[i] = z[j] PROVE i = j
    <3>1. CASE i = 1 \/ j = 1
      <4>1. ASSUME NEW q \in 1 .. Len(z), q # 1 PROVE z[q] # z[1]
        <5>1. q - 1 \in 1 .. n /\ z[q] = s[q - 1]
          BY <2>1, <4>1
        <5> QED BY <2>1, <2>3, <5>1
      <4> QED BY <2>4, <3>1, <4>1
    <3>2. CASE i # 1 /\ j # 1
      <4>1. i - 1 \in 1 .. n /\ j - 1 \in 1 .. n /\ s[i - 1] = s[j - 1]
        BY <2>1, <2>4, <3>2
      <4>2. i - 1 = j - 1
        BY <2>2, <4>1
      <4> QED BY <2>1, <4>2
    <3> QED BY <3>1, <3>2
  <2>5. DOMAIN it2 = {z[i] : i \in 1 .. Len(z)}
    <3>1. ASSUME NEW d \in DOMAIN it2 PROVE \E i \in 1 .. Len(z) : d = z[i]
      <4>1. CASE d = c
        BY <2>1, <4>1
      <4>2. CASE d \in DOMAIN it
        <5>1. PICK i \in 1 .. n : d = s[i]
          BY <2>2, <4>2
        <5>2. i + 1 \in 1 .. Len(z) /\ z[i + 1] = d
          BY <2>1, <5>1
        <5> QED BY <5>2
      <4> QED BY <1>11, <4>1, <4>2
    <3>2. ASSUME NEW i \in 1 .. Len(z) PROVE z[i] \in DOMAIN it2
      BY <1>11, <2>1, <2>3
    <3> QED BY <3>1, <3>2
  <2>6. ASSUME NEW i \in 1 .. Len(z)
        PROVE  /\ it2[z[i]].lnext = IF i = Len(z) THEN NULL ELSE z[i + 1]
               /\ it2[z[i]].lprev = IF i = 1 THEN NULL ELSE z[i - 1]
    <3>1. CASE i = 1
      <4>1. it2[z[i]] = new
        BY <1>11, <2>1, <3>1
      <4>2. CASE n = 0
        BY <1>10, <2>1, <2>2, <3>1, <4>1, <4>2
      <4>3. CASE n # 0
        <5>1. 1 \in 1 .. n /\ z[1 + 1] = s[1] /\ i # Len(z)
          BY <2>1, <3>1, <4>3
        <5> QED BY <1>10, <2>2, <3>1, <4>1, <4>3, <5>1
      <4> QED BY <4>2, <4>3
    <3>2. CASE i # 1
      <4> DEFINE j == i - 1
      <4>1. j \in 1 .. n /\ z[i] = s[j] /\ i = j + 1
        BY <2>1, <3>2
      <4> HIDE DEF j
      <4>2. it2[z[i]] = up(s[j]) /\ s[j] \in DOMAIN it
        BY <1>11, <2>3, <4>1
      <4>3. it2[z[i]].lnext = IF i = Len(z) THEN NULL ELSE z[i + 1]
        <5>1. it2[z[i]].lnext = IF j = n THEN NULL ELSE s[j + 1]
          BY <1>9, <2>2, <4>1, <4>2
        <5>2. j # n => j + 1 \in 1 .. n /\ z[(j + 1) + 1] = s[j + 1]
          BY <2>1, <4>1
        <5>3. i = Len(z) <=> j = n
          BY <2>1, <4>1
        <5> QED BY <4>1, <5>1, <5>2, <5>3
      <4>4. it2[z[i]].lprev = z[i - 1]
        <5>1. i - 1 = j
          BY <4>1
        <5>2. CASE j = 1
          <6>1. s[j] = h.first
            BY <2>1, <2>2, <4>1, <5>2
          <6> QED BY <1>9, <2>1, <4>2, <5>1, <5>2, <6>1
        <5>3. CASE j # 1
          <6>1. 1 \in 1 .. n /\ h.first = s[1] /\ s[j] # s[1]
            BY <2>1, <2>2, <4>1, <5>3
          <6>2. z[j] = s[j - 1]
            BY <2>1, <4>1, <5>3
          <6> QED BY <1>9, <2>2, <4>1, <4>2, <5>1, <5>3, <6>1, <6>2
        <5> QED BY <5>2, <5>3
      <4> QED BY <3>2, <4>3, <4>4
    <3> QED BY <3>1, <3>2
  <2>7. Len(z) # 0
    BY <2>1
  <2>8. Linked(it2, c, z)
    BY <2>1, <2>4, <2>5, <2>6, <2>7 DEF Linked
  <2> QED BY <2>8
<1>14. Chained(it2, tb2)
  <2>1. b \in Buckets
    BY KeyFacts
  <2>2. /\ h.table \in [Buckets -> Seq(Nat)]
        /\ \A q \in Buckets :
             /\ \A i, j \in 1 .. Len(h.table[q]) : h.table[q][i] = h.table[q][j] => i = j
             /\ \A d : InChain(d, h.table[q]) <=> d \in DOMAIN it /\ hach_string(it[d].key) = q
    BY DEF TableOk, Chained
  <2> DEFINE ch == h.table[b]
             z == <<c>> \o ch
  <2>3. tb2 = [h.table EXCEPT ![b] = z]
    OBVIOUS
  <2>4. ch \in Seq(Nat)
    BY <2>1, <2>2
  <2>5. /\ z \in Seq(Nat) /\ Len(ch) \in Nat /\ Len(z) = Len(ch) + 1 /\ z[1] = c
        /\ \A i \in 1 .. Len(ch) : z[i + 1] = ch[i]
        /\ \A i \in 1 .. Len(ch) + 1 : i = 1 \/ (i - 1 \in 1 .. Len(ch) /\ z[i] = ch[i - 1])
    <3>1. z \in Seq(Nat) /\ IsCons(z, c, ch)
      BY <1>4, <2>4, Prepended
    <3> HIDE DEF z, ch
    <3> QED BY <3>1 DEF IsCons
  <2> HIDE DEF z, tb2
  <2>6. tb2 \in [Buckets -> Seq(Nat)] /\ tb2[b] = z /\ \A q \in Buckets : q # b => tb2[q] = h.table[q]
    BY <2>1, <2>2, <2>3, <2>5
  <2>7. \A i \in 1 .. Len(ch) : ch[i] # c
    BY <1>4, <2>1, <2>2 DEF InChain
  <2>8. ASSUME NEW i \in 1 .. Len(z), NEW j \in 1 .. Len(z), z[i] = z[j] PROVE i = j
    <3>1. CASE i = 1 \/ j = 1
      <4>1. ASSUME NEW q \in 1 .. Len(z), q # 1 PROVE z[q] # z[1]
        <5>1. q - 1 \in 1 .. Len(ch) /\ z[q] = ch[q - 1]
          BY <2>5, <4>1
        <5> QED BY <2>5, <2>7, <5>1
      <4> QED BY <2>8, <3>1, <4>1
    <3>2. CASE i # 1 /\ j # 1
      <4>1. i - 1 \in 1 .. Len(ch) /\ j - 1 \in 1 .. Len(ch) /\ ch[i - 1] = ch[j - 1]
        BY <2>5, <2>8, <3>2
      <4>2. i - 1 = j - 1
        BY <2>1, <2>2, <4>1
      <4> QED BY <2>5, <4>2
    <3> QED BY <3>1, <3>2
  <2>9. ASSUME NEW d PROVE InChain(d, z) <=> d = c \/ InChain(d, ch)
    <3>1. ASSUME InChain(d, z) PROVE d = c \/ InChain(d, ch)
      <4>1. PICK i \in 1 .. Len(z) : z[i] = d
        BY <3>1 DEF InChain
      <4>2. i = 1 \/ (i - 1 \in 1 .. Len(ch) /\ ch[i - 1] = d)
        BY <2>5, <4>1
      <4> QED BY <2>5, <4>1, <4>2 DEF InChain
    <3>2. InChain(c, z)
      <4>1. 1 \in 1 .. Len(z) /\ z[1] = c
        BY <2>5
      <4> QED BY <4>1 DEF InChain
    <3>3. ASSUME InChain(d, ch) PROVE InChain(d, z)
      <4>1. PICK i \in 1 .. Len(ch) : ch[i] = d
        BY <3>3 DEF InChain
      <4>2. z[i + 1] = d
        BY <2>5, <4>1
      <4>3. i + 1 \in 1 .. Len(z)
        BY <2>5, <4>1
      <4> QED BY <4>2, <4>3 DEF InChain
    <3> QED BY <3>1, <3>2, <3>3
  <2> HIDE DEF ch
  <2>10. ASSUME NEW d \in DOMAIN it2
         PROVE  hach_string(it2[d].key) = IF d = c THEN b ELSE hach_string(it[d].key)
    <3>1. CASE d = c
      BY <1>10, <1>11, <3>1
    <3>2. CASE d # c
      BY <1>9, <1>11, <2>10, <3>2
    <3> QED BY <3>1, <3>2
  <2>11. ASSUME NEW q \in Buckets, NEW d
         PROVE  InChain(d, tb2[q]) <=> d \in DOMAIN it2 /\ hach_string(it2[d].key) = q
    <3>1. CASE q = b
      BY <1>11, <2>1, <2>2, <2>6, <2>9, <2>10, <3>1 DEF ch
    <3>2. CASE q # b
      BY <1>4, <1>11, <2>2, <2>6, <2>10, <3>2
    <3> QED BY <3>1, <3>2
  <2>12. ASSUME NEW q \in Buckets, NEW i \in 1 .. Len(tb2[q]), NEW j \in 1 .. Len(tb2[q]),
                tb2[q][i] = tb2[q][j]
         PROVE  i = j
    BY <2>2, <2>6, <2>8, <2>12
  <2> QED BY <2>6, <2>11, <2>12 DEF Chained
<1>15. Keyed(it2, m2)
  <2>1. /\ \A d, e \in DOMAIN it : Lower[it[d].key] = Lower[it[e].key] => d = e
        /\ DOMAIN m = {Lower[it[d].key] : d \in DOMAIN it}
        /\ \A d \in DOMAIN it : m[Lower[it[d].key]] = it[d].addrs
    BY DEF TableOk, Keyed, SameKey
  <2>2. /\ it2[c].key = k /\ it2[c].addrs = a
        /\ \A d \in DOMAIN it : it2[d].key = it[d].key /\ it2[d].addrs = it[d].addrs
    BY <1>9, <1>10, <1>11
  <2>3. \A d \in DOMAIN it : Lower[it[d].key] # Lower[k]
    BY <2>1
  <2>4. /\ DOMAIN m2 = DOMAIN m \cup {Lower[k]} /\ m2[Lower[k]] = a
        /\ \A y \in DOMAIN m : y # Lower[k] => m2[y] = m[y]
    BY DEF Put
  <2> HIDE DEF m2
  <2>5. \A d, e \in DOMAIN it2 : SameKey(it2[d].key, it2[e].key) => d = e
    BY <1>11, <2>1, <2>2, <2>3 DEF SameKey
  <2>6. DOMAIN m2 = {Lower[it2[d].key] : d \in DOMAIN it2}
    BY <1>11, <2>1, <2>2, <2>4
  <2>7. ASSUME NEW d \in DOMAIN it2 PROVE m2[Lower[it2[d].key]] = it2[d].addrs
    <3>1. CASE d = c
      BY <2>2, <2>4, <3>1
    <3>2. CASE d \in DOMAIN it
      BY <2>1, <2>2, <2>3, <2>4, <3>2
    <3> QED BY <1>11, <3>1, <3>2
  <2> QED BY <2>5, <2>6, <2>7 DEF Keyed
<1> HIDE DEF g, m2, tb2
<1>16. TableOk(g, m2)
  BY <1>3, <1>12, <1>13, <1>14, <1>15 DEF TableOk
<1> QED BY <1>16 DEF g, m2

Once(s) == \A i, j \in 1 .. Len(s) : s[i] = s[j] => i = j

(* z is s without its entry p; entry i of z is entry a of s.                *)
IsShort(z, s, p) ==
  /\ Len(s) \in Nat /\ Len(z) = Len(s) - 1 /\ p \in Nat /\ 1 <= p /\ p <= Len(s)
  /\ \A i \in 1 .. Len(s) - 1 : (i < p => z[i] = s[i]) /\ (p <= i => z[i] = s[i + 1])
Shift(p, i, a) == i \in Int /\ a \in Int /\ ((i < p /\ a = i) \/ (p <= i /\ a = i + 1))

LEMMA Shortened ==
  ASSUME NEW S, NEW s \in Seq(S), NEW p \in 1 .. Len(s)
  PROVE  RemoveAt(s, p) \in Seq(S) /\ IsShort(RemoveAt(s, p), s, p)
<1> DEFINE z == RemoveAt(s, p)
           n == Len(s)
<1>1. /\ z \in Seq(S) /\ Len(z) = n - 1 /\ n \in Nat
      /\ \A j \in 1 .. n - 1 : z[j] = IF j < p THEN s[j] ELSE s[j + 1]
  BY RemoveAtIs, LenProperties
<1>2. p \in Nat /\ 1 <= p /\ p <= n
  BY <1>1
<1> HIDE DEF z
<1>3. IsShort(z, s, p)
  BY <1>1, <1>2 DEF IsShort
<1> QED BY <1>1, <1>3 DEF z

LEMMA ShortEntry ==
  ASSUME NEW z, NEW s, NEW p, IsShort(z, s, p), NEW i \in 1 .. Len(z)
  PROVE  \E a \in 1 .. Len(s) : Shift(p, i, a) /\ a # p /\ z[i] = s[a]
<1>1. i \in 1 .. Len(s) - 1 /\ Len(s) \in Nat /\ p \in Nat /\ i \in Int
  BY DEF IsShort
<1>2. CASE i < p
  BY <1>1, <1>2 DEF IsShort, Shift
<1>3. CASE p <= i
  <2>1. i + 1 \in 1 .. Len(s) /\ i + 1 # p /\ i + 1 \in Int
    BY <1>1, <1>3
  <2>2. z[i] = s[i + 1]
    BY <1>1, <1>3 DEF IsShort
  <2> QED BY <1>1, <1>3, <2>1, <2>2 DEF Shift
<1> QED BY <1>1, <1>2, <1>3

LEMMA ShortTook ==
  ASSUME NEW z, NEW s, NEW p, IsShort(z, s, p), NEW a \in 1 .. Len(s), NEW i, Shift(p, i, a),
         a # p
  PROVE  i \in 1 .. Len(z) /\ z[i] = s[a]
<1>1. /\ Len(s) \in Nat /\ p \in Nat /\ i \in Int /\ a \in Int /\ Len(z) = Len(s) - 1
      /\ 1 <= p /\ p <= Len(s)
  BY DEF IsShort, Shift
<1>2. CASE i < p /\ a = i
  <2>1. i \in 1 .. Len(s) - 1
    BY <1>1, <1>2
  <2> QED BY <1>1, <1>2, <2>1 DEF IsShort
<1>3. CASE p <= i /\ a = i + 1
  <2>1. i \in 1 .. Len(s) - 1
    BY <1>1, <1>3
  <2> QED BY <1>1, <1>3, <2>1 DEF IsShort
<1> QED BY <1>2, <1>3 DEF Shift

LEMMA ShortHas ==
  ASSUME NEW z, NEW s, NEW p, IsShort(z, s, p), NEW a \in 1 .. Len(s), a # p
  PROVE  \E i \in 1 .. Len(z) : z[i] = s[a]
<1>1. Len(s) \in Nat /\ p \in Nat /\ a \in Int
  BY DEF IsShort
<1>2. CASE a < p
  <2>1. Shift(p, a, a)
    BY <1>1, <1>2 DEF Shift
  <2> QED BY <2>1, ShortTook
<1>3. CASE a > p
  <2>1. Shift(p, a - 1, a)
    BY <1>1, <1>3 DEF Shift
  <2> QED BY <2>1, ShortTook
<1> QED BY <1>1, <1>2, <1>3

LEMMA RemovedIs ==
  ASSUME NEW s, NEW p, NEW z, IsShort(z, s, p), Once(s)
  PROVE  /\ Once(z)
         /\ \A d : InChain(d, z) <=> InChain(d, s) /\ d # s[p]
<1>0. p \in 1 .. Len(s) /\ p \in Nat
  BY DEF IsShort
<1>2. Once(z)
  <2> SUFFICES ASSUME NEW i \in 1 .. Len(z), NEW j \in 1 .. Len(z), z[i] = z[j] PROVE i = j
    BY DEF Once
  <2>2. PICK a \in 1 .. Len(s) : Shift(p, i, a) /\ a # p /\ z[i] = s[a]
    BY ShortEntry
  <2>3. PICK b \in 1 .. Len(s) : Shift(p, j, b) /\ b # p /\ z[j] = s[b]
    BY ShortEntry
  <2>5. a = b
    BY <2>2, <2>3 DEF Once
  <2> QED BY <1>0, <2>2, <2>3, <2>5 DEF Shift
<1>3. ASSUME NEW d, InChain(d, z) PROVE InChain(d, s) /\ d # s[p]
  <2>1. PICK i \in 1 .. Len(z) : z[i] = d
    BY <1>3 DEF InChain
  <2>2. PICK a \in 1 .. Len(s) : Shift(p, i, a) /\ a # p /\ z[i] = s[a]
    BY ShortEntry
  <2> QED BY <1>0, <2>1, <2>2 DEF InChain, Once
<1>4. ASSUME NEW d, InChain(d, s), d # s[p] PROVE InChain(d, z)
  <2>1. PICK a \in 1 .. Len(s) : s[a] = d
    BY <1>4 DEF InChain
  <2>2. a # p
    BY <1>4, <2>1
  <2>3. PICK i \in 1 .. Len(z) : z[i] = s[a]
    BY <2>2, ShortHas
  <2> QED BY <2>1, <2>3 DEF InChain
<1> QED BY <1>2, <1>3, <1>4

(* The neighbours of a cell that leaves the list are joined.                *)
LEMMA Unlinked ==
  ASSUME NEW h, NEW m, TableOk(h, m), NEW c \in DOMAIN h.item, NEW s,
         Linked(h.item, h.first, s), NEW p \in 1 .. Len(s), s[p] = c
  PROVE  /\ Relinked(h, c) \in [DOMAIN h.item \ {c} -> HCell]
         /\ \A d \in DOMAIN h.item \ {c} : /\ Relinked(h, c)[d].key = h.item[d].key
                                           /\ Relinked(h, c)[d].addrs = h.item[d].addrs
         /\ Linked(Relinked(h, c),
                   IF h.item[c].lprev = NULL THEN h.item[c].lnext ELSE h.first,
                   RemoveAt(s, p))
<1> DEFINE it == h.item
           n == Len(s)
           lp == it[c].lprev
           ln == it[c].lnext
           up(d) == [it[d] EXCEPT !.lnext = IF d = lp THEN ln ELSE @,
                                  !.lprev = IF d = ln THEN lp ELSE @]
           it2 == Relinked(h, c)
           first == IF lp = NULL THEN ln ELSE h.first
           z == RemoveAt(s, p)
<1>1. it2 = [d \in DOMAIN it \ {c} |-> up(d)]
  BY DEF Relinked, Cells
<1>2. it \in [DOMAIN it -> HCell]
  BY DEF TableOk
<1>3. lp \in Nat \cup {NULL} /\ ln \in Nat \cup {NULL}
  BY <1>2 DEF HCell
<1>4. ASSUME NEW d \in DOMAIN it
      PROVE  /\ up(d) \in HCell /\ up(d).key = it[d].key /\ up(d).addrs = it[d].addrs
             /\ up(d).lnext = IF d = lp THEN ln ELSE it[d].lnext
             /\ up(d).lprev = IF d = ln THEN lp ELSE it[d].lprev
  <2>1. it[d] \in HCell
    BY <1>2
  <2> HIDE DEF lp, ln
  <2> QED BY <1>3, <2>1 DEF HCell
<1> HIDE DEF up, it2
<1>5. DOMAIN it2 = DOMAIN it \ {c} /\ \A d \in DOMAIN it \ {c} : it2[d] = up(d)
  BY <1>1
<1>6. it2 \in [DOMAIN it \ {c} -> HCell]
  BY <1>1, <1>4
<1>7. /\ s \in Seq(Nat) /\ n \in Nat /\ Once(s)
      /\ \A d : d \in DOMAIN it <=> InChain(d, s)
      /\ h.first = IF n = 0 THEN NULL ELSE s[1]
      /\ \A i \in 1 .. n : /\ it[s[i]].lnext = IF i = n THEN NULL ELSE s[i + 1]
                           /\ it[s[i]].lprev = IF i = 1 THEN NULL ELSE s[i - 1]
  BY LenProperties DEF Linked, Once, InChain
<1>8. \A i \in 1 .. n : s[i] \in Nat /\ s[i] # NULL
  BY <1>7, ElementOfSeq, HashAssumption
<1>9. z \in Seq(Nat) /\ IsShort(z, s, p)
  BY <1>7, Shortened
<1> HIDE DEF z
<1>10. Once(z) /\ \A d : InChain(d, z) <=> InChain(d, s) /\ d # c
  BY <1>7, <1>9, RemovedIs
<1>11. lp = (IF p = 1 THEN NULL ELSE s[p - 1]) /\ ln = (IF p = n THEN NULL ELSE s[p + 1])
  BY <1>7
<1> HIDE DEF lp, ln, it
<1>17. /\ Len(z) = n - 1 /\ p \in Nat /\ 1 <= p /\ p <= n
       /\ \A i \in 1 .. n - 1 : (i < p => z[i] = s[i]) /\ (p <= i => z[i] = s[i + 1])
  BY <1>9 DEF IsShort
<1>12. DOMAIN it2 = {z[i] : i \in 1 .. Len(z)}
  <2>1. \A d : d \in DOMAIN it2 <=> InChain(d, z)
    BY <1>5, <1>7, <1>10
  <2> QED BY <2>1 DEF InChain
<1>13. first = IF Len(z) = 0 THEN NULL ELSE z[1]
  <2>1. CASE p = 1
    <3>1. ASSUME n # 1 PROVE z[1] = s[1 + 1]
      <4>1. 1 \in 1 .. n - 1 /\ p <= 1
        BY <1>7, <1>17, <2>1, <3>1
      <4> QED BY <1>17, <4>1
    <3>2. Len(z) = 0 <=> n = 1
      BY <1>7, <1>17
    <3>3. lp = NULL /\ ln = IF n = 1 THEN NULL ELSE s[1 + 1]
      BY <1>11, <2>1
    <3> QED BY <3>1, <3>2, <3>3
  <2>2. CASE p # 1
    <3>1. p - 1 \in 1 .. n /\ s[p - 1] # NULL
      BY <1>7, <1>8, <2>2
    <3>2. 1 \in 1 .. n - 1 /\ 1 < p /\ n # 0 /\ n - 1 # 0
      BY <1>7, <1>17, <2>2
    <3>3. z[1] = s[1]
      BY <1>17, <3>2
    <3>4. first = s[1]
      BY <1>7, <1>11, <2>2, <3>1, <3>2
    <3> QED BY <1>17, <3>2, <3>3, <3>4
  <2> QED BY <2>1, <2>2
<1>14. ASSUME NEW j \in 1 .. Len(z)
       PROVE  /\ it2[z[j]].lnext = IF j = Len(z) THEN NULL ELSE z[j + 1]
              /\ it2[z[j]].lprev = IF j = 1 THEN NULL ELSE z[j - 1]
  <2>0. j \in 1 .. n - 1
    BY <1>17
  <2>1. PICK t \in 1 .. n : Shift(p, j, t) /\ t # p /\ z[j] = s[t]
    BY <1>9, ShortEntry, SMTT(30)
  <2> DEFINE d == s[t]
  <2>2. z[j] = d /\ t # p
    BY <2>1
  <2>10. \/ j < p /\ t = j /\ t < p
         \/ p <= j /\ t = j + 1 /\ t > p
    BY <1>17, <2>0, <2>1 DEF Shift
  <2>3. d \in DOMAIN it \ {c}
    BY <1>7, <2>2 DEF InChain, Once
  <2>4. /\ it2[d].lnext = IF d = lp THEN ln ELSE it[d].lnext
        /\ it2[d].lprev = IF d = ln THEN lp ELSE it[d].lprev
    BY <1>4, <1>5, <2>3
  <2>5. /\ it[d].lnext = IF t = n THEN NULL ELSE s[t + 1]
        /\ it[d].lprev = IF t = 1 THEN NULL ELSE s[t - 1]
    BY <1>7
  <2>6. d = lp <=> p # 1 /\ t = p - 1
    <3>1. CASE p = 1
      BY <1>8, <1>11, <3>1
    <3>2. CASE p # 1
      <4>1. p - 1 \in 1 .. n /\ lp = s[p - 1]
        BY <1>7, <1>11, <3>2
      <4> QED BY <1>7, <3>2, <4>1 DEF Once
    <3> QED BY <3>1, <3>2
  <2>7. d = ln <=> p # n /\ t = p + 1
    <3>1. CASE p = n
      BY <1>8, <1>11, <3>1
    <3>2. CASE p # n
      <4>1. p + 1 \in 1 .. n /\ ln = s[p + 1]
        BY <1>7, <1>11, <3>2
      <4> QED BY <1>7, <3>2, <4>1 DEF Once
    <3> QED BY <3>1, <3>2
  <2> HIDE DEF d
  <2>8. it2[d].lnext = IF j = Len(z) THEN NULL ELSE z[j + 1]
    <3>1. CASE t = p - 1
      <4>1. p # 1 /\ j = p - 1 /\ (j = Len(z) <=> p = n)
        BY <1>7, <1>17, <2>0, <2>10, <3>1
      <4>2. ASSUME p # n PROVE z[j + 1] = s[p + 1]
        <5>1. p \in 1 .. n - 1 /\ p <= p /\ j + 1 = p
          BY <1>7, <1>17, <2>0, <4>1, <4>2
        <5> QED BY <1>17, <5>1
      <4> QED BY <1>11, <2>4, <2>6, <3>1, <4>1, <4>2
    <3>2. CASE t # p - 1
      <4>1. j = Len(z) <=> t = n
        BY <1>7, <1>17, <2>0, <2>10, <3>2
      <4>2. ASSUME t # n PROVE z[j + 1] = s[t + 1]
        <5>1. j + 1 \in 1 .. n - 1
          BY <1>7, <1>17, <2>0, <2>10, <3>2, <4>2
        <5>2. (j + 1 < p /\ t = j) \/ (p <= j + 1 /\ t = j + 1)
          BY <1>7, <1>17, <2>0, <2>10, <3>2
        <5> QED BY <1>17, <5>1, <5>2
      <4> QED BY <2>4, <2>5, <2>6, <3>2, <4>1, <4>2
    <3> QED BY <3>1, <3>2
  <2>9. it2[d].lprev = IF j = 1 THEN NULL ELSE z[j - 1]
    <3>1. CASE t = p + 1
      <4>1. p # n /\ j = p
        BY <1>7, <1>17, <2>0, <2>10, <3>1
      <4>2. ASSUME p # 1 PROVE z[j - 1] = s[p - 1]
        <5>1. p - 1 \in 1 .. n - 1 /\ p - 1 < p /\ j - 1 = p - 1
          BY <1>7, <1>17, <2>0, <4>1, <4>2
        <5> QED BY <1>17, <5>1
      <4> QED BY <1>11, <2>4, <2>7, <3>1, <4>1, <4>2
    <3>2. CASE t # p + 1
      <4>1. j = 1 <=> t = 1
        BY <1>7, <1>17, <2>0, <2>10, <3>2
      <4>2. ASSUME t # 1 PROVE z[j - 1] = s[t - 1]
        <5>1. j - 1 \in 1 .. n - 1
          BY <1>7, <1>17, <2>0, <2>10, <4>1, <4>2
        <5>2. (j - 1 < p /\ t - 1 = j - 1) \/ (p <= j - 1 /\ t - 1 = (j - 1) + 1)
          BY <1>7, <1>17, <2>0, <2>10, <3>2
        <5> QED BY <1>17, <5>1, <5>2
      <4> QED BY <2>4, <2>5, <2>7, <3>2, <4>1, <4>2
    <3> QED BY <3>1, <3>2
  <2> QED BY <2>2, <2>8, <2>9
<1> HIDE DEF first
<1>15. Linked(it2, first, z)
  BY <1>9, <1>10, <1>12, <1>13, <1>14 DEF Linked, Once
<1>16. \A d \in DOMAIN it \ {c} : it2[d].key = it[d].key /\ it2[d].addrs = it[d].addrs
  BY <1>4, <1>5
<1> QED BY <1>6, <1>15, <1>16 DEF it2, first, z, it, lp, ln

Without(m, x) == [y \in DOMAIN m \ {x} |-> m[y]]

(* hashtbl_erase() is the removal of the key from the map.                  *)
LEMMA EraseIs ==
  ASSUME NEW h, NEW m, TableOk(h, m), NEW k \in DOMAIN Lower
  PROVE  TableOk(hashtbl_erase(h, k), Without(m, Lower[k]))
<1> DEFINE it == h.item
           m2 == Without(m, Lower[k])
           g  == hashtbl_erase(h, k)
           b  == hach_string(k)
           ch == h.table[b]
           p  == Place(h, k)
           c  == Hit(h, k)
<1>1. /\ \A d, e \in DOMAIN it : Lower[it[d].key] = Lower[it[e].key] => d = e
      /\ DOMAIN m = {Lower[it[d].key] : d \in DOMAIN it}
      /\ \A d \in DOMAIN it : m[Lower[it[d].key]] = it[d].addrs
  BY DEF TableOk, Keyed, SameKey
<1>2. DOMAIN m2 = DOMAIN m \ {Lower[k]} /\ \A y \in DOMAIN m : y # Lower[k] => m2[y] = m[y]
  BY DEF Without
<1> HIDE DEF m2
<1>3. CASE Hits(h, k) = {}
  <2>1. g = h /\ Lower[k] \notin DOMAIN m
    BY <1>3, SeekIs DEF hashtbl_erase
  <2>2. Keyed(it, m2)
    <3>1. DOMAIN m2 = DOMAIN m
      BY <1>2, <2>1
    <3>2. ASSUME NEW d \in DOMAIN it PROVE m2[Lower[it[d].key]] = it[d].addrs
      <4>1. Lower[it[d].key] \in DOMAIN m
        BY <1>1
      <4> QED BY <1>1, <1>2, <2>1, <4>1
    <3> QED BY <1>1, <3>1, <3>2 DEF Keyed, SameKey
  <2>3. TableOk(g, m2)
    BY <2>1, <2>2 DEF TableOk
  <2> QED BY <2>3 DEF m2
<1>4. CASE Hits(h, k) # {}
  <2>1. /\ p \in 1 .. Len(ch) /\ c = ch[p] /\ c \in DOMAIN it /\ Lower[it[c].key] = Lower[k]
    BY <1>4, SeekIs DEF Chain
  <2> DEFINE it2 == Relinked(h, c)
             tb2 == [h.table EXCEPT ![b] = RemoveAt(@, p)]
             f2  == IF it[c].lprev = NULL THEN it[c].lnext ELSE h.first
             z   == RemoveAt(ch, p)
  <2>2. g = [item |-> it2, table |-> tb2, first |-> f2]
    BY <1>4 DEF hashtbl_erase, WithoutCell
  <2>3. g.item = it2 /\ g.table = tb2 /\ g.first = f2
    BY <2>2
  <2>4. PICK s : Linked(it, h.first, s)
    BY DEF TableOk
  <2>5. PICK q \in 1 .. Len(s) : s[q] = c
    BY <2>1, <2>4 DEF Linked
  <2>6. /\ it2 \in [DOMAIN it \ {c} -> HCell]
        /\ \A d \in DOMAIN it \ {c} : it2[d].key = it[d].key /\ it2[d].addrs = it[d].addrs
        /\ Linked(it2, f2, RemoveAt(s, q))
    BY <2>1, <2>4, <2>5, Unlinked
  <2>7. b \in Buckets
    BY KeyFacts
  <2>8. h.table \in [Buckets -> Seq(Nat)]
    BY DEF TableOk, Chained
  <2>9. /\ \A q2 \in Buckets : Once(h.table[q2])
        /\ \A q2 \in Buckets : \A d : InChain(d, h.table[q2]) <=>
              d \in DOMAIN it /\ hach_string(it[d].key) = q2
    BY DEF TableOk, Chained, Once
  <2>10. z \in Seq(Nat) /\ IsShort(z, ch, p)
    BY <2>1, <2>7, <2>8, Shortened
  <2>11. /\ tb2 \in [Buckets -> Seq(Nat)] /\ tb2[b] = z
         /\ \A q2 \in Buckets : q2 # b => tb2[q2] = h.table[q2]
    BY <2>7, <2>8, <2>10
  <2>12. Once(z) /\ \A d : InChain(d, z) <=> InChain(d, ch) /\ d # c
    BY <2>1, <2>7, <2>9, <2>10, RemovedIs
  <2>13. hach_string(it[c].key) = b
    BY <2>1 DEF hach_string
  <2> HIDE DEF it2, tb2, f2, z, c, p, b, it
  <2>14. ASSUME NEW q2 \in Buckets
         PROVE  /\ Once(tb2[q2])
                /\ \A d : InChain(d, tb2[q2]) <=> d \in DOMAIN it2 /\ hach_string(it2[d].key) = q2
    <3>0. DOMAIN it2 = DOMAIN it \ {c}
      BY <2>6
    <3>1. CASE q2 = b
      <4>1. \A d : InChain(d, z) <=> d \in DOMAIN it2 /\ hach_string(it2[d].key) = b
        BY <2>6, <2>7, <2>9, <2>12, <3>0
      <4> QED BY <2>11, <2>12, <3>1, <4>1
    <3>2. CASE q2 # b
      BY <2>6, <2>9, <2>11, <2>13, <3>0, <3>2
    <3> QED BY <3>1, <3>2
  <2>15. Chained(it2, tb2)
    BY <2>11, <2>14 DEF Chained, Once
  <2>16. Keyed(it2, m2)
    <3>0. DOMAIN it2 = DOMAIN it \ {c}
      BY <2>6
    <3>1. \A d, e \in DOMAIN it2 : Lower[it2[d].key] = Lower[it2[e].key] => d = e
      BY <1>1, <2>6, <3>0 DEF it
    <3>2. \A d \in DOMAIN it2 : Lower[it[d].key] # Lower[k] /\ Lower[it[d].key] \in DOMAIN m
      BY <1>1, <2>1, <3>0 DEF it
    <3>3. \A d \in DOMAIN it2 : m2[Lower[it2[d].key]] = it2[d].addrs
      BY <1>1, <1>2, <2>6, <3>0, <3>2 DEF it
    <3>4. DOMAIN m2 = {Lower[it2[d].key] : d \in DOMAIN it2}
      <4>1. ASSUME NEW y \in DOMAIN m2 PROVE \E d \in DOMAIN it2 : y = Lower[it2[d].key]
        <5>1. PICK d \in DOMAIN it : y = Lower[it[d].key]
          BY <1>1, <1>2 DEF it
        <5>2. d # c
          BY <1>2, <2>1, <5>1
        <5> QED BY <2>6, <3>0, <5>1, <5>2
      <4>2. ASSUME NEW d \in DOMAIN it2 PROVE Lower[it2[d].key] \in DOMAIN m2
        BY <1>2, <2>6, <3>0, <3>2
      <4> QED BY <4>1, <4>2
    <3> QED BY <3>1, <3>3, <3>4 DEF Keyed, SameKey
  <2>17. it2 \in [DOMAIN it2 -> HCell]
    BY <2>6
  <2> HIDE DEF g
  <2>18. TableOk(g, m2)
    BY <2>3, <2>6, <2>15, <2>16, <2>17 DEF TableOk
  <2> QED BY <2>18 DEF g, m2
<1> QED BY <1>3, <1>4

(* The list of all cells, walked from its head.                             *)
LEMMA WalkIs ==
  ASSUME NEW h, NEW s, Linked(h.item, h.first, s)
  PROVE  Walk(h) = [i \in 0 .. Len(s) |-> IF i = Len(s) THEN NULL ELSE s[i + 1]]
<1> DEFINE N == Len(s)
           it == h.item
           next(c) == IF c = NULL THEN NULL ELSE it[c].lnext
           F(at) == [n \in 0 .. N |-> IF n = 0 THEN h.first ELSE next(at[n - 1])]
           W == [i \in 0 .. N |-> IF i = N THEN NULL ELSE s[i + 1]]
           A == Walk(h)
<1>0. s \in Seq(Nat)
  BY DEF Linked
<1>1. N \in Nat /\ Cardinality(DOMAIN it) = N /\ s \in Seq(Nat)
  BY <1>0, CellCount
<1>2. A = CHOOSE at : at = F(at)
  BY <1>1 DEF Walk, Cells
<1>3. \A i \in 1 .. N : s[i] # NULL
  BY <1>1, ElementOfSeq, HashAssumption
<1>4. /\ h.first = IF N = 0 THEN NULL ELSE s[1]
      /\ \A i \in 1 .. N : it[s[i]].lnext = IF i = N THEN NULL ELSE s[i + 1]
  BY DEF Linked
<1> HIDE DEF N, it
<1>5. ASSUME NEW i \in 0 .. N PROVE W[i] = IF i = 0 THEN h.first ELSE next(W[i - 1])
  <2>1. CASE i = 0
    BY <1>1, <1>4, <2>1
  <2>2. CASE i # 0
    <3>1. i - 1 \in 0 .. N /\ i - 1 # N /\ (i - 1) + 1 = i /\ i \in 1 .. N
      BY <1>1, <2>2
    <3>2. W[i - 1] = s[i]
      BY <3>1
    <3>3. next(W[i - 1]) = IF i = N THEN NULL ELSE s[i + 1]
      BY <1>3, <1>4, <3>1, <3>2
    <3> QED BY <2>2, <3>3
  <2> QED BY <2>1, <2>2
<1>6. W = F(W)
  BY <1>5
<1> HIDE DEF W
<1>7. A = F(A)
  <2> HIDE DEF F, A
  <2> QED BY <1>2, <1>6
<1> HIDE DEF A
<1>8. ASSUME NEW i \in 0 .. N PROVE A[i] = IF i = 0 THEN h.first ELSE next(A[i - 1])
  <2>1. F(A)[i] = IF i = 0 THEN h.first ELSE next(A[i - 1])
    OBVIOUS
  <2> HIDE DEF F
  <2> QED BY <1>7, <2>1
<1> HIDE DEF next
<1>9. \A i \in 0 .. N : A[i] = W[i]
  <2> DEFINE T == {i \in 0 .. N : A[i] # W[i]}
  <2> SUFFICES ASSUME T # {} PROVE FALSE
    OBVIOUS
  <2>1. T \in SUBSET Nat
    BY <1>1
  <2>2. PICK i \in T : \A j \in T : i <= j
    BY <2>1, Least
  <2>3. i # 0
    BY <1>5, <1>8
  <2>4. i - 1 \in 0 .. N /\ ~(i <= i - 1)
    BY <1>1, <2>3
  <2>5. A[i - 1] = W[i - 1]
    BY <2>2, <2>4
  <2> QED BY <1>5, <1>8, <2>3, <2>5
<1>10. A = [i \in 0 .. N |-> A[i]] /\ W = [i \in 0 .. N |-> W[i]]
  BY <1>7 DEF W
<1>11. A = W
  BY <1>9, <1>10
<1> QED BY <1>11 DEF A, W, N

LEMMA ListIsSound ==
  ASSUME NEW h, NEW m, TableOk(h, m) PROVE ListSound(h)
<1>1. PICK s : Linked(h.item, h.first, s)
  BY DEF TableOk
<1> DEFINE n == Len(s)
           it == h.item
           at == Walk(h)
<1>2. at = [i \in 0 .. n |-> IF i = n THEN NULL ELSE s[i + 1]]
  BY <1>1, WalkIs
<1>0. s \in Seq(Nat)
  BY <1>1 DEF Linked
<1>3. n \in Nat /\ Cardinality(Cells(h)) = n /\ s \in Seq(Nat)
  BY <1>0, <1>1, CellCount DEF Cells
<1>4. \A i \in 1 .. n : s[i] # NULL
  BY <1>3, ElementOfSeq, HashAssumption
<1>5. /\ Cells(h) = {s[i] : i \in 1 .. n}
      /\ \A i \in 1 .. n : it[s[i]].lprev = IF i = 1 THEN NULL ELSE s[i - 1]
  BY <1>1 DEF Linked, Cells
<1> HIDE DEF n, it, at
<1>6. at[n] = NULL /\ \A i \in 0 .. n - 1 : at[i] = s[i + 1]
  BY <1>2, <1>3
<1>7. {at[i] : i \in 0 .. n} \ {NULL} = Cells(h)
  <2>1. ASSUME NEW i \in 0 .. n, at[i] # NULL PROVE at[i] \in Cells(h)
    <3>1. i \in 0 .. n - 1 /\ i + 1 \in 1 .. n
      BY <1>3, <1>6, <2>1
    <3> QED BY <1>5, <1>6, <3>1
  <2>2. ASSUME NEW i \in 1 .. n PROVE s[i] # NULL /\ \E j \in 0 .. n : at[j] = s[i]
    <3>1. i - 1 \in 0 .. n - 1 /\ i - 1 \in 0 .. n /\ (i - 1) + 1 = i
      BY <1>3
    <3> QED BY <1>4, <1>6, <3>1
  <2> QED BY <1>5, <2>1, <2>2
<1>8. ASSUME NEW i \in 0 .. n - 1
      PROVE  it[at[i]].lprev = IF i = 0 THEN NULL ELSE at[i - 1]
  <2>1. i + 1 \in 1 .. n /\ (i + 1 = 1 <=> i = 0) /\ (i + 1) - 1 = i
    BY <1>3
  <2>2. it[at[i]].lprev = IF i = 0 THEN NULL ELSE s[i]
    BY <1>5, <1>6, <2>1
  <2>3. i # 0 => i - 1 \in 0 .. n - 1 /\ (i - 1) + 1 = i
    BY <1>3
  <2> QED BY <1>6, <2>2, <2>3
<1> QED BY <1>3, <1>6, <1>7, <1>8 DEF ListSound, at, it

(* A table in order is the map.                                             *)
LEMMA TableIsMap ==
  ASSUME NEW h, NEW m, TableOk(h, m) PROVE IsMap(h, m)
<1>1. \A k \in DOMAIN Lower :
        hashtbl_seek(h, k) = IF Lower[k] \in DOMAIN m THEN m[Lower[k]] ELSE NULL
  BY SeekFinds
<1>2. Cardinality(Cells(h)) = Cardinality(DOMAIN m)
  <2> DEFINE C == DOMAIN h.item
             f == [c \in C |-> Lower[h.item[c].key]]
  <2>1. PICK s : Linked(h.item, h.first, s)
    BY DEF TableOk
  <2>2. IsFiniteSet(C)
    BY <2>1, CellCount
  <2>3. /\ \A c, d \in C : Lower[h.item[c].key] = Lower[h.item[d].key] => c = d
        /\ DOMAIN m = {Lower[h.item[c].key] : c \in C}
    BY DEF TableOk, Keyed, SameKey
  <2> HIDE DEF C
  <2>4. f \in [C -> DOMAIN m]
    BY <2>3
  <2>5. f \in Injection(C, DOMAIN m)
    BY <2>3, <2>4 DEF Injection, IsInjective
  <2>6. f \in Surjection(C, DOMAIN m)
    BY <2>3, <2>4 DEF Surjection
  <2> HIDE DEF f
  <2>7. ExistsBijection(C, DOMAIN m)
    BY <2>5, <2>6 DEF ExistsBijection, Bijection
  <2> QED BY <2>2, <2>7, FS_Bijection DEF C, Cells
<1>3. ListSound(h)
  BY ListIsSound
<1> QED BY <1>1, <1>2, <1>3 DEF IsMap

LEMMA EmptyTable ==
  ASSUME NEW m, DOMAIN m = {} PROVE TableOk(hashtbl_init, m)
<1> DEFINE h == hashtbl_init
           e == [b \in Buckets |-> << >>]
<1>1. h.item = << >> /\ h.table = e /\ h.first = NULL
  BY DEF hashtbl_init
<1>2. << >> \in Seq(Nat) /\ Len(<< >>) = 0 /\ DOMAIN << >> = {}
  BY EmptySeq
<1>3. Linked(<< >>, NULL, << >>)
  BY <1>2 DEF Linked
<1>4. Chained(<< >>, e)
  BY <1>2 DEF Chained, InChain
<1>5. Keyed(<< >>, m)
  BY <1>2 DEF Keyed
<1>6. << >> \in [DOMAIN << >> -> HCell]
  BY <1>2
<1> HIDE DEF h, e
<1>7. TableOk(h, m)
  BY <1>1, <1>3, <1>4, <1>5, <1>6 DEF TableOk
<1> QED BY <1>7 DEF h

-----------------------------------------------------------------------------
(* What the three tables hold.                                             *)

LEMMA SameMap ==
  ASSUME NEW h, NEW m, NEW m2, TableOk(h, m), DOMAIN m2 = DOMAIN m,
         \A y \in DOMAIN m : m2[y] = m[y]
  PROVE  TableOk(h, m2)
<1>1. Keyed(h.item, m2)
  BY DEF TableOk, Keyed
<1> QED BY <1>1 DEF TableOk

LiveIn(S, st) == {t \in S : st[t] = "live"}
Ids(S, st) == [t \in LiveIn(S, st) |-> t]

Status == {"none", "live", "gone"}

LEMMA IdAdded ==
  ASSUME NEW S \in SUBSET Things, NEW st \in [Things -> Status], NEW h, TableOk(h, Ids(S, st)),
         NEW t \in S, st[t] # "live"
  PROVE  TableOk(hashtbl_append(h, t, t), Ids(S, [st EXCEPT ![t] = "live"]))
<1> DEFINE m == Ids(S, st)
           st2 == [st EXCEPT ![t] = "live"]
           m2 == Ids(S, st2)
           g == hashtbl_append(h, t, t)
<1>1. t \in Things /\ t \in DOMAIN Lower /\ Lower[t] = t
  BY LowerAssumption
<1>2. DOMAIN m = LiveIn(S, st) /\ \A y \in LiveIn(S, st) : m[y] = y
  BY DEF Ids
<1>3. LiveIn(S, st2) = LiveIn(S, st) \cup {t} /\ t \notin LiveIn(S, st)
  BY <1>1 DEF LiveIn
<1>4. DOMAIN m2 = LiveIn(S, st2) /\ \A y \in LiveIn(S, st2) : m2[y] = y
  BY DEF Ids
<1> HIDE DEF m, m2
<1>5. TableOk(g, Put(m, t, t))
  <2>1. TableOk(h, m)
    BY DEF m
  <2> QED BY <1>1, <1>2, <1>3, <2>1, AppendNew
<1>6. DOMAIN Put(m, t, t) = DOMAIN m2 /\ \A y \in DOMAIN Put(m, t, t) : m2[y] = Put(m, t, t)[y]
  BY <1>2, <1>3, <1>4 DEF Put
<1> HIDE DEF g
<1>7. TableOk(g, m2)
  BY <1>5, <1>6, SameMap
<1> QED BY <1>7 DEF g, m2

LEMMA IdGone ==
  ASSUME NEW S \in SUBSET Things, NEW st \in [Things -> Status], NEW h, TableOk(h, Ids(S, st)),
         NEW t \in S
  PROVE  TableOk(hashtbl_erase(h, t), Ids(S, [st EXCEPT ![t] = "gone"]))
<1> DEFINE m == Ids(S, st)
           st2 == [st EXCEPT ![t] = "gone"]
           m2 == Ids(S, st2)
           g == hashtbl_erase(h, t)
<1>1. t \in Things /\ t \in DOMAIN Lower /\ Lower[t] = t
  BY LowerAssumption
<1>2. DOMAIN m = LiveIn(S, st) /\ \A y \in LiveIn(S, st) : m[y] = y
  BY DEF Ids
<1>3. LiveIn(S, st2) = LiveIn(S, st) \ {t}
  BY <1>1 DEF LiveIn
<1>4. DOMAIN m2 = LiveIn(S, st2) /\ \A y \in LiveIn(S, st2) : m2[y] = y
  BY DEF Ids
<1> HIDE DEF m, m2
<1>5. TableOk(g, Without(m, t))
  <2>1. TableOk(h, m)
    BY DEF m
  <2> QED BY <1>1, <2>1, EraseIs
<1>6. DOMAIN Without(m, t) = DOMAIN m2 /\ \A y \in DOMAIN Without(m, t) : m2[y] = Without(m, t)[y]
  BY <1>2, <1>3, <1>4 DEF Without
<1> HIDE DEF g
<1>7. TableOk(g, m2)
  BY <1>5, <1>6, SameMap
<1> QED BY <1>7 DEF g, m2

LEMMA IdSame ==
  ASSUME NEW S \in SUBSET Things, NEW st \in [Things -> Status], NEW h, TableOk(h, Ids(S, st)),
         NEW t \in Things \ S, NEW v
  PROVE  TableOk(h, Ids(S, [st EXCEPT ![t] = v]))
<1>1. LiveIn(S, [st EXCEPT ![t] = v]) = LiveIn(S, st)
  BY DEF LiveIn
<1> QED BY <1>1 DEF Ids

(* The names of channels.                                                   *)
NamesOk(st, nm) ==
  /\ \A c, d \in LiveIn(Chans, st) : nm[c] = nm[d] => c = d
  /\ \A c \in LiveIn(Chans, st) : \E n \in Names : nm[c] = Lower[n]
ByName(st, nm) ==
  [n \in {nm[c] : c \in LiveIn(Chans, st)} |-> CHOOSE c \in LiveIn(Chans, st) : nm[c] = n]

LEMMA ByNameDomain ==
  ASSUME NEW st, NEW nm
  PROVE  DOMAIN ByName(st, nm) = {nm[c] : c \in LiveIn(Chans, st)}
  BY DEF ByName

LEMMA ByNameIs ==
  ASSUME NEW st, NEW nm, NamesOk(st, nm)
  PROVE  /\ DOMAIN ByName(st, nm) = {nm[c] : c \in LiveIn(Chans, st)}
         /\ \A c \in LiveIn(Chans, st) : ByName(st, nm)[nm[c]] = c
<1> DEFINE L == LiveIn(Chans, st)
<1> HIDE DEF L
<1>1. ByName(st, nm) = [n \in {nm[c] : c \in L} |-> CHOOSE c \in L : nm[c] = n]
  BY DEF ByName, L
<1>2. \A c, d \in L : nm[c] = nm[d] => c = d
  BY DEF NamesOk, L
<1>3. ASSUME NEW c \in L PROVE ByName(st, nm)[nm[c]] = c
  <2>1. ByName(st, nm)[nm[c]] = CHOOSE d \in L : nm[d] = nm[c]
    BY <1>1
  <2> QED BY <1>2, <2>1
<1> QED BY <1>1, <1>3 DEF L

LEMMA NameAdded ==
  ASSUME NEW st \in [Things -> Status], NEW nm, DOMAIN nm = Chans,
         NamesOk(st, nm), NEW h, TableOk(h, ByName(st, nm)),
         NEW c \in Chans, st[c] # "live", NEW n \in Names, Lower[n] \notin DOMAIN ByName(st, nm),
         NEW st2, st2 = [st EXCEPT ![c] = "live"],
         NEW nm2, nm2 = [nm EXCEPT ![c] = Lower[n]]
  PROVE  NamesOk(st2, nm2) /\ TableOk(hashtbl_append(h, Lower[n], c), ByName(st2, nm2))
<1> DEFINE m == ByName(st, nm)
           m2 == ByName(st2, nm2)
           L == LiveIn(Chans, st)
           L2 == LiveIn(Chans, st2)
           k == Lower[n]
           g == hashtbl_append(h, k, c)
<1>1. c \in Things /\ n \in DOMAIN Lower
  BY LowerAssumption DEF Things
<1>2. k \in DOMAIN Lower /\ Lower[k] = k
  BY <1>1, HashAssumption
<1>3. L2 = L \cup {c} /\ c \notin L
  BY <1>1 DEF LiveIn
<1>4. nm2[c] = k /\ \A d \in L : nm2[d] = nm[d]
  BY <1>3 DEF LiveIn
<1>5. /\ DOMAIN m = {nm[d] : d \in L} /\ \A d \in L : m[nm[d]] = d
      /\ \A d \in L : \E n2 \in Names : nm[d] = Lower[n2]
      /\ \A d, e \in L : nm[d] = nm[e] => d = e
  <2>1. DOMAIN m = {nm[d] : d \in L}
    BY ByNameDomain
  <2>2. \A d \in L : m[nm[d]] = d
    BY ByNameIs
  <2>3. /\ \A d \in L : \E n2 \in Names : nm[d] = Lower[n2]
        /\ \A d, e \in L : nm[d] = nm[e] => d = e
    BY DEF NamesOk
  <2> QED BY <2>1, <2>2, <2>3
<1> HIDE DEF m, L, L2
<1>6. \A d \in L : nm[d] # k
  BY <1>5 DEF m
<1>7. NamesOk(st2, nm2)
  <2>1. \A d, e \in L2 : nm2[d] = nm2[e] => d = e
    BY <1>3, <1>4, <1>5, <1>6
  <2>2. \A d \in L2 : \E n2 \in Names : nm2[d] = Lower[n2]
    BY <1>3, <1>4, <1>5
  <2> QED BY <2>1, <2>2 DEF NamesOk, L2
<1>8. DOMAIN m2 = {nm2[d] : d \in L2} /\ \A d \in L2 : m2[nm2[d]] = d
  <2>1. DOMAIN m2 = {nm2[d] : d \in LiveIn(Chans, st2)}
    BY DEF ByName
  <2>2. \A d \in LiveIn(Chans, st2) : m2[nm2[d]] = d
    BY <1>7, ByNameIs
  <2> HIDE DEF m2
  <2> QED BY <2>1, <2>2 DEF L2
<1> HIDE DEF m2
<1>9. TableOk(g, Put(m, k, c))
  <2>1. TableOk(h, m) /\ k \notin DOMAIN m
    BY DEF m
  <2> QED BY <1>1, <1>2, <2>1, AppendNew
<1>10. DOMAIN Put(m, k, c) = DOMAIN m2
  BY <1>3, <1>4, <1>5, <1>8 DEF Put
<1>11. ASSUME NEW y \in DOMAIN Put(m, k, c) PROVE m2[y] = Put(m, k, c)[y]
  <2>1. CASE y = k
    BY <1>3, <1>4, <1>8, <2>1 DEF Put
  <2>2. CASE y # k
    <3>1. y \in DOMAIN m /\ Put(m, k, c)[y] = m[y]
      BY <2>2 DEF Put
    <3>2. PICK d \in L : y = nm[d]
      BY <1>5, <3>1
    <3> QED BY <1>3, <1>4, <1>5, <1>8, <3>1, <3>2
  <2> QED BY <2>1, <2>2
<1> HIDE DEF g
<1>12. TableOk(g, m2)
  BY <1>9, <1>10, <1>11, SameMap
<1> QED BY <1>7, <1>12 DEF g, m2

LEMMA NameGone ==
  ASSUME NEW st \in [Things -> Status], NEW nm, DOMAIN nm = Chans,
         NamesOk(st, nm), NEW h, TableOk(h, ByName(st, nm)),
         NEW c \in Chans, st[c] = "live",
         NEW st2, st2 = [st EXCEPT ![c] = "gone"],
         NEW nm2, nm2 = [nm EXCEPT ![c] = NULL]
  PROVE  NamesOk(st2, nm2) /\ TableOk(hashtbl_erase(h, nm[c]), ByName(st2, nm2))
<1> DEFINE m == ByName(st, nm)
           m2 == ByName(st2, nm2)
           L == LiveIn(Chans, st)
           L2 == LiveIn(Chans, st2)
           k == nm[c]
           g == hashtbl_erase(h, k)
<1>1. c \in Things
  BY DEF Things
<1>3. L2 = L \ {c} /\ c \in L
  BY <1>1 DEF LiveIn
<1>4. \A d \in L2 : nm2[d] = nm[d]
  BY <1>3 DEF LiveIn
<1>0. DOMAIN m = {nm[d] : d \in L} /\ \A d \in L : m[nm[d]] = d
  BY ByNameIs
<1>5. /\ DOMAIN m = {nm[d] : d \in L} /\ \A d \in L : m[nm[d]] = d
      /\ \A d \in L : \E n2 \in Names : nm[d] = Lower[n2]
      /\ \A d, e \in L : nm[d] = nm[e] => d = e
  BY <1>0 DEF NamesOk
<1> HIDE DEF m, L, L2
<1>2. k \in DOMAIN Lower /\ Lower[k] = k
  <2>1. PICK n \in Names : k = Lower[n]
    BY <1>3, <1>5
  <2> QED BY <2>1, LowerAssumption, HashAssumption
<1>7. NamesOk(st2, nm2)
  <2>1. \A d, e \in L2 : nm2[d] = nm2[e] => d = e
    BY <1>3, <1>4, <1>5
  <2>2. \A d \in L2 : \E n2 \in Names : nm2[d] = Lower[n2]
    BY <1>3, <1>4, <1>5
  <2> QED BY <2>1, <2>2 DEF NamesOk, L2
<1>8. DOMAIN m2 = {nm2[d] : d \in L2} /\ \A d \in L2 : m2[nm2[d]] = d
  <2>1. DOMAIN m2 = {nm2[d] : d \in LiveIn(Chans, st2)}
    BY DEF ByName
  <2>2. \A d \in LiveIn(Chans, st2) : m2[nm2[d]] = d
    BY <1>7, ByNameIs
  <2> HIDE DEF m2
  <2> QED BY <2>1, <2>2 DEF L2
<1> HIDE DEF m2, k
<1>9. TableOk(g, Without(m, k))
  <2>1. TableOk(h, m)
    BY DEF m
  <2>2. TableOk(hashtbl_erase(h, k), Without(m, Lower[k]))
    BY <1>2, <2>1, EraseIs
  <2> QED BY <1>2, <2>2
<1>6. \A d \in L2 : nm[d] # k
  BY <1>3, <1>5 DEF k
<1>10. DOMAIN Without(m, k) = DOMAIN m2
  BY <1>3, <1>4, <1>5, <1>6, <1>8 DEF Without, k
<1>11. ASSUME NEW y \in DOMAIN Without(m, k) PROVE m2[y] = Without(m, k)[y]
  <2>1. y \in DOMAIN m /\ y # k /\ Without(m, k)[y] = m[y]
    BY DEF Without
  <2>2. PICK d \in L : y = nm[d]
    BY <1>5, <2>1
  <2>3. d \in L2
    BY <1>3, <2>1, <2>2 DEF k
  <2> QED BY <1>4, <1>5, <1>8, <2>1, <2>2, <2>3
<1> HIDE DEF g
<1>12. TableOk(g, m2)
  BY <1>9, <1>10, <1>11, SameMap
<1> QED BY <1>7, <1>12 DEF g, m2, k

TableNames == {"hPubid", "hLusers", "hSessid"}
TabsOk(tb, st, nm) ==
  /\ tb = [n \in TableNames |-> tb[n]]
  /\ TableOk(tb.hPubid, Ids(Things, st))
  /\ TableOk(tb.hSessid, Ids(Users, st))
  /\ TableOk(tb.hLusers, ByName(st, nm))
  /\ NamesOk(st, nm)

AreTables(tb, p, s, l) ==
  tb = [n \in TableNames |-> tb[n]] /\ tb.hPubid = p /\ tb.hSessid = s /\ tb.hLusers = l

LEMMA TwoTables ==
  ASSUME NEW tb, tb = [n \in TableNames |-> tb[n]], NEW x, NEW y
  PROVE  /\ AreTables([tb EXCEPT !.hPubid = x], x, tb.hSessid, tb.hLusers)
         /\ AreTables([tb EXCEPT !.hPubid = x, !["hSessid"] = y], x, y, tb.hLusers)
         /\ AreTables([tb EXCEPT !.hPubid = x, !["hLusers"] = y], x, tb.hSessid, y)
         /\ AreTables([tb EXCEPT !["hSessid"] = y, !.hPubid = x], x, y, tb.hLusers)
         /\ AreTables([tb EXCEPT !["hLusers"] = y, !.hPubid = x], x, tb.hSessid, y)
BY DEF TableNames, AreTables

LEMMA EnteredIs ==
  ASSUME tables = [n \in TableNames |-> tables[n]], NEW t, NEW key
  PROVE  /\ Entered(t, "hSessid", key) =>
              /\ tables' = [n \in TableNames |-> tables'[n]]
              /\ tables'.hPubid = hashtbl_append(tables.hPubid, t, t)
              /\ tables'.hSessid = hashtbl_append(tables.hSessid, key, t)
              /\ tables'.hLusers = tables.hLusers
         /\ Entered(t, "hLusers", key) =>
              /\ tables' = [n \in TableNames |-> tables'[n]]
              /\ tables'.hPubid = hashtbl_append(tables.hPubid, t, t)
              /\ tables'.hLusers = hashtbl_append(tables.hLusers, key, t)
              /\ tables'.hSessid = tables.hSessid
<1> DEFINE p == hashtbl_append(tables.hPubid, t, t)
           s == hashtbl_append(tables.hSessid, key, t)
           l == hashtbl_append(tables.hLusers, key, t)
<1>1. Entered(t, "hSessid", key) => tables' = [tables EXCEPT !.hPubid = p, !["hSessid"] = s]
  BY DEF Entered, TableNames
<1>2. Entered(t, "hLusers", key) => tables' = [tables EXCEPT !.hPubid = p, !["hLusers"] = l]
  BY DEF Entered, TableNames
<1> HIDE DEF p, s, l
<1>3. ASSUME Entered(t, "hSessid", key)
      PROVE  /\ tables' = [n \in TableNames |-> tables'[n]]
             /\ tables'.hPubid = p /\ tables'.hSessid = s /\ tables'.hLusers = tables.hLusers
  <2>1. AreTables([tables EXCEPT !.hPubid = p, !["hSessid"] = s], p, s, tables.hLusers)
    BY TwoTables
  <2>2. AreTables(tables', p, s, tables.hLusers)
    BY <1>1, <1>3, <2>1
  <2> QED BY <2>2 DEF AreTables
<1>4. ASSUME Entered(t, "hLusers", key)
      PROVE  /\ tables' = [n \in TableNames |-> tables'[n]]
             /\ tables'.hPubid = p /\ tables'.hLusers = l /\ tables'.hSessid = tables.hSessid
  <2>1. AreTables([tables EXCEPT !.hPubid = p, !["hLusers"] = l], p, tables.hSessid, l)
    BY TwoTables
  <2>2. AreTables(tables', p, tables.hSessid, l)
    BY <1>2, <1>4, <2>1
  <2> QED BY <2>2 DEF AreTables
<1> QED BY <1>3, <1>4 DEF p, s, l

LEMMA LeftTables ==
  ASSUME tables = [n \in TableNames |-> tables[n]], NEW t, NEW key
  PROVE  /\ Freed(t, "hSessid", key) =>
              /\ tables' = [n \in TableNames |-> tables'[n]]
              /\ tables'.hPubid = hashtbl_erase(tables.hPubid, t)
              /\ tables'.hSessid = hashtbl_erase(tables.hSessid, key)
              /\ tables'.hLusers = tables.hLusers
         /\ Freed(t, "hLusers", key) =>
              /\ tables' = [n \in TableNames |-> tables'[n]]
              /\ tables'.hPubid = hashtbl_erase(tables.hPubid, t)
              /\ tables'.hLusers = hashtbl_erase(tables.hLusers, key)
              /\ tables'.hSessid = tables.hSessid
<1> DEFINE p == hashtbl_erase(tables.hPubid, t)
           s == hashtbl_erase(tables.hSessid, key)
           l == hashtbl_erase(tables.hLusers, key)
<1>1. Freed(t, "hSessid", key) => tables' = [tables EXCEPT !["hSessid"] = s, !.hPubid = p]
  BY DEF Freed, TableNames
<1>2. Freed(t, "hLusers", key) => tables' = [tables EXCEPT !["hLusers"] = l, !.hPubid = p]
  BY DEF Freed, TableNames
<1> HIDE DEF p, s, l
<1>3. ASSUME Freed(t, "hSessid", key)
      PROVE  /\ tables' = [n \in TableNames |-> tables'[n]]
             /\ tables'.hPubid = p /\ tables'.hSessid = s /\ tables'.hLusers = tables.hLusers
  <2>1. AreTables([tables EXCEPT !["hSessid"] = s, !.hPubid = p], p, s, tables.hLusers)
    BY TwoTables
  <2>2. AreTables(tables', p, s, tables.hLusers)
    BY <1>1, <1>3, <2>1
  <2> QED BY <2>2 DEF AreTables
<1>4. ASSUME Freed(t, "hLusers", key)
      PROVE  /\ tables' = [n \in TableNames |-> tables'[n]]
             /\ tables'.hPubid = p /\ tables'.hLusers = l /\ tables'.hSessid = tables.hSessid
  <2>1. AreTables([tables EXCEPT !["hLusers"] = l, !.hPubid = p], p, tables.hSessid, l)
    BY TwoTables
  <2>2. AreTables(tables', p, tables.hSessid, l)
    BY <1>2, <1>4, <2>1
  <2> QED BY <2>2 DEF AreTables
<1> QED BY <1>3, <1>4 DEF p, s, l

LEMMA LookUps ==
  ASSUME TabsOk(tables, state, name), state \in [Things -> Status]
  PROVE  /\ \A t \in Things : get_pipe(t) = IF Live(t) THEN t ELSE NULL
         /\ \A n \in Names :
              IF Lower[n] \in {name[c] : c \in LiveIn(Chans, state)}
              THEN getchan(n) \in LiveIn(Chans, state) /\ name[getchan(n)] = Lower[n]
              ELSE getchan(n) = NULL
<1>1. ASSUME NEW t \in Things PROVE get_pipe(t) = IF Live(t) THEN t ELSE NULL
  <2>1. t \in DOMAIN Lower /\ Lower[t] = t
    BY LowerAssumption
  <2>2. TableOk(tables.hPubid, Ids(Things, state))
    BY DEF TabsOk
  <2>3. hashtbl_seek(tables.hPubid, t) = IF t \in DOMAIN Ids(Things, state)
                                         THEN Ids(Things, state)[t] ELSE NULL
    BY <2>1, <2>2, SeekFinds
  <2> QED BY <2>3 DEF get_pipe, Ids, LiveIn, Live
<1>2. ASSUME NEW n \in Names
      PROVE  IF Lower[n] \in {name[c] : c \in LiveIn(Chans, state)}
              THEN getchan(n) \in LiveIn(Chans, state) /\ name[getchan(n)] = Lower[n]
              ELSE getchan(n) = NULL
  <2> DEFINE m == ByName(state, name)
             L == LiveIn(Chans, state)
  <2>1. n \in DOMAIN Lower
    BY LowerAssumption
  <2>2. TableOk(tables.hLusers, m) /\ NamesOk(state, name)
    BY DEF TabsOk
  <2>3. DOMAIN m = {name[c] : c \in L} /\ \A c \in L : m[name[c]] = c
    BY <2>2, ByNameIs
  <2> HIDE DEF m, L
  <2>4. getchan(n) = IF Lower[n] \in DOMAIN m THEN m[Lower[n]] ELSE NULL
    BY <2>1, <2>2, SeekFinds DEF getchan
  <2>5. CASE Lower[n] \in DOMAIN m
    <3>1. PICK c \in L : Lower[n] = name[c]
      BY <2>3, <2>5
    <3>2. getchan(n) = c
      BY <2>3, <2>4, <2>5, <3>1
    <3> QED BY <2>3, <2>5, <3>1, <3>2 DEF L
  <2>6. CASE Lower[n] \notin DOMAIN m
    BY <2>3, <2>4, <2>6 DEF L
  <2> QED BY <2>5, <2>6
<1> QED BY <1>1, <1>2

-----------------------------------------------------------------------------
(* The inductive invariant.                                                *)

(* The objects of what lives have not been collected.                       *)
JsOk ==
  /\ \A t \in Things : Live(t) /\ (t \in Customs => t \in held) => js[Pipe(t)] = "alive"
  /\ \A t \in Users \cup Chans : Live(t) => js[Obj(t)] = "alive"

World ==
  /\ TabsOk(tables, state, name)
  /\ PropsOk(props, heap)
  /\ OnOk
  /\ PrivOk
  /\ ObjOk
  /\ RootsOk
  /\ JsOk

BInv == TInv /\ Stacked /\ World

Heard == [users : SUBSET Users, list : [Chans -> SUBSET Users]]

LEMMA Same ==
  ASSUME TInv, World, Stacked',
         UNCHANGED <<api, state, name, on, tables, props, heap, js, priv, data, roots, held>>,
         istmp' \subseteq Users, auto' \subseteq Chans, calls' \in 0 .. MaxCalls,
         heard' \in Heard, unheard' \subseteq Things
  PROVE  BInv'
<1>1. TInv'
  BY DEF TInv, Heard
<1>2. World'
  BY DEF World, OnOk, OnLive, PrivOk, ObjOk, RootsOk, JsOk, Live
<1> QED BY <1>1, <1>2 DEF BInv

LEMMA CallsBound ==
  ASSUME TInv
  PROVE  /\ \A s, f : Run(s, f) => calls' \in 0 .. MaxCalls
         /\ \A n, f : Continue(n) \/ Fire(f, n) => calls' \in 0 .. MaxCalls
         /\ \A n : Called(n) /\ (Idle \/ calls < MaxCalls) => calls' \in 0 .. MaxCalls
<1>1. calls \in 0 .. MaxCalls /\ 0 \in 0 .. MaxCalls /\ (calls < MaxCalls => calls + 1 \in 0 .. MaxCalls)
  BY BoundsAssumption DEF TInv
<1>2. \A s, f : Run(s, f) => calls' \in 0 .. MaxCalls
  BY <1>1 DEF Run
<1>3. \A n : Called(n) /\ (Idle \/ calls < MaxCalls) => calls' \in 0 .. MaxCalls
  BY <1>1 DEF Called
<1> QED BY <1>2, <1>3 DEF Continue, Fire

LEMMA HeardTypes ==
  ASSUME TInv, NEW u \in Users, NEW c \in Chans
  PROVE  /\ [heard EXCEPT !.list[c] = @ \cup {u}] \in Heard
         /\ [heard EXCEPT !.list[c] = @ \ {u}] \in Heard
         /\ [heard EXCEPT !.list[c] = {}] \in Heard
         /\ [heard EXCEPT !.users = @ \cup {u}] \in Heard
         /\ [heard EXCEPT !.users = @ \ {u}] \in Heard
BY DEF TInv, Heard

LEMMA HeadTask ==
  ASSUME Stacked, todo # << >>
  PROVE  /\ Head(todo) \in Task
         /\ \A x \in Things : x \in Pins(Head(todo)) => Live(x)
BY Under DEF Stacked, UnderOk, Live

LEMMA JoinFireStep == ASSUME BInv, JoinFire PROVE BInv'
<1>1. Stacked'
  BY JoinFireStack DEF BInv
<1>2. calls' \in 0 .. MaxCalls
  BY CallsBound DEF BInv, JoinFire
<1> QED BY <1>1, <1>2, Same DEF BInv, JoinFire, server, engine, report, TInv, Heard

LEMMA LeftFireStep == ASSUME BInv, LeftFire PROVE BInv'
<1>1. Stacked'
  BY LeftFireStack DEF BInv
<1>2. calls' \in 0 .. MaxCalls
  BY CallsBound DEF BInv, LeftFire
<1>3. This \in Users /\ That \in Chans
  BY HeadTask DEF BInv, LeftFire, At, This, That, Task
<1>4. heard' \in Heard
  BY <1>3, HeardTypes DEF BInv, LeftFire
<1> QED BY <1>1, <1>2, <1>4, Same DEF BInv, LeftFire, server, engine, TInv

LEMMA RmchanStep == ASSUME BInv, rmchan PROVE BInv'
<1>1. Stacked'
  BY RmchanStack DEF BInv, World
<1>2. calls' \in 0 .. MaxCalls
  BY CallsBound DEF BInv, rmchan
<1>3. auto' \subseteq Chans
  BY DEF BInv, TInv, rmchan, DontDestroy
<1> QED BY <1>1, <1>2, <1>3, Same DEF BInv, rmchan, engine, report, TInv, Heard

LEMMA RmchanFireStep == ASSUME BInv, RmchanFire PROVE BInv'
<1>1. Stacked'
  BY RmchanFireStack DEF BInv
<1>2. calls' \in 0 .. MaxCalls
  BY CallsBound DEF BInv, RmchanFire
<1> QED BY <1>1, <1>2, Same DEF BInv, RmchanFire, server, engine, report, TInv, Heard

LEMMA DeluserStep == ASSUME BInv, deluser PROVE BInv'
<1>1. Stacked'
  BY DeluserStack DEF BInv, World
<1>2. calls' \in 0 .. MaxCalls
  BY CallsBound DEF BInv, deluser
<1> QED BY <1>1, <1>2, Same DEF BInv, deluser, server, engine, report, TInv, Heard

LEMMA DeluserFireStep == ASSUME BInv, DeluserFire PROVE BInv'
<1>1. Stacked'
  BY DeluserFireStack DEF BInv
<1>2. calls' \in 0 .. MaxCalls
  BY CallsBound DEF BInv, DeluserFire
<1>3. This \in Users
  BY HeadTask DEF BInv, DeluserFire, At, This, Task
<1>4. heard \in Heard /\ unheard \subseteq Things /\ [heard EXCEPT !.users = @ \ {This}] \in Heard
  BY <1>3 DEF BInv, TInv, Heard
<1>5. heard' \in Heard /\ unheard' \subseteq Things
  BY <1>4 DEF DeluserFire, report
<1> QED BY <1>1, <1>2, <1>5, Same DEF BInv, DeluserFire, server, engine, TInv

LEMMA AdduserStep == ASSUME BInv, adduser PROVE BInv'
<1>1. Stacked'
  BY AdduserStack DEF BInv
<1>2. calls' \in 0 .. MaxCalls
  BY CallsBound DEF BInv, adduser
<1>3. This \in Users /\ This \in Things
  BY HeadTask DEF BInv, adduser, At, This, Task, Things
<1>4. heard \in Heard /\ unheard \subseteq Things /\ [heard EXCEPT !.users = @ \cup {This}] \in Heard
  BY <1>3 DEF BInv, TInv, Heard
<1>5. heard' \in Heard /\ unheard' \subseteq Things /\ istmp' \subseteq Users
  BY <1>3, <1>4 DEF adduser, Accepted, BInv, TInv
<1> QED BY <1>1, <1>2, <1>5, Same DEF BInv, adduser, engine, TInv

LEMMA ReturnStep == ASSUME BInv, Return \/ Refuse PROVE BInv'
<1>1. CASE Return
  <2>1. Stacked'
    BY <1>1, DroppedStack DEF BInv, Return, At, server, engine
  <2>2. calls' \in 0 .. MaxCalls
    BY <1>1, CallsBound DEF BInv, Return
  <2> QED BY <1>1, <2>1, <2>2, Same DEF BInv, Return, server, engine, report, TInv, Heard
<1>2. CASE Refuse
  <2>1. Stacked'
    BY <1>2, RefuseStack DEF BInv
  <2>2. calls' \in 0 .. MaxCalls
    BY <1>2, CallsBound DEF BInv, Refuse
  <2> QED BY <1>2, <2>1, <2>2, Same DEF BInv, Refuse, server, engine, report, TInv, Heard
<1> QED BY <1>1, <1>2

LEMMA FoundLiveHolds == ASSUME BInv PROVE FoundLive
<1>1. TabsOk(tables, state, name) /\ state \in [Things -> Status]
  BY DEF BInv, World, TInv, Status
<1> QED BY <1>1, LookUps DEF FoundLive, LiveIn, Live

(* Calls that leave everything but the stack as it is.                      *)
LEMMA CallStep ==
  ASSUME BInv, Stacked', NEW new, Called(new), Idle \/ calls < MaxCalls,
         UNCHANGED <<server, engine, fire, report>>
  PROVE  BInv'
<1>1. calls' \in 0 .. MaxCalls
  BY CallsBound DEF BInv
<1> QED BY <1>1, Same DEF BInv, server, engine, report, TInv, Heard

LEMMA OutsideStep ==
  ASSUME BInv,
         \/ \E u \in Users : cmd_quit(u)
         \/ \E u, w \in Users : check_timeout(u, w)
         \/ Timer
         \/ \E u \in Users, p \in Customs : cmd_send(u, p)
         \/ \E u \in Users, n \in api.names : cmd_left(u, n)
         \/ \E u \in Users, n \in api.names : cmd_join(u, n) /\ getchan(n) # NULL
  PROVE  BInv'
<1>1. Stacked'
  BY OutsideStack, FoundLiveHolds DEF BInv, TInv, World, OnOk
<1>2. PICK new : Called(new) /\ Idle /\ UNCHANGED <<server, engine, fire, report>>
  BY DEF cmd_quit, check_timeout, Timer, cmd_send, cmd_left, cmd_join
<1> QED BY <1>1, <1>2, CallStep

LEMMA ScriptCallStep ==
  ASSUME BInv, NEW u \in Users,
         \/ apeuser_sm_quit(Obj(u)) \/ ape_sm_adduser(Obj(u))
         \/ \E c \in Chans :
              apeuser_sm_join(Obj(u), Obj(c)) \/ apeuser_sm_left(Obj(u), Obj(c))
  PROVE  BInv'
<1>1. \A t \in Users \cup Chans : priv[Obj(t)] # NULL => priv[Obj(t)] = t /\ Live(t)
  BY DEF BInv, World, PrivOk
<1>2. Stacked /\ OnOk
  BY DEF BInv, World
<1>3. CASE apeuser_sm_quit(Obj(u))
  <2>1. /\ Live(u) /\ MayDelete(u) /\ Called(<<Do("deluser", u, NULL)>>) /\ calls < MaxCalls
        /\ UNCHANGED <<server, engine, fire, report>>
    BY <1>1, <1>3 DEF apeuser_sm_quit, MayCall
  <2>2. Stacked'
    BY <1>2, <2>1, SmQuitStack DEF server, engine
  <2> QED BY <2>1, <2>2, CallStep
<1>4. CASE ape_sm_adduser(Obj(u))
  <2>1. /\ Live(u) /\ MayAccept(u) /\ Called(<<Do("adduser", u, NULL), Do("done", u, NULL)>>)
        /\ calls < MaxCalls /\ UNCHANGED <<server, engine, fire, report>>
    BY <1>1, <1>4 DEF ape_sm_adduser, MayCall
  <2>2. Stacked'
    BY <1>2, <2>1, SmAdduserStack DEF server, engine
  <2> QED BY <2>1, <2>2, CallStep
<1>5. ASSUME NEW c \in Chans, apeuser_sm_join(Obj(u), Obj(c)) PROVE BInv'
  <2>1. /\ Live(u) /\ Live(c) /\ MayJoin(u, c) /\ Called(<<Do("join", u, c)>>) /\ calls < MaxCalls
        /\ UNCHANGED <<server, engine, fire, report>>
    BY <1>1, <1>5 DEF apeuser_sm_join, MayCall
  <2>2. Stacked'
    BY <1>2, <2>1, SmJoinStack DEF server, engine
  <2> QED BY <2>1, <2>2, CallStep
<1>6. ASSUME NEW c \in Chans, apeuser_sm_left(Obj(u), Obj(c)) PROVE BInv'
  <2>1. /\ Live(u) /\ Live(c) /\ MayTakeOff(c) /\ Called(<<Do("left", u, c)>>) /\ calls < MaxCalls
        /\ UNCHANGED <<server, engine, fire, report>>
    BY <1>1, <1>6 DEF apeuser_sm_left, MayCall
  <2>2. Stacked'
    BY <1>2, <2>1, SmLeftStack DEF server, engine
  <2> QED BY <2>1, <2>2, CallStep
<1> QED BY <1>3, <1>4, <1>5, <1>6

LEMMA SmRmchanStep ==
  ASSUME BInv, NEW c \in Chans, ape_sm_rmchan(Obj(c)) PROVE BInv'
<1>1. priv[Obj(c)] # NULL => priv[Obj(c)] = c /\ Live(c)
  BY DEF BInv, World, PrivOk
<1>2. /\ Live(c) /\ MayTakeOff(c) /\ Called(<<Do("rmchan", c, NULL)>>) /\ calls < MaxCalls
      /\ UNCHANGED <<server, engine, fire, report>>
  BY <1>1 DEF ape_sm_rmchan, MayCall
<1>3. Stacked'
  BY <1>2, SmRmchanStack DEF server, engine, BInv
<1> QED BY <1>2, <1>3, CallStep

-----------------------------------------------------------------------------
(* Joining and leaving.                                                    *)

LEMMA JoinStep == ASSUME BInv, join PROVE BInv'
<1>0. join /\ TInv /\ World /\ Stacked
  BY DEF BInv
<1>1. Stacked'
  BY <1>0, JoinStack
<1>2. todo # << >> /\ Head(todo).op \in {"join", "join_now"}
  BY <1>0 DEF join, At
<1>3. /\ This \in Users /\ That \in Chans /\ This \in Things /\ That \in Things
      /\ Live(This) /\ Live(That)
  BY <1>0, <1>2, HeadTask DEF This, That, Task, Pins, Things
<1>4. calls' \in 0 .. MaxCalls
  BY <1>0, CallsBound DEF join
<1>5. heard' \in Heard /\ unheard' \subseteq Things
  <2>1. heard \in Heard /\ unheard \subseteq Things /\ [heard EXCEPT !.list[That] = @ \cup {This}] \in Heard
    BY <1>0, <1>3, HeardTypes DEF TInv, Heard
  <2> QED BY <1>0, <1>3, <2>1 DEF join
<1>6. TInv'
  BY <1>0, <1>4, <1>5 DEF join, TInv, Heard, engine
<1>7. OnOk'
  <2>1. IsFiniteSet(on')
    BY <1>0, FS_AddElement DEF join, World, OnOk
  <2> QED BY <1>0, <1>3, <2>1 DEF join, World, OnOk, OnLive, Live
<1>8. World'
  BY <1>0, <1>7 DEF join, engine, World, PrivOk, ObjOk, RootsOk, JsOk, Live
<1> QED BY <1>1, <1>6, <1>8 DEF BInv

LEMMA LeftStep == ASSUME BInv, left PROVE BInv'
<1>0. left /\ TInv /\ World /\ Stacked
  BY DEF BInv
<1>1. Stacked'
  BY <1>0, LeftStack
<1>2. todo # << >> /\ Head(todo).op \in {"left", "left_now"}
  BY <1>0 DEF left, At
<1>3. This \in Users /\ That \in Chans /\ That \in Things
  BY <1>0, <1>2, HeadTask DEF This, That, Task, Things
<1>4. calls' \in 0 .. MaxCalls
  BY <1>0, CallsBound DEF left
<1>6. TInv'
  BY <1>0, <1>3, <1>4 DEF left, TInv, engine
<1>7. OnOk'
  <2>1. IsFiniteSet(on')
    BY <1>0, FS_RemoveElement DEF left, World, OnOk
  <2> QED BY <1>0, <2>1 DEF left, World, OnOk, OnLive, Live
<1>8. World'
  BY <1>0, <1>7 DEF left, engine, World, PrivOk, ObjOk, RootsOk, JsOk, Live
<1> QED BY <1>1, <1>6, <1>8 DEF BInv

-----------------------------------------------------------------------------
(* The end of a channel or user.                                           *)

LEMMA DetachStep == ASSUME BInv, RmchanDetach \/ DeluserDetach PROVE BInv'
<1>0. TInv /\ World /\ Stacked /\ ObjOk /\ PropsOk(props, heap)
  BY DEF BInv, World
<1>1. /\ todo # << >> /\ Head(todo).op \in {"rmchan_detach", "deluser_detach"}
      /\ Detached(This) /\ Continue(<< >>)
      /\ UNCHANGED <<api, state, istmp, name, auto, on, tables, props, heap, js, data, held,
                     heard, unheard>>
  BY DEF RmchanDetach, DeluserDetach, At, server, report
<1>2. Stacked'
  BY <1>0, <1>1, DetachStack
<1>3. This \in Users \cup Chans /\ This \in Things /\ Live(This)
  BY <1>0, <1>1, HeadTask DEF This, Task, Pins, Things
<1> DEFINE c == This
<1>4. /\ priv' = [o \in Objs |-> IF o = Obj(c) \/ o = Pipe(c) THEN NULL ELSE priv[o]]
      /\ roots' = roots \ {c}
  BY <1>0, <1>1, <1>3, DetachedIs
<1> HIDE DEF c
<1>5. calls' \in 0 .. MaxCalls
  BY <1>0, <1>1, CallsBound
<1>6. TInv'
  BY <1>0, <1>1, <1>4, <1>5 DEF TInv
<1>7. \A o \in Objs : priv'[o] = NULL \/ priv'[o] = priv[o]
  BY <1>4
<1>8. PrivOk'
  BY <1>0, <1>1, <1>7, ObjFacts DEF World, PrivOk, Live
<1>9. RootsOk'
  <2>1. \A t \in roots' : Live(t)'
    BY <1>0, <1>1, <1>4 DEF World, RootsOk, Live
  <2>2. ASSUME NEW t \in Users \cup Chans, Live(t)' PROVE t \in roots' \/ Loose(t, priv', roots')
    <3>1. Obj(t) \in Objs /\ Pipe(t) \in Objs
      BY ObjFacts DEF Things
    <3>2. t \in roots \/ Loose(t, priv, roots)
      BY <1>0, <1>1, <2>2 DEF World, RootsOk, Live
    <3> QED BY <1>4, <3>1, <3>2 DEF Loose
  <2> QED BY <2>1, <2>2 DEF RootsOk
<1>10. World'
  BY <1>0, <1>1, <1>8, <1>9 DEF World, OnOk, OnLive, ObjOk, JsOk, Live
<1> QED BY <1>2, <1>6, <1>10 DEF BInv

(* What a thing that is freed leaves behind.                                *)
LEMMA FreedWorld ==
  ASSUME TInv, World, NEW t \in Users \cup Chans, Live(t), Loose(t, priv, roots),
         \A u \in Users, c \in Chans : <<u, c>> \in on => u # t /\ c # t,
         state' = [state EXCEPT ![t] = "gone"],
         props' = [props EXCEPT ![t] = << >>],
         data' = [data EXCEPT ![t] = NULL],
         heap' = Free(clear_properties(props[t])),
         UNCHANGED <<on, js, priv, roots, held>>,
         TabsOk(tables', state', name')
  PROVE  World'
<1>1. t \in Things
  BY DEF Things
<1>2. /\ \A v \in Things : Live(v)' <=> Live(v) /\ v # t
      /\ \A v \in Things : v # t => props'[v] = props[v] /\ data'[v] = data[v]
  BY <1>1 DEF Live, TInv, World, PropsOk
<1>3. PropsOk(props', heap')
  BY <1>1, ListCleared DEF World
<1>4. OnOk'
  BY <1>2 DEF World, OnOk, OnLive, Things
<1>5. PrivOk'
  BY <1>2 DEF World, PrivOk, Loose, Things
<1>6. ObjOk'
  BY <1>2 DEF World, ObjOk
<1>7. RootsOk'
  BY <1>2 DEF World, RootsOk, Loose, TInv, Things
<1>8. JsOk'
  BY <1>2 DEF World, JsOk, Things
<1> QED BY <1>3, <1>4, <1>5, <1>6, <1>7, <1>8 DEF World

LEMMA RmchanEndStep == ASSUME BInv, RmchanEnd PROVE BInv'
<1> DEFINE c == This
<1>0. TInv /\ World /\ Stacked /\ TabsOk(tables, state, name)
  BY DEF BInv, World
<1>1. /\ todo # << >> /\ Head(todo).op = "rmchan_fire" /\ "rmchan" \in fire
      /\ Freed(c, "hLusers", name[c]) /\ name' = [name EXCEPT ![c] = NULL]
      /\ auto' = auto \ {c} /\ heard' = [heard EXCEPT !.list[c] = {}]
      /\ unheard' = unheard \ {c} /\ Continue(<< >>)
      /\ UNCHANGED <<api, istmp, on, js, priv, roots, held>>
  BY DEF RmchanEnd, At
<1>2. /\ state' = [state EXCEPT ![c] = "gone"] /\ props' = [props EXCEPT ![c] = << >>]
      /\ data' = [data EXCEPT ![c] = NULL] /\ heap' = Free(clear_properties(props[c]))
  BY <1>1 DEF Freed
<1>3. state \in [Things -> Status]
  BY <1>0 DEF TInv, Status
<1>4. Stacked'
  BY <1>0, <1>1, <1>2, <1>3, EndStack DEF Status
<1>5. c \in Chans /\ c \in Things /\ c \notin Users /\ Live(c)
  BY <1>0, <1>1, HeadTask, ThingsAssumption DEF This, Task, Pins, Things
<1>6. Loose(c, priv, roots) /\ \A u \in Users : <<u, c>> \notin on
  BY <1>0, <1>1, HeadFacts DEF This, Removes
<1> HIDE DEF c
<1>7. TabsOk(tables', state', name')
  <2> DEFINE st2 == state'
             nm2 == name'
             tb2 == tables'
  <2>1. /\ tb2 = [n \in TableNames |-> tb2[n]]
        /\ tb2.hPubid = hashtbl_erase(tables.hPubid, c)
        /\ tb2.hLusers = hashtbl_erase(tables.hLusers, name[c])
        /\ tb2.hSessid = tables.hSessid
    BY <1>0, <1>1, LeftTables DEF TabsOk
  <2>2. st2 = [state EXCEPT ![c] = "gone"] /\ nm2 = [name EXCEPT ![c] = NULL]
    BY <1>1, <1>2
  <2> HIDE DEF st2, nm2, tb2
  <2>3. TableOk(tb2.hPubid, Ids(Things, st2))
    <3>1. TableOk(tables.hPubid, Ids(Things, state)) /\ Things \in SUBSET Things
      BY <1>0 DEF TabsOk
    <3>2. TableOk(hashtbl_erase(tables.hPubid, c), Ids(Things, [state EXCEPT ![c] = "gone"]))
      BY <1>3, <1>5, <3>1, IdGone
    <3> QED BY <2>1, <2>2, <3>2
  <2>4. TableOk(tb2.hSessid, Ids(Users, st2))
    <3>1. Users \in SUBSET Things /\ c \in Things \ Users
      BY <1>5 DEF Things
    <3> QED BY <1>0, <1>3, <2>1, <2>2, <3>1, IdSame DEF TabsOk
  <2>5. NamesOk(st2, nm2) /\ TableOk(tb2.hLusers, ByName(st2, nm2))
    <3>1. DOMAIN name = Chans /\ state[c] = "live"
      BY <1>0, <1>5 DEF TInv, Live
    <3>2. NamesOk(state, name) /\ TableOk(tables.hLusers, ByName(state, name))
      BY <1>0 DEF TabsOk
    <3>3. NamesOk(st2, nm2) /\ TableOk(hashtbl_erase(tables.hLusers, name[c]), ByName(st2, nm2))
      BY <1>3, <1>5, <2>2, <3>1, <3>2, NameGone
    <3> QED BY <2>1, <3>3
  <2> QED BY <2>1, <2>3, <2>4, <2>5 DEF TabsOk, st2, nm2, tb2
<1>8. World'
  <2>1. \A u \in Users, d \in Chans : <<u, d>> \in on => u # c /\ d # c
    BY <1>5, <1>6
  <2> QED BY <1>0, <1>1, <1>2, <1>5, <1>6, <1>7, <2>1, FreedWorld
<1>9. heard' \in Heard
  BY <1>0, <1>1, <1>5 DEF TInv, Heard
<1>10. calls' \in 0 .. MaxCalls
  BY <1>0, <1>1, CallsBound
<1>11. TInv'
  BY <1>0, <1>1, <1>2, <1>5, <1>9, <1>10 DEF TInv, Heard
<1> QED BY <1>4, <1>8, <1>11 DEF BInv

LEMMA DeluserEndStep == ASSUME BInv, DeluserEnd PROVE BInv'
<1> DEFINE c == This
<1>0. TInv /\ World /\ Stacked /\ TabsOk(tables, state, name)
  BY DEF BInv, World
<1>1. /\ todo # << >> /\ Head(todo).op = "deluser_fire" /\ "deluser" \in fire
      /\ Freed(c, "hSessid", c) /\ istmp' = istmp \ {c} /\ Continue(<< >>)
      /\ UNCHANGED <<api, name, auto, on, js, priv, roots, held, heard, unheard>>
  BY DEF DeluserEnd, At, report
<1>2. /\ state' = [state EXCEPT ![c] = "gone"] /\ props' = [props EXCEPT ![c] = << >>]
      /\ data' = [data EXCEPT ![c] = NULL] /\ heap' = Free(clear_properties(props[c]))
  BY <1>1 DEF Freed
<1>3. state \in [Things -> Status]
  BY <1>0 DEF TInv, Status
<1>4. Stacked'
  BY <1>0, <1>1, <1>2, <1>3, EndStack DEF Status
<1>5. c \in Users /\ c \in Things /\ c \notin Chans /\ Live(c)
  BY <1>0, <1>1, HeadTask, ThingsAssumption DEF This, Task, Pins, Things
<1>6. Loose(c, priv, roots) /\ \A d \in Chans : <<c, d>> \notin on
  BY <1>0, <1>1, HeadFacts DEF This, Deletes
<1> HIDE DEF c
<1>7. TabsOk(tables', state', name')
  <2> DEFINE st2 == state'
             tb2 == tables'
  <2>1. /\ tb2 = [n \in TableNames |-> tb2[n]]
        /\ tb2.hPubid = hashtbl_erase(tables.hPubid, c)
        /\ tb2.hSessid = hashtbl_erase(tables.hSessid, c)
        /\ tb2.hLusers = tables.hLusers
    BY <1>0, <1>1, LeftTables DEF TabsOk
  <2>2. st2 = [state EXCEPT ![c] = "gone"] /\ name' = name
    BY <1>1, <1>2
  <2> HIDE DEF st2, tb2
  <2>3. TableOk(tb2.hPubid, Ids(Things, st2))
    <3>1. TableOk(tables.hPubid, Ids(Things, state)) /\ Things \in SUBSET Things
      BY <1>0 DEF TabsOk
    <3>2. TableOk(hashtbl_erase(tables.hPubid, c), Ids(Things, [state EXCEPT ![c] = "gone"]))
      BY <1>3, <1>5, <3>1, IdGone
    <3> QED BY <2>1, <2>2, <3>2
  <2>4. TableOk(tb2.hSessid, Ids(Users, st2))
    <3>1. TableOk(tables.hSessid, Ids(Users, state)) /\ Users \in SUBSET Things
      BY <1>0 DEF TabsOk, Things
    <3>2. TableOk(hashtbl_erase(tables.hSessid, c), Ids(Users, [state EXCEPT ![c] = "gone"]))
      BY <1>3, <1>5, <3>1, IdGone
    <3> QED BY <2>1, <2>2, <3>2
  <2>5. NamesOk(st2, name) /\ TableOk(tb2.hLusers, ByName(st2, name))
    <3>1. LiveIn(Chans, st2) = LiveIn(Chans, state)
      BY <1>3, <1>5, <2>2 DEF LiveIn, Things
    <3> QED BY <1>0, <2>1, <3>1 DEF TabsOk, NamesOk, ByName
  <2> QED BY <2>1, <2>2, <2>3, <2>4, <2>5 DEF TabsOk, st2, tb2
<1>8. World'
  <2>1. \A u \in Users, d \in Chans : <<u, d>> \in on => u # c /\ d # c
    BY <1>5, <1>6
  <2> QED BY <1>0, <1>1, <1>2, <1>5, <1>6, <1>7, <2>1, FreedWorld
<1>10. calls' \in 0 .. MaxCalls
  BY <1>0, <1>1, CallsBound
<1>11. TInv'
  BY <1>0, <1>1, <1>2, <1>5, <1>10 DEF TInv
<1> QED BY <1>4, <1>8, <1>11 DEF BInv

-----------------------------------------------------------------------------
(* What is made.                                                           *)

(* The property that names the object is there once it has been noted.      *)
LEMMA NameNoted ==
  ASSUME NEW l, OneEach(l), NEW t \in Users \cup Chans
  PROVE  Named(add_property(l, "jsobj", EXTEND_POINTER, Obj(t), FALSE), t)
<1>1. /\ "jsobj" \in PropKeys \ LongKeys /\ EXTEND_POINTER \in EXTEND_TYPE /\ Obj(t) \in Vals
  BY LongAssumption, ObjFacts DEF PropKeys, EXTEND_TYPE, Vals
<1>2. ASSUME NEW public \in BOOLEAN
      PROVE  Property("jsobj", EXTEND_POINTER, Obj(t), public)
               \in CellsOf(add_property(l, "jsobj", EXTEND_POINTER, Obj(t), public))
  BY <1>1, AddIs
<1>3. Property("jsobj", EXTEND_POINTER, Obj(t), FALSE)
        \in CellsOf(add_property(l, "jsobj", EXTEND_POINTER, Obj(t), FALSE))
  BY <1>2
<1> QED BY <1>3 DEF Named, Property

LEMMA MadeWorld ==
  ASSUME TInv, World, NEW t \in Users \cup Chans, ~Live(t), Wrapped(t),
         state' = [state EXCEPT ![t] = "live"], on' = on,
         TabsOk(tables', state', name')
  PROVE  World'
<1>1. t \in Things /\ t \notin Customs
  BY ThingsAssumption DEF Things
<1>2. /\ \A v \in Things : Live(v)' <=> Live(v) \/ v = t
      /\ \A v \in Things : v # t => props'[v] = props[v] /\ data'[v] = data[v]
      /\ data'[t] = Pipe(t)
      /\ props'[t] = add_property(props[t], "jsobj", EXTEND_POINTER, Obj(t), FALSE)
      /\ heap' = heap /\ held' = held /\ roots' = roots \cup {t}
  BY <1>1 DEF Live, TInv, World, PropsOk, Wrapped
<1>3. PropsOk(props', heap')
  <2>1. Obj(t) \in Vals /\ PropsOk(props, heap)
    BY ObjFacts DEF Vals, World
  <2>2. PropsOk([props EXCEPT ![t] =
                   add_property(@, "jsobj", EXTEND_POINTER, Obj(t), FALSE)], heap)
    BY <1>1, <2>1, PointerAdded
  <2> QED BY <2>2 DEF Wrapped
<1>4. OnOk'
  BY <1>2 DEF World, OnOk, OnLive, Things
<1>5. /\ Obj(t) \in Objs /\ Pipe(t) \in Objs
      /\ priv'[Obj(t)] = t /\ priv'[Pipe(t)] = t /\ js'[Obj(t)] = "alive" /\ js'[Pipe(t)] = "alive"
      /\ \A o \in Objs : o # Obj(t) /\ o # Pipe(t) => priv'[o] = priv[o] /\ js'[o] = js[o]
  BY <1>1, ObjFacts DEF Wrapped, TInv
<1>6. \A v \in Users \cup Chans :
        v = t \/ (/\ priv'[Obj(v)] = priv[Obj(v)] /\ js'[Obj(v)] = js[Obj(v)])
  BY <1>5, ObjFacts
<1>7. \A v \in Things :
        v = t \/ (/\ priv'[Pipe(v)] = priv[Pipe(v)] /\ js'[Pipe(v)] = js[Pipe(v)])
  BY <1>5, ObjFacts
<1>8. PrivOk'
  BY <1>2, <1>5, <1>6, <1>7 DEF World, PrivOk, Things
<1>9. ObjOk'
  <2>1. Named(props'[t], t)
    BY <1>1, <1>2, NameNoted DEF World, PropsOk, ListOk
  <2> QED BY <1>2, <2>1 DEF World, ObjOk
<1>10. RootsOk'
  <2>1. \A v \in roots' : Live(v)'
    BY <1>1, <1>2 DEF World, RootsOk, TInv, Things
  <2>2. ASSUME NEW v \in Users \cup Chans, Live(v)' PROVE v \in roots' \/ Loose(v, priv', roots')
    <3>1. CASE v = t
      BY <1>2, <3>1
    <3>2. CASE v # t
      <4>1. v \in roots \/ Loose(v, priv, roots)
        BY <1>2, <2>2, <3>2 DEF World, RootsOk, Things
      <4> QED BY <1>2, <1>6, <1>7, <3>2, <4>1 DEF Loose, Things
    <3> QED BY <3>1, <3>2
  <2> QED BY <2>1, <2>2 DEF RootsOk
<1>11. JsOk'
  <2>1. ASSUME NEW v \in Things, Live(v)', v \in Customs => v \in held' PROVE js'[Pipe(v)] = "alive"
    BY <1>2, <1>5, <1>7, <2>1 DEF World, JsOk
  <2>2. ASSUME NEW v \in Users \cup Chans, Live(v)' PROVE js'[Obj(v)] = "alive"
    BY <1>2, <1>5, <1>6, <2>2 DEF World, JsOk, Things
  <2> QED BY <2>1, <2>2 DEF JsOk
<1> QED BY <1>3, <1>4, <1>8, <1>9, <1>10, <1>11 DEF World

LEMMA MadeTypes ==
  ASSUME TInv, NEW t \in Users \cup Chans, Wrapped(t), state' = [state EXCEPT ![t] = "live"]
  PROVE  /\ state' \in [Things -> Status]
         /\ js' \in [Objs -> {"none", "alive", "collected"}]
         /\ priv' \in [Objs -> Things \cup {NULL}]
         /\ data' \in [Things -> Objs \cup {NULL}]
         /\ roots' \subseteq Users \cup Chans /\ held' \subseteq Customs
<1>1. t \in Things /\ Obj(t) \in Objs /\ Pipe(t) \in Objs
  BY ObjFacts DEF Things
<1> QED BY <1>1 DEF TInv, Wrapped, Status

LEMMA ConnectStep == ASSUME BInv, NEW u \in Users, Connect(u) PROVE BInv'
<1>0. TInv /\ World /\ Stacked /\ TabsOk(tables, state, name)
  BY DEF BInv, World
<1>1. /\ Idle /\ state[u] = "none" /\ state' = [state EXCEPT ![u] = "live"]
      /\ istmp' = istmp \cup {u} /\ Entered(u, "hSessid", u) /\ Wrapped(u)
      /\ UNCHANGED <<api, name, auto, on, heard, unheard>>
  BY DEF Connect, report
<1>2. Stacked'
  BY <1>0, ConnectStack
<1>3. calls' \in 0 .. MaxCalls
  BY <1>0, <1>1, CallsBound DEF Connect
<1>4. state \in [Things -> Status]
  BY <1>0 DEF TInv, Status
<1>5. u \in Things /\ u \notin Chans
  BY ThingsAssumption DEF Things
<1>6. TabsOk(tables', state', name')
  <2> DEFINE st2 == state'
             tb2 == tables'
  <2>1. /\ tb2 = [n \in TableNames |-> tb2[n]]
        /\ tb2.hPubid = hashtbl_append(tables.hPubid, u, u)
        /\ tb2.hSessid = hashtbl_append(tables.hSessid, u, u)
        /\ tb2.hLusers = tables.hLusers
    BY <1>0, <1>1, EnteredIs DEF TabsOk
  <2>2. st2 = [state EXCEPT ![u] = "live"] /\ name' = name
    BY <1>1
  <2> HIDE DEF st2, tb2
  <2>3. TableOk(tb2.hPubid, Ids(Things, st2))
    <3>1. TableOk(tables.hPubid, Ids(Things, state)) /\ Things \in SUBSET Things /\ state[u] # "live"
      BY <1>0, <1>1 DEF TabsOk
    <3>2. TableOk(hashtbl_append(tables.hPubid, u, u), Ids(Things, [state EXCEPT ![u] = "live"]))
      BY <1>4, <1>5, <3>1, IdAdded
    <3> QED BY <2>1, <2>2, <3>2
  <2>4. TableOk(tb2.hSessid, Ids(Users, st2))
    <3>1. TableOk(tables.hSessid, Ids(Users, state)) /\ Users \in SUBSET Things /\ state[u] # "live"
      BY <1>0, <1>1 DEF TabsOk, Things
    <3>2. TableOk(hashtbl_append(tables.hSessid, u, u), Ids(Users, [state EXCEPT ![u] = "live"]))
      BY <1>4, <1>5, <3>1, IdAdded
    <3> QED BY <2>1, <2>2, <3>2
  <2>5. NamesOk(st2, name) /\ TableOk(tb2.hLusers, ByName(st2, name))
    <3>1. LiveIn(Chans, st2) = LiveIn(Chans, state)
      BY <1>4, <1>5, <2>2 DEF LiveIn, Things
    <3> QED BY <1>0, <2>1, <3>1 DEF TabsOk, NamesOk, ByName
  <2> QED BY <2>1, <2>2, <2>3, <2>4, <2>5 DEF TabsOk, st2, tb2
<1>7. World'
  BY <1>0, <1>1, <1>6, MadeWorld DEF Live
<1>8. TInv'
  BY <1>0, <1>1, <1>3, MadeTypes DEF TInv, Status
<1> QED BY <1>2, <1>7, <1>8 DEF BInv

LEMMA MkchanStep ==
  ASSUME BInv, NEW n \in Names, NEW c \in Chans, NEW fl \in SUBSET Chans, NEW next,
         mkchan(n, c, fl, next), getchan(n) = NULL, Idle \/ calls < MaxCalls, Stacked'
  PROVE  BInv'
<1>0. TInv /\ World /\ Stacked /\ TabsOk(tables, state, name)
  BY DEF BInv, World
<1> DEFINE k == Lower[n]
<1>1. /\ state[c] = "none" /\ state' = [state EXCEPT ![c] = "live"]
      /\ name' = [name EXCEPT ![c] = k] /\ auto' = auto \cup fl
      /\ Entered(c, "hLusers", k) /\ Wrapped(c)
      /\ UNCHANGED <<api, istmp, on, heard, unheard>>
  BY DEF mkchan, report, isvalidchan
<1>3. calls' \in 0 .. MaxCalls
  BY <1>0, CallsBound DEF mkchan
<1>4. state \in [Things -> Status]
  BY <1>0 DEF TInv, Status
<1>5. c \in Things /\ c \notin Users
  BY ThingsAssumption DEF Things
<1> HIDE DEF k
<1>6. TabsOk(tables', state', name')
  <2> DEFINE st2 == state'
             nm2 == name'
             tb2 == tables'
  <2>1. /\ tb2 = [m \in TableNames |-> tb2[m]]
        /\ tb2.hPubid = hashtbl_append(tables.hPubid, c, c)
        /\ tb2.hLusers = hashtbl_append(tables.hLusers, k, c)
        /\ tb2.hSessid = tables.hSessid
    BY <1>0, <1>1, EnteredIs DEF TabsOk
  <2>2. st2 = [state EXCEPT ![c] = "live"] /\ nm2 = [name EXCEPT ![c] = k]
    BY <1>1
  <2> HIDE DEF st2, tb2, nm2
  <2>3. TableOk(tb2.hPubid, Ids(Things, st2))
    <3>1. TableOk(tables.hPubid, Ids(Things, state)) /\ Things \in SUBSET Things /\ state[c] # "live"
      BY <1>0, <1>1 DEF TabsOk
    <3>2. TableOk(hashtbl_append(tables.hPubid, c, c), Ids(Things, [state EXCEPT ![c] = "live"]))
      BY <1>4, <1>5, <3>1, IdAdded
    <3> QED BY <2>1, <2>2, <3>2
  <2>4. TableOk(tb2.hSessid, Ids(Users, st2))
    <3>1. Users \in SUBSET Things /\ c \in Things \ Users
      BY <1>5 DEF Things
    <3> QED BY <1>0, <1>4, <2>1, <2>2, <3>1, IdSame DEF TabsOk
  <2>5. NamesOk(st2, nm2) /\ TableOk(tb2.hLusers, ByName(st2, nm2))
    <3>1. DOMAIN name = Chans /\ state[c] # "live"
      BY <1>0, <1>1 DEF TInv
    <3>2. NamesOk(state, name) /\ TableOk(tables.hLusers, ByName(state, name))
      BY <1>0 DEF TabsOk
    <3>3. k \notin DOMAIN ByName(state, name)
      <4>1. DOMAIN ByName(state, name) = {name[d] : d \in LiveIn(Chans, state)}
        BY ByNameDomain
      <4>2. NULL \notin LiveIn(Chans, state)
        BY ThingsAssumption DEF LiveIn, Things
      <4>3. Lower[n] \notin {name[d] : d \in LiveIn(Chans, state)}
        BY <1>0, <1>4, <4>2, LookUps
      <4> QED BY <4>1, <4>3 DEF k
    <3>4. NamesOk(st2, nm2) /\ TableOk(hashtbl_append(tables.hLusers, k, c), ByName(st2, nm2))
      BY <1>4, <2>2, <3>1, <3>2, <3>3, NameAdded DEF k
    <3> QED BY <2>1, <3>4
  <2> QED BY <2>1, <2>3, <2>4, <2>5 DEF TabsOk, st2, tb2, nm2
<1>7. World'
  BY <1>0, <1>1, <1>6, MadeWorld DEF Live
<1>8. TInv'
  <2>1. k \in {Lower[m] : m \in Names}
    BY DEF k
  <2> QED BY <1>0, <1>1, <1>3, <2>1, MadeTypes DEF TInv, Status
<1> QED BY <1>7, <1>8 DEF BInv

LEMMA MakeStep ==
  ASSUME BInv, NEW n \in api.names,
         \/ ape_sm_mkchan(n)
         \/ \E u \in Users : cmd_join(u, n) /\ getchan(n) = NULL
  PROVE  BInv'
<1>1. n \in Names
  BY InstallsAssumption DEF BInv, TInv
<1>2. CASE ape_sm_mkchan(n)
  <2>1. Stacked'
    BY <1>2, SmMkchanStack DEF BInv
  <2>2. PICK c \in Chans : mkchan(n, c, {}, <<Do("done", c, NULL)>>)
    BY <1>2 DEF ape_sm_mkchan
  <2>3. getchan(n) = NULL /\ calls < MaxCalls /\ {} \in SUBSET Chans
    BY <1>2 DEF ape_sm_mkchan, MayCall
  <2> QED BY <1>1, <2>1, <2>2, <2>3, MkchanStep
<1>3. ASSUME NEW u \in Users, cmd_join(u, n), getchan(n) = NULL PROVE BInv'
  <2>1. Stacked'
    BY <1>3, JoinMadeStack DEF BInv
  <2>2. PICK c \in Chans : mkchan(n, c, {c}, <<Do("join", u, c), Do("done", u, NULL)>>)
    BY <1>3 DEF cmd_join
  <2>3. Idle /\ {c} \in SUBSET Chans
    BY <1>3 DEF cmd_join
  <2> QED BY <1>1, <1>3, <2>1, <2>2, <2>3, MkchanStep
<1> QED BY <1>2, <1>3

-----------------------------------------------------------------------------
(* Pipes of scripts, properties and the garbage collector.                 *)

(* The other two tables know nothing of the pipes of scripts.               *)
LEMMA CustomTables ==
  ASSUME TabsOk(tables, state, name), state \in [Things -> Status], NEW p \in Customs, NEW v,
         state' = [state EXCEPT ![p] = v], name' = name, NEW h,
         tables' = [tables EXCEPT !.hPubid = h], TableOk(h, Ids(Things, state'))
  PROVE  TabsOk(tables', state', name')
<1> DEFINE st2 == state'
           tb2 == tables'
<1>1. AreTables(tb2, h, tables.hSessid, tables.hLusers)
  <2>1. AreTables([tables EXCEPT !.hPubid = h], h, tables.hSessid, tables.hLusers)
    BY TwoTables DEF TabsOk
  <2> QED BY <2>1
<1>2. p \in Things /\ p \notin Users /\ p \notin Chans /\ Users \in SUBSET Things
  BY ThingsAssumption DEF Things
<1>3. st2 = [state EXCEPT ![p] = v] /\ TableOk(h, Ids(Things, st2))
  OBVIOUS
<1> HIDE DEF st2, tb2
<1>4. TableOk(tables.hSessid, Ids(Users, st2))
  <2>1. TableOk(tables.hSessid, Ids(Users, state)) /\ p \in Things \ Users
    BY <1>2 DEF TabsOk
  <2> QED BY <1>2, <1>3, <2>1, IdSame
<1>5. NamesOk(st2, name) /\ TableOk(tables.hLusers, ByName(st2, name))
  <2>1. LiveIn(Chans, st2) = LiveIn(Chans, state)
    BY <1>2, <1>3 DEF LiveIn, Things
  <2> QED BY <2>1 DEF TabsOk, NamesOk, ByName
<1>6. TabsOk(tb2, st2, name)
  BY <1>1, <1>3, <1>4, <1>5 DEF AreTables, TabsOk
<1> QED BY <1>6 DEF st2, tb2

(* Nothing but the pipe p and its object changes.                           *)
LEMMA CustomWorld ==
  ASSUME TInv, World, NEW p \in Customs, NEW v, state' = [state EXCEPT ![p] = v],
         \A o \in Objs \ {Pipe(p)} : priv'[o] = priv[o] /\ js'[o] = js[o],
         \A t \in Things \ {p} : props'[t] = props[t] /\ data'[t] = data[t],
         \A t \in Things \ {p} : t \in held' <=> t \in held,
         on' = on, roots' = roots,
         PropsOk(props', heap'), TabsOk(tables', state', name'),
         priv'[Pipe(p)] = NULL \/ (priv'[Pipe(p)] = p /\ v = "live"),
         v = "live" => data'[p] = Pipe(p) /\ js'[Pipe(p)] = "alive"
  PROVE  World'
<1>1. p \in Things /\ p \notin Users \cup Chans
  BY ThingsAssumption DEF Things
<1>2. /\ \A t \in Things : t # p => (Live(t)' <=> Live(t))
      /\ Live(p)' <=> v = "live"
  BY <1>1 DEF Live, TInv
<1>3. \A t \in Users \cup Chans : /\ t \in Things /\ t # p
                                  /\ priv'[Obj(t)] = priv[Obj(t)] /\ js'[Obj(t)] = js[Obj(t)]
                                  /\ priv'[Pipe(t)] = priv[Pipe(t)] /\ js'[Pipe(t)] = js[Pipe(t)]
  BY <1>1, ObjFacts DEF Things
<1>4. \A t \in Things : t # p => priv'[Pipe(t)] = priv[Pipe(t)] /\ js'[Pipe(t)] = js[Pipe(t)]
  BY ObjFacts
<1>5. OnOk'
  BY <1>2, <1>3 DEF World, OnOk, OnLive
<1>6. PrivOk'
  BY <1>2, <1>3, <1>4 DEF World, PrivOk
<1>7. ObjOk'
  BY <1>2 DEF World, ObjOk
<1>8. RootsOk'
  <2>1. \A t \in roots' : Live(t)'
    BY <1>2, <1>3 DEF World, RootsOk, TInv
  <2>2. ASSUME NEW t \in Users \cup Chans, Live(t)' PROVE t \in roots' \/ Loose(t, priv', roots')
    BY <1>2, <1>3, <2>2 DEF World, RootsOk, Loose
  <2> QED BY <2>1, <2>2 DEF RootsOk
<1>9. JsOk'
  <2>1. ASSUME NEW t \in Things, Live(t)', t \in Customs => t \in held' PROVE js'[Pipe(t)] = "alive"
    BY <1>2, <1>4, <2>1 DEF World, JsOk
  <2>2. ASSUME NEW t \in Users \cup Chans, Live(t)' PROVE js'[Obj(t)] = "alive"
    BY <1>2, <1>3, <2>2 DEF World, JsOk
  <2> QED BY <2>1, <2>2 DEF JsOk
<1> QED BY <1>5, <1>6, <1>7, <1>8, <1>9 DEF World

LEMMA PipeMadeStep ==
  ASSUME BInv, NEW p \in Customs, ape_sm_pipe_constructor(p) PROVE BInv'
<1>0. TInv /\ World /\ Stacked /\ TabsOk(tables, state, name) /\ PropsOk(props, heap)
  BY DEF BInv, World
<1>1. /\ calls < MaxCalls /\ state[p] = "none" /\ state' = [state EXCEPT ![p] = "live"]
      /\ tables' = [tables EXCEPT !.hPubid = hashtbl_append(@, p, p)]
      /\ props' = [props EXCEPT ![p] = add_property(@, "cx", EXTEND_POINTER, NULL, FALSE)]
      /\ js' = [js EXCEPT ![Pipe(p)] = "alive"] /\ priv' = [priv EXCEPT ![Pipe(p)] = p]
      /\ data' = [data EXCEPT ![p] = Pipe(p)] /\ held' = held \cup {p} /\ Called(<< >>)
      /\ UNCHANGED <<api, istmp, name, auto, on, heap, roots, fire, heard, unheard>>
  BY DEF ape_sm_pipe_constructor, MayCall, report
<1>2. p \in Things /\ Pipe(p) \in Objs
  BY ObjFacts DEF Things
<1>3. state \in [Things -> Status]
  BY <1>0 DEF TInv, Status
<1>4. /\ priv'[Pipe(p)] = p /\ js'[Pipe(p)] = "alive" /\ data'[p] = Pipe(p)
      /\ \A o \in Objs \ {Pipe(p)} : priv'[o] = priv[o] /\ js'[o] = js[o]
      /\ \A t \in Things \ {p} : props'[t] = props[t] /\ data'[t] = data[t] /\ state'[t] = state[t]
  BY <1>0, <1>1, <1>2 DEF TInv, PropsOk
<1>5. Stacked'
  BY <1>0, <1>1, <1>4, PipeStack DEF TInv
<1>6. PropsOk(props', heap')
  <2>1. NULL \in Vals
    BY DEF Vals
  <2>2. PropsOk([props EXCEPT ![p] = add_property(@, "cx", EXTEND_POINTER, NULL, FALSE)], heap)
    BY <1>0, <1>2, <2>1, PointerAdded
  <2> QED BY <1>1, <2>2
<1>7. TabsOk(tables', state', name')
  <2> DEFINE h == hashtbl_append(tables.hPubid, p, p)
  <2>1. TableOk(h, Ids(Things, state'))
    <3>1. TableOk(tables.hPubid, Ids(Things, state)) /\ Things \in SUBSET Things /\ state[p] # "live"
      BY <1>0, <1>1 DEF TabsOk
    <3>2. TableOk(h, Ids(Things, [state EXCEPT ![p] = "live"]))
      BY <1>2, <1>3, <3>1, IdAdded
    <3> QED BY <1>1, <3>2
  <2>2. tables' = [tables EXCEPT !.hPubid = h]
    BY <1>1
  <2> HIDE DEF h
  <2> QED BY <1>0, <1>1, <1>3, <2>1, <2>2, CustomTables
<1>8. World'
  BY <1>0, <1>1, <1>4, <1>6, <1>7, CustomWorld
<1>9. calls' \in 0 .. MaxCalls
  BY <1>0, <1>1, CallsBound
<1>10. TInv'
  BY <1>0, <1>1, <1>2, <1>9 DEF TInv
<1> QED BY <1>5, <1>8, <1>10 DEF BInv

LEMMA PipeGoneStep ==
  ASSUME BInv, NEW p \in Customs, apepipe_sm_destroy(p) PROVE BInv'
<1>0. TInv /\ World /\ Stacked /\ TabsOk(tables, state, name) /\ PropsOk(props, heap)
  BY DEF BInv, World
<1>1. /\ calls < MaxCalls /\ state' = [state EXCEPT ![p] = "gone"]
      /\ tables' = [tables EXCEPT !.hPubid = hashtbl_erase(@, p)]
      /\ props' = [props EXCEPT ![p] = << >>]
      /\ priv' = [priv EXCEPT ![Pipe(p)] = NULL]
      /\ data' = [data EXCEPT ![p] = NULL] /\ Called(<< >>)
      /\ UNCHANGED <<api, istmp, name, auto, on, heap, js, roots, held, fire, heard, unheard>>
  BY DEF apepipe_sm_destroy, MayCall, report
<1>2. p \in Things /\ Pipe(p) \in Objs
  BY ObjFacts DEF Things
<1>3. state \in [Things -> Status]
  BY <1>0 DEF TInv, Status
<1>4. /\ priv'[Pipe(p)] = NULL
      /\ \A o \in Objs \ {Pipe(p)} : priv'[o] = priv[o] /\ js'[o] = js[o]
      /\ \A t \in Things \ {p} : props'[t] = props[t] /\ data'[t] = data[t] /\ state'[t] = state[t]
  BY <1>0, <1>1, <1>2 DEF TInv, PropsOk
<1>5. Stacked'
  BY <1>0, <1>1, <1>4, PipeStack DEF TInv
<1>6. PropsOk(props', heap')
  BY <1>0, <1>1, <1>2, ListGivenUp
<1>7. TabsOk(tables', state', name')
  <2> DEFINE h == hashtbl_erase(tables.hPubid, p)
  <2>1. TableOk(h, Ids(Things, state'))
    <3>1. TableOk(tables.hPubid, Ids(Things, state)) /\ Things \in SUBSET Things
      BY <1>0 DEF TabsOk
    <3>2. TableOk(h, Ids(Things, [state EXCEPT ![p] = "gone"]))
      BY <1>2, <1>3, <3>1, IdGone
    <3> QED BY <1>1, <3>2
  <2>2. tables' = [tables EXCEPT !.hPubid = h]
    BY <1>1
  <2> HIDE DEF h
  <2> QED BY <1>0, <1>1, <1>3, <2>1, <2>2, CustomTables
<1>8. World'
  BY <1>0, <1>1, <1>4, <1>6, <1>7, CustomWorld
<1>9. calls' \in 0 .. MaxCalls
  BY <1>0, <1>1, CallsBound
<1>10. TInv'
  BY <1>0, <1>1, <1>2, <1>9 DEF TInv
<1> QED BY <1>5, <1>8, <1>10 DEF BInv

(* A property of scripts does not displace the one that names the object.   *)
LEMMA NameStays ==
  ASSUME NEW l, OneEach(l), NEW t, Named(l, t), NEW key \in Keys,
         NEW type \in EXTEND_TYPE, NEW val \in Vals
  PROVE  Named(add_property(l, key, type, val, TRUE), t)
<1>1. CASE key \in LongKeys
  BY <1>1 DEF add_property
<1>2. CASE key \notin LongKeys
  <2>1. key \in PropKeys \ LongKeys /\ key # "jsobj"
    BY <1>2, KeysAssumption DEF PropKeys
  <2>2. ASSUME NEW public \in BOOLEAN
        PROVE  \A e \in CellsOf(l) : e.key # key =>
                 e \in CellsOf(add_property(l, key, type, val, public))
    BY <2>1, AddIs
  <2>3. \A e \in CellsOf(l) : e.key # key => e \in CellsOf(add_property(l, key, type, val, TRUE))
    BY <2>2
  <2> QED BY <2>1, <2>3 DEF Named
<1> QED BY <1>1, <1>2

LEMMA ValueStep ==
  ASSUME BInv, NEW o \in Objs, priv[o] # NULL, NEW key \in Keys,
         NEW type \in {EXTEND_STR, EXTEND_JSON}, MayCall("values"), SetProperty(priv[o], key, type)
  PROVE  BInv'
<1>0. TInv /\ World /\ Stacked /\ PropsOk(props, heap)
  BY DEF BInv, World
<1> DEFINE t == priv[o]
<1>1. t \in Things
  BY <1>0 DEF TInv
<1>2. /\ \E n \in 1 .. MaxVals : heap[n] = "fresh"
      /\ props' = [props EXCEPT ![t] = add_property(@, key, type, NewVal, TRUE)]
      /\ Called(<< >>)
      /\ UNCHANGED <<api, state, istmp, name, auto, on, tables, js, priv, data, roots, held, fire,
                     heard, unheard>>
  BY DEF SetProperty, engine, report
<1>3. PropsOk(props', heap')
  BY <1>0, <1>1, ValueSet
<1> HIDE DEF t
<1>4. ObjOk'
  <2>1. NewVal \in Vals /\ type \in EXTEND_TYPE
    BY <1>0, <1>2, NewValIs DEF Vals, EXTEND_TYPE, PropsOk
  <2>2. ASSUME NEW v \in Things, Named(props[v], v) PROVE Named(props'[v], v)
    <3>1. CASE v = t
      <4>1. props'[v] = add_property(props[v], key, type, NewVal, TRUE)
        BY <1>0, <1>1, <1>2, <3>1 DEF PropsOk
      <4>2. OneEach(props[v])
        BY <1>0 DEF PropsOk, ListOk
      <4> QED BY <2>1, <2>2, <4>1, <4>2, NameStays
    <3>2. CASE v # t
      BY <1>0, <1>2, <2>2, <3>2 DEF PropsOk
    <3> QED BY <3>1, <3>2
  <2> QED BY <1>0, <1>2, <2>2 DEF World, ObjOk, Live
<1>5. World'
  BY <1>0, <1>2, <1>3, <1>4 DEF World, OnOk, OnLive, PrivOk, RootsOk, JsOk, Live
<1>6. Stacked'
  <2>1. todo' = todo
    BY <1>0, <1>2, NoneCalled
  <2> QED BY <1>0, <1>2, <2>1, SameStack
<1>7. calls' \in 0 .. MaxCalls
  BY <1>0, <1>2, CallsBound DEF MayCall
<1>8. TInv'
  BY <1>0, <1>2, <1>7 DEF TInv
<1> QED BY <1>5, <1>6, <1>8 DEF BInv

(* Only which objects are kept and which are alive changes.                 *)
LEMMA EngineStep ==
  ASSUME BInv, held' \subseteq Customs, js' \in [Objs -> {"none", "alive", "collected"}], JsOk',
         UNCHANGED <<server, priv, data, roots, todo, fire, calls, report>>
  PROVE  BInv'
<1>0. TInv /\ World /\ Stacked
  BY DEF BInv
<1>1. UNCHANGED <<api, state, istmp, name, auto, on, tables, props, heap, priv, data, roots, todo,
                  fire, calls, heard, unheard>>
  BY DEF server, report
<1>2. Stacked'
  BY <1>0, <1>1, SameStack
<1>3. TInv'
  BY <1>0, <1>1 DEF TInv
<1>4. World'
  BY <1>0, <1>1 DEF World, OnOk, OnLive, PrivOk, ObjOk, RootsOk, Live
<1> QED BY <1>2, <1>3, <1>4 DEF BInv

LEMMA KeepStep ==
  ASSUME BInv, NEW p \in Customs, LetGo(p) \/ ape_sm_get_pipe(p) PROVE BInv'
<1>0. TInv /\ World
  BY DEF BInv
<1>1. UNCHANGED <<server, js, priv, data, roots, todo, fire, calls, report>>
  BY DEF LetGo, ape_sm_get_pipe
<1>2. state' = state /\ js' = js
  BY <1>1 DEF server
<1>3. p \in Things
  BY DEF Things
<1>4. CASE LetGo(p)
  <2>1. held' = held \ {p}
    BY <1>4 DEF LetGo
  <2>2. JsOk'
    BY <1>0, <1>2, <2>1 DEF World, JsOk, Live
  <2> QED BY <1>0, <1>1, <2>1, <2>2, EngineStep DEF TInv
<1>5. CASE ape_sm_get_pipe(p)
  <2>1. held' = held \cup {p} /\ get_pipe_object(p) # NULL /\ js[get_pipe_object(p)] = "alive"
    BY <1>5 DEF ape_sm_get_pipe
  <2>2. get_pipe(p) = IF Live(p) THEN p ELSE NULL
    BY <1>0, <1>3, LookUps DEF World, TInv, Status
  <2>3. Live(p)
    BY <2>1, <2>2 DEF get_pipe_object
  <2>4. get_pipe(p) # NULL
    BY <1>3, <2>2, <2>3, ThingsAssumption
  <2>5. get_pipe_object(p) = data[p]
    BY <2>2, <2>3, <2>4 DEF get_pipe_object
  <2>6. js[Pipe(p)] = "alive"
    BY <1>0, <1>3, <2>1, <2>3, <2>5 DEF World, ObjOk
  <2>7. JsOk'
    BY <1>0, <1>2, <2>1, <2>6 DEF World, JsOk, Live
  <2> QED BY <1>0, <1>1, <2>1, <2>7, EngineStep DEF TInv
<1> QED BY <1>4, <1>5

(* The collector reaches the objects of what lives, unless they have lost   *)
(* their pointers.                                                          *)
LEMMA GCStep == ASSUME BInv, GC PROVE BInv'
<1>0. TInv /\ World
  BY DEF BInv
<1> DEFINE lost == {o \in Objs \ Reached : js[o] = "alive" /\ priv[o] # NULL}
<1>1. /\ js' = [o \in Objs |-> IF o \in lost THEN "collected" ELSE js[o]]
      /\ UNCHANGED <<server, priv, data, roots, held, todo, fire, calls, report>>
  BY DEF GC
<1>2. state' = state /\ held' = held
  BY <1>1 DEF server
<1>3. ASSUME NEW t \in roots PROVE Obj(t) \in Reached /\ Pipe(t) \in Reached
  <2>1. t \in Users \cup Chans /\ Live(t) /\ t \in Things /\ t \notin Customs
    BY <1>0, ThingsAssumption DEF World, RootsOk, TInv, Things
  <2>2. Named(props[t], t) /\ OneEach(props[t])
    BY <1>0, <2>1 DEF World, ObjOk, PropsOk, ListOk
  <2>3. get_property_val(props[t], "jsobj") = Obj(t)
    BY <2>2, NamedIs
  <2>4. Obj(t) \in {get_property_val(props[v], "jsobj") : v \in roots}
    BY <2>3
  <2>5. Obj(t)[2] = t
    BY DEF Obj
  <2> QED BY <2>4, <2>5 DEF Reached
<1>4. ASSUME NEW p \in held PROVE Pipe(p) \in Reached
  BY DEF Reached
<1> HIDE DEF lost
<1>5. JsOk'
  <2>1. ASSUME NEW t \in Users \cup Chans, Live(t) PROVE Obj(t) \notin lost /\ Pipe(t) \notin lost
    <3>1. t \in roots \/ Loose(t, priv, roots)
      BY <1>0, <2>1 DEF World, RootsOk
    <3> QED BY <1>3, <3>1 DEF lost, Loose
  <2>2. ASSUME NEW t \in Things, Live(t)', t \in Customs => t \in held' PROVE js'[Pipe(t)] = "alive"
    <3>1. Live(t) /\ (t \in Customs => t \in held)
      BY <1>2, <2>2 DEF Live
    <3>2. Pipe(t) \notin lost
      BY <1>4, <2>1, <3>1 DEF lost, Things
    <3>3. js[Pipe(t)] = "alive" /\ Pipe(t) \in Objs
      BY <1>0, <3>1, ObjFacts DEF World, JsOk
    <3> QED BY <1>1, <3>2, <3>3
  <2>3. ASSUME NEW t \in Users \cup Chans, Live(t)' PROVE js'[Obj(t)] = "alive"
    <3>1. Live(t)
      BY <1>2, <2>3 DEF Live
    <3>2. js[Obj(t)] = "alive" /\ Obj(t) \in Objs
      BY <1>0, <3>1, ObjFacts DEF World, JsOk
    <3> QED BY <1>1, <2>1, <3>1, <3>2
  <2> QED BY <2>2, <2>3 DEF JsOk
<1>6. js' \in [Objs -> {"none", "alive", "collected"}]
  BY <1>0, <1>1 DEF TInv
<1>7. held' \subseteq Customs
  BY <1>0, <1>2 DEF TInv
<1> QED BY <1>1, <1>5, <1>6, <1>7, EngineStep

-----------------------------------------------------------------------------
(* The invariant holds.                                                    *)

LEMMA InitHolds == ASSUME Init PROVE BInv
<1>1. \A t \in Things : ~Live(t)
  BY DEF Init, Live
<1>2. TInv
  BY BoundsAssumption DEF Init, TInv
<1>3. Stacked
  <2>1. todo = << >> /\ fire = {}
    BY DEF Init
  <2>2. << >> \in Seq(Task) /\ Len(<< >>) = 0
    BY EmptySeq
  <2>3. StackOk(<< >>, {}, state, on, auto, priv, roots)
    BY <2>2 DEF StackOk, Hooked, Firing, PinsLive, Pairs, Triples, Emptied, Unbound
  <2> QED BY <2>1, <2>3 DEF Stacked
<1>4. TabsOk(tables, state, name)
  <2>1. /\ tables = [n \in TableNames |-> tables[n]]
        /\ tables.hPubid = hashtbl_init /\ tables.hSessid = hashtbl_init
        /\ tables.hLusers = hashtbl_init
    BY DEF Init, TableNames
  <2>2. LiveIn(Things, state) = {} /\ LiveIn(Users, state) = {} /\ LiveIn(Chans, state) = {}
    BY <1>1 DEF LiveIn, Live, Things
  <2>3. /\ DOMAIN Ids(Things, state) = {} /\ DOMAIN Ids(Users, state) = {}
        /\ DOMAIN ByName(state, name) = {}
    BY <2>2 DEF Ids, ByName
  <2>4. /\ TableOk(hashtbl_init, Ids(Things, state)) /\ TableOk(hashtbl_init, Ids(Users, state))
        /\ TableOk(hashtbl_init, ByName(state, name))
    BY <2>3, EmptyTable
  <2> QED BY <2>1, <2>2, <2>4 DEF TabsOk, NamesOk
<1>5. PropsOk(props, heap)
  <2>1. \A hp, l : ListOk(<< >>, hp) /\ Apart(<< >>, l)
    BY EmptyList
  <2> QED BY <2>1 DEF Init, PropsOk
<1>6. OnOk
  BY FS_EmptySet DEF Init, OnOk, OnLive
<1>7. PrivOk
  BY ObjFacts DEF Init, PrivOk
<1>8. ObjOk /\ RootsOk /\ JsOk
  BY <1>1 DEF Init, ObjOk, RootsOk, JsOk, Things
<1> QED BY <1>2, <1>3, <1>4, <1>5, <1>6, <1>7, <1>8 DEF BInv, World

LEMMA NextHolds == ASSUME BInv, [Next]_vars PROVE BInv'
<1>1. CASE JoinFire \/ join \/ LeftFire \/ left \/ adduser \/ Return \/ Refuse
  BY <1>1, JoinFireStep, JoinStep, LeftFireStep, LeftStep, AdduserStep, ReturnStep
<1>2. CASE rmchan \/ RmchanFire \/ RmchanDetach \/ RmchanEnd
  BY <1>2, RmchanStep, RmchanFireStep, DetachStep, RmchanEndStep
<1>3. CASE deluser \/ DeluserFire \/ DeluserDetach \/ DeluserEnd
  BY <1>3, DeluserStep, DeluserFireStep, DetachStep, DeluserEndStep
<1>4. CASE \/ Timer \/ \E u \in Users : Connect(u) \/ cmd_quit(u)
           \/ \E u, w \in Users : check_timeout(u, w)
           \/ \E u \in Users, p \in Customs : cmd_send(u, p)
  BY <1>4, OutsideStep, ConnectStep
<1>5. ASSUME NEW u \in Users, NEW n \in api.names, cmd_join(u, n) \/ cmd_left(u, n) PROVE BInv'
  BY <1>5, OutsideStep, MakeStep
<1>6. ASSUME NEW n \in api.names, ape_sm_mkchan(n) PROVE BInv'
  BY <1>6, MakeStep
<1>7. ASSUME NEW u \in Users,
             \/ apeuser_sm_quit(Obj(u)) \/ ape_sm_adduser(Obj(u))
             \/ \E c \in Chans :
                  apeuser_sm_join(Obj(u), Obj(c)) \/ apeuser_sm_left(Obj(u), Obj(c))
      PROVE  BInv'
  BY <1>7, ScriptCallStep
<1>8. ASSUME NEW c \in Chans, ape_sm_rmchan(Obj(c)) PROVE BInv'
  BY <1>8, SmRmchanStep
<1>9. ASSUME NEW p \in Customs,
             \/ ape_sm_pipe_constructor(p) \/ LetGo(p) \/ ape_sm_get_pipe(p)
             \/ apepipe_sm_destroy(p)
      PROVE  BInv'
  BY <1>9, PipeMadeStep, KeepStep, PipeGoneStep
<1>10. ASSUME NEW key \in Keys, NEW type \in {EXTEND_STR, EXTEND_JSON}, NEW o \in Objs,
              \/ apeuser_sm_set_property(o, key, type)
              \/ apechannel_sm_set_property(o, key, type)
              \/ apepipe_sm_set_property(o, key, type)
       PROVE  BInv'
  <2>1. MayCall("values") /\ priv[o] # NULL /\ SetProperty(priv[o], key, type)
    BY <1>10 DEF apeuser_sm_set_property, apechannel_sm_set_property, apepipe_sm_set_property
  <2> QED BY <2>1, ValueStep
<1>11. CASE GC
  BY <1>11, GCStep
<1>12. CASE UNCHANGED vars
  <2>1. /\ TInv /\ World /\ Stacked
        /\ UNCHANGED <<api, state, istmp, name, auto, on, tables, props, heap, js, priv, data,
                       roots, held, todo, fire, calls, heard, unheard>>
    BY <1>12 DEF BInv, vars
  <2>2. Stacked'
    BY <2>1, SameStack
  <2> QED BY <2>1, <2>2, Same DEF TInv, Heard
<1>13. \A o \in Usable : o \in Objs
  BY DEF Usable
<1> QED BY <1>1, <1>2, <1>3, <1>4, <1>5, <1>6, <1>7, <1>8, <1>9, <1>10, <1>11, <1>12, <1>13
        DEF Next

(* The invariant behind all of what follows: the types of the variables,   *)
(* the order of the C stack, and what the server's structures and the      *)
(* objects of the scripts say of each other.                                *)
THEOREM BInvHolds == Spec => []BInv
<1>1. Init => BInv
  BY InitHolds
<1>2. BInv /\ [Next]_vars => BInv'
  BY NextHolds
<1> QED BY <1>1, <1>2, PTL DEF Spec

-----------------------------------------------------------------------------
(* What follows from it.                                                   *)

LEMMA TypesFollow == ASSUME BInv PROVE TypeOK
<1>1. TInv /\ Stacked /\ TabsOk(tables, state, name) /\ PropsOk(props, heap) /\ OnOk
  BY DEF BInv, World
<1>2. DOMAIN tables = {"hPubid", "hLusers", "hSessid"}
  <2>1. tables = [n \in TableNames |-> tables[n]]
    BY <1>1 DEF TabsOk
  <2>2. DOMAIN tables = TableNames
    BY <2>1
  <2> QED BY <2>2 DEF TableNames
<1>3. ASSUME NEW t \in Things, NEW i \in 1 .. 3, i <= Len(props[t])
      PROVE  props[t][i].type \in EXTEND_TYPE
  <2>1. props[t] \in Seq(Cell)
    BY <1>1 DEF PropsOk, ListOk, OneEach
  <2>2. i \in 1 .. Len(props[t])
    BY <1>3, <2>1, LenProperties
  <2>3. props[t][i] \in Cell
    BY <2>1, <2>2, ElementOfSeq
  <2> QED BY <2>3 DEF Cell
<1>4. todo \in Seq(Task) /\ Firing(todo, fire)
  BY <1>1 DEF Stacked, StackOk
<1>5. ASSUME NEW i \in 1 .. Len(todo)
      PROVE  \/ todo[i].op \in Ops
             \/ todo[i].op = "on" /\ todo[i].e \in Events
             \/ todo[i].op = "over" /\ todo[i].e \in Kinds
  <2>1. todo[i] \in Task
    BY <1>4, ElementOfSeq
  <2> QED BY <2>1 DEF Task
<1>6. fire \subseteq Kinds
  <2> SUFFICES ASSUME NEW k \in fire PROVE k \in Kinds
    OBVIOUS
  <2>1. PICK i \in 1 .. Len(todo) : IsOver(todo[i], k)
    BY <1>4 DEF Firing
  <2>2. todo[i] \in Task
    BY <1>4, ElementOfSeq
  <2> QED BY <2>1, <2>2 DEF Task, IsOver
<1>7. heap \in [1 .. MaxVals -> {"fresh", "live", "freed"}]
  BY <1>1 DEF PropsOk
<1> QED BY <1>1, <1>2, <1>3, <1>5, <1>6, <1>7 DEF TypeOK, TInv, OnOk

LEMMA TablesFollow == ASSUME BInv PROVE TablesExact
<1>1. TabsOk(tables, state, name)
  BY DEF BInv, World
<1>2. /\ IsMap(tables.hPubid, Ids(Things, state)) /\ IsMap(tables.hSessid, Ids(Users, state))
      /\ IsMap(tables.hLusers, ByName(state, name))
  BY <1>1, TableIsMap DEF TabsOk
<1> QED BY <1>2 DEF TablesExact, Ids, ByName, LiveIn, Live

LEMMA HandlesFollow == ASSUME BInv PROVE HandlesLive
<1>1. PrivOk
  BY DEF BInv, World
<1> QED BY <1>1, ObjFacts DEF HandlesLive, Usable, PrivOk

LEMMA PinsFollow == ASSUME BInv PROVE PinnedLive
<1>1. PinsLive(todo, state)
  BY DEF BInv, Stacked, StackOk
<1>2. ASSUME NEW t \in Pinned \cap Things PROVE Live(t)
  <2>1. PICK i \in 1 .. Len(todo) : /\ todo[i].op \notin {"on", "over"}
                                    /\ t \in {todo[i].a, todo[i].b}
    BY DEF Pinned
  <2>2. t \in Pins(todo[i])
    BY <2>1 DEF Pins
  <2> QED BY <1>1, <2>2 DEF PinsLive, Live
<1> QED BY <1>2 DEF PinnedLive

LEMMA ObjectsFollow == ASSUME BInv PROVE ObjectsKept
<1>1. TInv /\ TabsOk(tables, state, name) /\ PropsOk(props, heap) /\ ObjOk /\ RootsOk /\ JsOk
  BY DEF BInv, World
<1>2. ASSUME NEW t \in Users \cup Chans, Live(t) PROVE JsObj(t) = Obj(t)
  <2>1. t \in Things /\ t \notin Customs /\ t # NULL
    BY ThingsAssumption DEF Things
  <2>2. Named(props[t], t) /\ OneEach(props[t])
    BY <1>1, <1>2, <2>1 DEF ObjOk, PropsOk, ListOk
  <2> QED BY <2>1, <2>2, NamedIs DEF JsObj
<1>3. \A t \in Things : get_pipe(t) = IF Live(t) THEN t ELSE NULL
  BY <1>1, LookUps DEF TInv, Status
<1>4. NULL \notin Users /\ NULL \notin Chans
  BY ThingsAssumption DEF Things
<1>5. JsObj(NULL) = NULL
  BY DEF JsObj
<1>6. ASSUME NEW t \in Things
      PROVE  /\ ape_sm_get_user_by_pubid(t) = IF t \in Users /\ Live(t) THEN Obj(t) ELSE NULL
             /\ ape_sm_get_channel_by_pubid(t) = IF t \in Chans /\ Live(t) THEN Obj(t) ELSE NULL
             /\ get_pipe_object(t) = IF Live(t) THEN Pipe(t) ELSE NULL
             /\ Live(t) /\ (t \in Customs => t \in held) => js[Pipe(t)] = "alive"
             /\ Live(t) /\ t \notin Customs => js[Obj(t)] = "alive"
  <2>1. ape_sm_get_user_by_pubid(t) = IF t \in Users /\ Live(t) THEN Obj(t) ELSE NULL
    BY <1>2, <1>3, <1>4, <1>5 DEF ape_sm_get_user_by_pubid, seek_user_simple
  <2>2. ape_sm_get_channel_by_pubid(t) = IF t \in Chans /\ Live(t) THEN Obj(t) ELSE NULL
    BY <1>2, <1>3, <1>4, <1>5 DEF ape_sm_get_channel_by_pubid, getchanbypubid
  <2>3. get_pipe_object(t) = IF Live(t) THEN Pipe(t) ELSE NULL
    BY <1>1, <1>3, ThingsAssumption DEF get_pipe_object, ObjOk
  <2> QED BY <1>1, <2>1, <2>2, <2>3 DEF JsOk, Things
<1>7. ASSUME NEW c \in Chans, Live(c) PROVE ape_sm_get_channel_by_name(name[c]) = Obj(c)
  <2>1. c \in LiveIn(Chans, state) /\ NamesOk(state, name) /\ TableOk(tables.hLusers, ByName(state, name))
    BY <1>1, <1>7 DEF LiveIn, Live, TabsOk
  <2>2. PICK n \in Names : name[c] = Lower[n]
    BY <2>1 DEF NamesOk
  <2>3. name[c] \in DOMAIN Lower /\ Lower[name[c]] = name[c]
    BY <2>2, LowerAssumption, HashAssumption
  <2>4. name[c] \in DOMAIN ByName(state, name) /\ ByName(state, name)[name[c]] = c
    <3>1. DOMAIN ByName(state, name) = {name[d] : d \in LiveIn(Chans, state)}
      BY DEF ByName
    <3>2. \A d \in LiveIn(Chans, state) : ByName(state, name)[name[d]] = d
      BY <2>1, ByNameIs
    <3> QED BY <2>1, <3>1, <3>2
  <2>5. getchan(name[c]) = c
    BY <2>1, <2>3, <2>4, SeekFinds DEF getchan
  <2> QED BY <1>2, <1>7, <2>5 DEF ape_sm_get_channel_by_name
<1>8. \A t \in roots : Live(t)
  BY <1>1 DEF RootsOk
<1> QED BY <1>6, <1>7, <1>8 DEF ObjectsKept

LEMMA ValuesFollow == ASSUME BInv PROVE PropertiesKept
<1>1. PropsOk(props, heap)
  BY DEF BInv, World
<1>2. \A n \in 1 .. MaxVals : heap[n] # "freed twice"
  BY <1>1 DEF PropsOk
<1>3. ASSUME NEW t \in Things, NEW n \in Owned(props[t])
      PROVE  \E e \in CellsOf(props[t]) : Own(e) /\ n = e.val /\ heap[n] = "live"
  <2>1. PICK e \in CellsOf(props[t]) : Own(e) /\ n = e.val
    BY OwnedIs
  <2> QED BY <1>1, <2>1 DEF PropsOk, ListOk, CellOk
<1>4. \A t, v \in Things : t # v => Owned(props[t]) \cap Owned(props[v]) = {}
  <2> SUFFICES ASSUME NEW t \in Things, NEW v \in Things, t # v,
                      NEW n \in Owned(props[t]) \cap Owned(props[v])
               PROVE  FALSE
    OBVIOUS
  <2>1. PICK e \in CellsOf(props[t]) : Own(e) /\ n = e.val
    BY <1>3
  <2>2. PICK f \in CellsOf(props[v]) : Own(f) /\ n = f.val
    BY <1>3
  <2> QED BY <1>1, <2>1, <2>2 DEF PropsOk, Apart
<1>5. ASSUME NEW t \in Things, NEW key, NEW nm, key # "name"
      PROVE  /\ {s[2] : s \in {x \in Shown(props[t]) : x[1] = key}} = Value(props[t], key)
             /\ {s[2] : s \in {x \in Shown(props[t]) \cup {<<"name", nm>>} : x[1] = key}}
                  = Value(props[t], key)
  <2> DEFINE l == props[t]
             V == {e.val : e \in {c \in CellsOf(l) : c.key = key /\ Own(c)}}
  <2>1. ListOk(l, heap) /\ OneEach(l)
    BY <1>1 DEF PropsOk, ListOk
  <2>2. Value(l, key) = V
    BY <2>1, AtKey
  <2>3. Shown(l) = {<<e.key, e.val>> : e \in {c \in CellsOf(l) : c.public}}
    BY DEF Shown, CellsOf
  <2>4. \A e \in CellsOf(l) : e.public <=> Own(e)
    BY <2>1 DEF ListOk, CellOk
  <2> HIDE DEF l
  <2>5. {s[2] : s \in {x \in Shown(l) : x[1] = key}} = V
    <3>1. ASSUME NEW x \in Shown(l), x[1] = key PROVE x[2] \in V
      BY <2>3, <2>4, <3>1
    <3>2. ASSUME NEW w \in V PROVE \E x \in Shown(l) : x[1] = key /\ w = x[2]
      <4>1. PICK e \in CellsOf(l) : e.key = key /\ Own(e) /\ w = e.val
        OBVIOUS
      <4>2. <<e.key, e.val>> \in Shown(l)
        BY <2>3, <2>4, <4>1
      <4> QED BY <4>1, <4>2
    <3> HIDE DEF V
    <3> QED BY <3>1, <3>2
  <2>6. \A x : x \in Shown(l) \cup {<<"name", nm>>} /\ x[1] = key <=> x \in Shown(l) /\ x[1] = key
    BY <1>5
  <2>7. {x \in Shown(l) \cup {<<"name", nm>>} : x[1] = key} = {x \in Shown(l) : x[1] = key}
    BY <2>6
  <2> QED BY <2>2, <2>5, <2>7 DEF l
<1>6. \A key \in Keys \cup {"jsobj", "cx"} : key # "name"
  BY KeysAssumption
<1> QED BY <1>2, <1>3, <1>4, <1>5, <1>6
        DEF PropertiesKept, get_json_object_user, get_json_object_channel,
            get_json_object_pipe_custom, apeuser_sm_get_property, apechannel_sm_get_property,
            apepipe_sm_get_property

(* Every variable has its type, the stack and the lists of properties       *)
(* included.                                                                *)
THEOREM TypeCorrect == Spec => []TypeOK
<1>1. BInv => TypeOK
  BY TypesFollow
<1> QED BY <1>1, BInvHolds, PTL

(* The three hash tables find exactly what exists, whatever init_pipe(),   *)
(* mkchan(), rmchan(), deluser() and destroy() have done to them.           *)
THEOREM TablesAreExact == Spec => []TablesExact
<1>1. BInv => TablesExact
  BY TablesFollow
<1> QED BY <1>1, BInvHolds, PTL

(* JS_GetPrivate() of an object a script has never yields a freed user,    *)
(* channel or pipe.                                                         *)
THEOREM HandlesAreLive == Spec => []HandlesLive
<1>1. BInv => HandlesLive
  BY HandlesFollow
<1> QED BY <1>1, BInvHolds, PTL

(* As long as scripts keep to the rules of MayTakeOff, MayDelete, MayMake, *)
(* MayAccept and MayJoin, what a call under way goes on to use when the    *)
(* script functions it fired have returned has not been freed by them:     *)
(* among the rest, the next user that check_timeout() took from its list   *)
(* before it called deluser().  Nothing in the code enforces the rules.     *)
THEOREM PinnedAreLive == Spec => []PinnedLive
<1>1. BInv => PinnedLive
  BY PinsFollow
<1> QED BY <1>1, BInvHolds, PTL

(* getUserByPubid(), getChannelByPubid(), getChannelByName() and getPipe() *)
(* find the right object, and the collector has left it alone.              *)
THEOREM ObjectsAreKept == Spec => []ObjectsKept
<1>1. BInv => ObjectsKept
  BY ObjectsFollow
<1> QED BY <1>1, BInvHolds, PTL

(* Every value of a property is owned by one cell and freed once, and what *)
(* clients are shown is what getProperty() answers.                         *)
THEOREM PropertiesAreKept == Spec => []PropertiesKept
<1>1. BInv => PropertiesKept
  BY ValuesFollow
<1> QED BY <1>1, BInvHolds, PTL

-----------------------------------------------------------------------------
(* What listening scripts have been told, for ListsHeard.  A user is       *)
(* reported gone as deluser() enters its second run, and has left a        *)
(* channel, for userslist.js, as the event of left() begins: Told and Off  *)
(* say so of the stack s, on which the rest is still to be done.            *)

Reporting(s) == \E p \in 1 .. Len(s) : IsOver(s[p], "deluser")
Told(s, u) ==
  \E j \in 1 .. Len(s) : Deletes(s[j]) /\ s[j].a = u /\ Inside(s, j, "deluser")
Off(s, u, c) ==
  \E i \in 1 .. Len(s) : s[i].op = "left_now" /\ s[i].a = u /\ s[i].b = c
SameView(s, q) ==
  /\ \A u : Told(s, u) <=> Told(q, u)
  /\ \A u, c : Off(s, u, c) <=> Off(q, u, c)

LEMMA NothingTold ==
  \A u, c : ~Told(<< >>, u) /\ ~Off(<< >>, u, c)
<1>1. Len(<< >>) = 0
  BY EmptySeq
<1> QED BY <1>1 DEF Told, Off

LEMMA SettledView ==
  ASSUME NEW stack \in Seq(Task)
  PROVE  SameView(Settled(stack), stack)
<1> DEFINE s == Settled(stack)
<1>1. Len(stack) \in Nat
  BY LenProperties
<1>2. s \in Seq(Task) /\ Len(s) \in Nat
  BY SettledIs, LenProperties
<1>3. PICK k \in 0 .. Len(stack) :
        Rest(s, stack, k) /\ \A i \in 1 .. k : stack[i].op \in Finished
  BY SettledIs
<1> HIDE DEF s
<1>4. /\ Len(s) = Len(stack) - k
      /\ \A i \in 1 .. Len(s) : s[i] = stack[i + k] /\ i + k \in 1 .. Len(stack)
  BY <1>1, <1>2, <1>3 DEF Rest
<1>5. ASSUME NEW i \in 1 .. Len(stack), stack[i].op \notin Finished
      PROVE  i - k \in 1 .. Len(s) /\ s[i - k] = stack[i]
  <2>1. ~(i <= k)
    BY <1>1, <1>3, <1>5
  <2> QED BY <1>1, <1>4, <2>1
<1>6. ASSUME NEW u, Told(s, u) PROVE Told(stack, u)
  <2>1. PICK j \in 1 .. Len(s), p \in 1 .. Len(s) :
          Deletes(s[j]) /\ s[j].a = u /\ j < p /\ IsOver(s[p], "deluser")
    BY <1>6 DEF Told, Inside
  <2>2. j + k < p + k
    BY <1>2, <2>1
  <2> QED BY <1>4, <2>1, <2>2 DEF Told, Inside
<1>7. ASSUME NEW u, Told(stack, u) PROVE Told(s, u)
  <2>1. PICK j \in 1 .. Len(stack), p \in 1 .. Len(stack) :
          Deletes(stack[j]) /\ stack[j].a = u /\ j < p /\ IsOver(stack[p], "deluser")
    BY <1>7 DEF Told, Inside
  <2>2. j - k \in 1 .. Len(s) /\ s[j - k] = stack[j]
    BY <1>5, <2>1 DEF Deletes, Finished
  <2>3. p - k \in 1 .. Len(s) /\ s[p - k] = stack[p] /\ j - k < p - k
    BY <1>1, <1>2, <1>4, <2>1, <2>2
  <2> QED BY <2>1, <2>2, <2>3 DEF Told, Inside
<1>8. ASSUME NEW u, NEW c PROVE Off(s, u, c) <=> Off(stack, u, c)
  <2>1. ASSUME Off(stack, u, c) PROVE Off(s, u, c)
    <3>1. PICK i \in 1 .. Len(stack) :
            stack[i].op = "left_now" /\ stack[i].a = u /\ stack[i].b = c
      BY <2>1 DEF Off
    <3>2. i - k \in 1 .. Len(s) /\ s[i - k] = stack[i]
      BY <1>5, <3>1 DEF Finished
    <3> QED BY <3>1, <3>2 DEF Off
  <2>2. ASSUME Off(s, u, c) PROVE Off(stack, u, c)
    BY <1>4, <2>2 DEF Off
  <2> QED BY <2>1, <2>2
<1> QED BY <1>6, <1>7, <1>8 DEF SameView, s

(* The views of a stack with new entries on top of r.                       *)
LEMMA OnTopView ==
  ASSUME NEW new \in Seq(Task), NEW r \in Seq(Task)
  PROVE  /\ \A u, c : Off(new \o r, u, c) <=> Off(new, u, c) \/ Off(r, u, c)
         /\ \A u : Told(new \o r, u) <=>
              \/ Told(new, u) \/ Told(r, u)
              \/ /\ \E i \in 1 .. Len(new) : Deletes(new[i]) /\ new[i].a = u
                 /\ Reporting(r)
<1> DEFINE s == new \o r
           n == Len(new)
<1>1. /\ n \in Nat /\ Len(r) \in Nat /\ Len(s) = n + Len(r)
      /\ \A i \in 1 .. n : s[i] = new[i]
      /\ \A i \in 1 .. Len(r) : s[n + i] = r[i]
  BY OnTop
<1> HIDE DEF s, n
<1>2. /\ \A i \in 1 .. n : i \in 1 .. Len(s)
      /\ \A i \in 1 .. Len(r) : n + i \in 1 .. Len(s)
      /\ \A i \in 1 .. n, j \in 1 .. Len(r) : i < n + j
      /\ \A i, j \in 1 .. Len(r) : i < j => n + i < n + j
      /\ \A i \in 1 .. Len(s) : i \in 1 .. n \/ i - n \in 1 .. Len(r)
      /\ \A i \in 1 .. Len(s), j \in 1 .. Len(s) : i < j => i - n < j - n
      /\ \A i \in 1 .. Len(s) : n + (i - n) = i
  BY <1>1
<1>3. ASSUME NEW i \in 1 .. Len(s)
      PROVE  \/ i \in 1 .. n /\ s[i] = new[i]
             \/ i - n \in 1 .. Len(r) /\ s[i] = r[i - n]
  <2>1. CASE i \in 1 .. n
    BY <1>1, <2>1
  <2>2. CASE i - n \in 1 .. Len(r)
    <3>1. s[n + (i - n)] = r[i - n]
      BY <1>1, <2>2
    <3> QED BY <1>2, <2>2, <3>1
  <2> QED BY <1>2, <2>1, <2>2
<1>4. ASSUME NEW u, NEW c PROVE Off(s, u, c) <=> Off(new, u, c) \/ Off(r, u, c)
  <2>1. Off(s, u, c) => Off(new, u, c) \/ Off(r, u, c)
    BY <1>3 DEF Off, n
  <2>2. Off(new, u, c) => Off(s, u, c)
    BY <1>1, <1>2 DEF Off, n
  <2>3. Off(r, u, c) => Off(s, u, c)
    BY <1>1, <1>2 DEF Off
  <2> QED BY <2>1, <2>2, <2>3
<1>5. ASSUME NEW u, Told(new, u) PROVE Told(s, u)
  <2>1. PICK j \in 1 .. n, p \in 1 .. n :
          Deletes(new[j]) /\ new[j].a = u /\ j < p /\ IsOver(new[p], "deluser")
    BY <1>5 DEF Told, Inside, n
  <2> QED BY <1>1, <1>2, <2>1 DEF Told, Inside
<1>6. ASSUME NEW u, Told(r, u) PROVE Told(s, u)
  <2>1. PICK j \in 1 .. Len(r), p \in 1 .. Len(r) :
          Deletes(r[j]) /\ r[j].a = u /\ j < p /\ IsOver(r[p], "deluser")
    BY <1>6 DEF Told, Inside
  <2> QED BY <1>1, <1>2, <2>1 DEF Told, Inside
<1>7. ASSUME NEW u, NEW i \in 1 .. n, Deletes(new[i]), new[i].a = u, Reporting(r)
      PROVE  Told(s, u)
  <2>1. PICK p \in 1 .. Len(r) : IsOver(r[p], "deluser")
    BY <1>7 DEF Reporting
  <2> QED BY <1>1, <1>2, <1>7, <2>1 DEF Told, Inside
<1>8. ASSUME NEW u, Told(s, u)
      PROVE  \/ Told(new, u) \/ Told(r, u)
             \/ (\E i \in 1 .. n : Deletes(new[i]) /\ new[i].a = u) /\ Reporting(r)
  <2>1. PICK j \in 1 .. Len(s), p \in 1 .. Len(s) :
          Deletes(s[j]) /\ s[j].a = u /\ j < p /\ IsOver(s[p], "deluser")
    BY <1>8 DEF Told, Inside
  <2>2. CASE j \in 1 .. n /\ s[j] = new[j] /\ p \in 1 .. n /\ s[p] = new[p]
    BY <2>1, <2>2 DEF Told, Inside, n
  <2>3. CASE j \in 1 .. n /\ s[j] = new[j] /\ p - n \in 1 .. Len(r) /\ s[p] = r[p - n]
    BY <2>1, <2>3 DEF Reporting
  <2>4. CASE j - n \in 1 .. Len(r) /\ s[j] = r[j - n] /\ p - n \in 1 .. Len(r) /\ s[p] = r[p - n]
    BY <1>2, <2>1, <2>4 DEF Told, Inside
  <2>5. CASE j - n \in 1 .. Len(r) /\ p \in 1 .. n
    BY <1>1, <2>1, <2>5
  <2> QED BY <1>3, <2>2, <2>3, <2>4, <2>5
<1> QED BY <1>4, <1>5, <1>6, <1>7, <1>8 DEF s, n

(* Entries that are about nobody's going.                                   *)
Plain(x) == x \in Task /\ ~Deletes(x) /\ x.op # "left_now"
LEMMA PlainView ==
  ASSUME NEW new \in Seq(Task), NEW r \in Seq(Task),
         \A i \in 1 .. Len(new) : Plain(new[i])
  PROVE  SameView(new \o r, r)
<1>1. \A u, c : ~Off(new, u, c) /\ ~Told(new, u)
  BY DEF Off, Told, Plain
<1>2. \A u : ~\E i \in 1 .. Len(new) : Deletes(new[i]) /\ new[i].a = u
  BY DEF Plain
<1> QED BY <1>1, <1>2, OnTopView DEF SameView

(* The views of a stack, from its first entry and the rest.                 *)
LEMMA FirstView ==
  ASSUME NEW s \in Seq(Task), s # << >>
  PROVE  /\ Tail(s) \in Seq(Task)
         /\ \A u, c : Off(s, u, c) <=>
              \/ Head(s).op = "left_now" /\ Head(s).a = u /\ Head(s).b = c
              \/ Off(Tail(s), u, c)
         /\ \A u : Told(s, u) <=>
              \/ Deletes(Head(s)) /\ Head(s).a = u /\ Reporting(Tail(s))
              \/ Told(Tail(s), u)
<1> DEFINE h == Head(s)
           r == Tail(s)
           new == <<h>>
<1>1. s \in Seq(Task) /\ Len(s) \in Nat /\ Len(s) > 0
  BY LenProperties, EmptySeq
<1>2. h \in Task /\ r \in Seq(Task) /\ s = new \o r
  BY <1>1, HeadTailProperties, ElementOfSeq
<1> HIDE DEF h, r
<1>3. new \in Seq(Task) /\ Len(new) = 1 /\ new[1] = h
  BY <1>2
<1> HIDE DEF new
<1>4. \A u, c : Off(new, u, c) <=> h.op = "left_now" /\ h.a = u /\ h.b = c
  BY <1>3 DEF Off
<1>5. \A u : ~Told(new, u)
  BY <1>3 DEF Told, Inside
<1>6. \A u : (\E i \in 1 .. Len(new) : Deletes(new[i]) /\ new[i].a = u)
               <=> Deletes(h) /\ h.a = u
  BY <1>3
<1>7. /\ \A u, c : Off(new \o r, u, c) <=> Off(new, u, c) \/ Off(r, u, c)
      /\ \A u : Told(new \o r, u) <=>
              \/ Told(new, u) \/ Told(r, u)
              \/ /\ \E i \in 1 .. Len(new) : Deletes(new[i]) /\ new[i].a = u
                 /\ Reporting(r)
  BY <1>2, <1>3, OnTopView
<1>8. \A u : Told(s, u) <=> (Deletes(h) /\ h.a = u /\ Reporting(r)) \/ Told(r, u)
  BY <1>2, <1>5, <1>6, <1>7
<1>9. \A u, c : Off(s, u, c) <=> (h.op = "left_now" /\ h.a = u /\ h.b = c) \/ Off(r, u, c)
  BY <1>2, <1>4, <1>7
<1> QED BY <1>2, <1>8, <1>9 DEF h, r

(* What a step does to the views.                                           *)
LEMMA RunView ==
  ASSUME Stacked, todo # << >>, NEW new \in Seq(Task), NEW f, Run(new \o Tail(todo), f)
  PROVE  Tail(todo) \in Seq(Task) /\ SameView(todo', new \o Tail(todo))
<1>1. todo \in Seq(Task)
  BY DEF Stacked, StackOk
<1>2. Tail(todo) \in Seq(Task)
  BY <1>1, FirstView
<1> DEFINE s == new \o Tail(todo)
<1>3. s \in Seq(Task)
  BY <1>2, OnTop
<1>4. todo' = Settled(s)
  BY DEF Run
<1> HIDE DEF s
<1>5. SameView(todo', s)
  BY <1>3, <1>4, SettledView
<1> QED BY <1>2, <1>5 DEF s

LEMMA PlainRun ==
  ASSUME Stacked, todo # << >>, Plain(Head(todo)),
         NEW new \in Seq(Task), \A i \in 1 .. Len(new) : Plain(new[i]),
         NEW f, Run(new \o Tail(todo), f)
  PROVE  SameView(todo', todo)
<1> DEFINE r == Tail(todo)
<1>1. todo \in Seq(Task)
  BY DEF Stacked, StackOk
<1>2. r \in Seq(Task) /\ SameView(todo', new \o r)
  BY RunView
<1>3. SameView(todo, r)
  BY <1>1, FirstView DEF SameView, Plain
<1> HIDE DEF r
<1>4. SameView(new \o r, r)
  BY <1>2, PlainView
<1> QED BY <1>2, <1>3, <1>4 DEF SameView

LEMMA PlainCall ==
  ASSUME Stacked, NEW new \in Seq(Task), \A i \in 1 .. Len(new) : Plain(new[i]), Called(new)
  PROVE  SameView(todo', todo)
BY PlainView DEF Stacked, StackOk, Called

LEMMA PlainEntries ==
  /\ \A op \in {"join", "join_now", "left"}, u \in Users, c \in Chans : Plain(Do(op, u, c))
  /\ \A op \in {"rmchan", "rmchan_fire", "rmchan_detach"}, c \in Chans : Plain(Do(op, c, NULL))
  /\ \A op \in {"deluser_detach", "adduser"}, u \in Users : Plain(Do(op, u, NULL))
  /\ \A t \in Users \cup Chans : Plain(Do("done", t, NULL))
  /\ \A e \in Events, a \in Things \cup {NULL}, b \in Things \cup {NULL} : Plain(On(e, a, b))
  /\ \A k \in Kinds : Plain(Over(k))
<1>1. ASSUME NEW x \in Task, x.op \notin {"deluser", "deluser_fire", "left_now"} PROVE Plain(x)
  BY <1>1 DEF Plain, Deletes
<1>2. \A op \in {"join", "join_now", "left"}, u \in Users, c \in Chans : Plain(Do(op, u, c))
  BY <1>1, Entries, Fields
<1>3. \A op \in {"rmchan", "rmchan_fire", "rmchan_detach"}, c \in Chans : Plain(Do(op, c, NULL))
  BY <1>1, Entries, Fields
<1>4. \A op \in {"deluser_detach", "adduser"}, u \in Users : Plain(Do(op, u, NULL))
  BY <1>1, Entries, Fields
<1>5. \A t \in Users \cup Chans : Plain(Do("done", t, NULL))
  BY <1>1, Entries, Fields
<1>6. ASSUME NEW e \in Events, NEW a \in Things \cup {NULL}, NEW b \in Things \cup {NULL}
      PROVE  Plain(On(e, a, b))
  BY <1>1, Entries, Fields
<1>7. \A k \in Kinds : Plain(Over(k))
  BY <1>1, Entries, Fields
<1> QED BY <1>2, <1>3, <1>4, <1>5, <1>6, <1>7

LEMMA PlainBlocks ==
  /\ << >> \in Seq(Task) /\ \A i \in 1 .. Len(<< >>) : Plain(<< >>[i])
  /\ \A x : Plain(x) => <<x>> \in Seq(Task) /\ \A i \in 1 .. Len(<<x>>) : Plain(<<x>>[i])
  /\ \A x, y : Plain(x) /\ Plain(y) =>
       <<x, y>> \in Seq(Task) /\ \A i \in 1 .. Len(<<x, y>>) : Plain(<<x, y>>[i])
  /\ \A new, q \in Seq(Task) :
       (\A i \in 1 .. Len(new) : Plain(new[i])) /\ (\A i \in 1 .. Len(q) : Plain(q[i])) =>
         new \o q \in Seq(Task) /\ \A i \in 1 .. Len(new \o q) : Plain((new \o q)[i])
<1>1. << >> \in Seq(Task) /\ \A i \in 1 .. Len(<< >>) : Plain(<< >>[i])
  BY EmptySeq
<1>2. ASSUME NEW x, Plain(x)
      PROVE  <<x>> \in Seq(Task) /\ \A i \in 1 .. Len(<<x>>) : Plain(<<x>>[i])
  <2>1. x \in Task
    BY <1>2 DEF Plain
  <2>2. <<x>> \in Seq(Task) /\ Len(<<x>>) = 1 /\ <<x>>[1] = x
    BY <2>1
  <2> QED BY <1>2, <2>2
<1>3. ASSUME NEW x, NEW y, Plain(x), Plain(y)
      PROVE  <<x, y>> \in Seq(Task) /\ \A i \in 1 .. Len(<<x, y>>) : Plain(<<x, y>>[i])
  <2>1. x \in Task /\ y \in Task
    BY <1>3 DEF Plain
  <2>2. <<x, y>> \in Seq(Task) /\ Len(<<x, y>>) = 2 /\ <<x, y>>[1] = x /\ <<x, y>>[2] = y
    BY <2>1
  <2> QED BY <1>3, <2>2
<1>4. ASSUME NEW new \in Seq(Task), NEW q \in Seq(Task),
             \A i \in 1 .. Len(new) : Plain(new[i]), \A i \in 1 .. Len(q) : Plain(q[i])
      PROVE  new \o q \in Seq(Task) /\ \A i \in 1 .. Len(new \o q) : Plain((new \o q)[i])
  <2> DEFINE s == new \o q
             n == Len(new)
  <2>1. /\ s \in Seq(Task) /\ n \in Nat /\ Len(q) \in Nat /\ Len(s) = n + Len(q)
        /\ \A i \in 1 .. n : s[i] = new[i]
        /\ \A i \in 1 .. Len(q) : s[n + i] = q[i]
    BY OnTop
  <2> HIDE DEF s
  <2>2. ASSUME NEW i \in 1 .. Len(s) PROVE Plain(s[i])
    <3>1. CASE i \in 1 .. n
      BY <1>4, <2>1, <3>1
    <3>2. CASE i \notin 1 .. n
      <4> HIDE DEF n
      <4>1. i - n \in 1 .. Len(q) /\ n + (i - n) = i
        BY <2>1, <3>2
      <4>2. s[n + (i - n)] = q[i - n]
        BY <2>1, <4>1
      <4> QED BY <1>4, <4>1, <4>2
    <3> QED BY <3>1, <3>2
  <2> QED BY <2>1, <2>2 DEF s
<1> QED BY <1>1, <1>2, <1>3, <1>4

(* The list of users is right but for those being deleted, and the lists   *)
(* of channels but for those who are leaving.                               *)
UsersHeard(us, un, st, tmp, s) ==
  \A u \in Users : u \notin un =>
    (u \in us <=> st[u] = "live" /\ u \notin tmp /\ ~Told(s, u))
MembersHeard(l, un, st, o, s) ==
  \A c \in Chans :
    /\ st[c] = "none" => l[c] = {}
    /\ c \notin un /\ st[c] = "live" =>
         \A u \in Users : u \in l[c] <=> <<u, c>> \in o /\ ~Off(s, u, c)
HInv ==
  /\ UsersHeard(heard.users, unheard, state, istmp, todo)
  /\ MembersHeard(heard.list, unheard, state, on, todo)

LEMMA SameHeard ==
  ASSUME HInv, SameView(todo', todo), UNCHANGED <<heard, unheard, istmp, on>>,
         \A t \in Users \cup Chans : state'[t] = state[t]
  PROVE  HInv'
<1>1. UsersHeard(heard.users, unheard, state', istmp, todo')
  BY DEF HInv, UsersHeard, SameView
<1>2. MembersHeard(heard.list, unheard, state', on, todo')
  BY DEF HInv, MembersHeard, SameView
<1> QED BY <1>1, <1>2 DEF HInv

-----------------------------------------------------------------------------
(* One step per action again, for what is heard.                           *)

LEMMA PlainSteps ==
  ASSUME BInv, HInv,
         \/ JoinFire \/ rmchan \/ RmchanFire \/ RmchanDetach \/ DeluserDetach \/ Return
  PROVE  HInv'
<1> DEFINE h == Head(todo)
           r == Tail(todo)
<1>0. Stacked /\ TInv /\ OnOk
  BY DEF BInv, World
<1>1. /\ todo # << >>
      /\ h.op \in {"join", "rmchan", "rmchan_fire", "rmchan_detach", "deluser_detach", "on"}
      /\ UNCHANGED <<heard, unheard, istmp, on, state>>
  BY DEF JoinFire, rmchan, RmchanFire, RmchanDetach, DeluserDetach, Return, At, server, report
<1>2. h \in Task
  BY <1>0, <1>1, HeadTask
<1>3. Plain(h)
  BY <1>1, <1>2 DEF Plain, Deletes
<1>4. \/ h.op = "join" /\ h.a \in Users /\ h.b \in Chans
      \/ h.op \in {"rmchan", "rmchan_fire"} /\ h.a \in Chans
      \/ h.op \in {"rmchan_detach", "deluser_detach", "on"}
  BY <1>1, <1>2 DEF Task
<1>5. ASSUME NEW new \in Seq(Task), \A i \in 1 .. Len(new) : Plain(new[i]),
             NEW f, Run(new \o r, f)
      PROVE  HInv'
  <2>1. SameView(todo', todo)
    BY <1>0, <1>1, <1>3, <1>5, PlainRun
  <2> QED BY <1>1, <2>1, SameHeard
<1>6. CASE JoinFire
  <2> DEFINE x1 == On("beforeJoin", h.a, h.b)
             x2 == Do("join_now", h.a, h.b)
             x3 == On("afterJoin", h.a, h.b)
             x4 == Over("join")
             new == <<x1, x2, x3, x4>>
  <2>1. Run(new \o r, fire \cup {"join"}) /\ h.op = "join"
    BY <1>6 DEF JoinFire, At, Fire, This, That
  <2>2. Plain(x1) /\ Plain(x2) /\ Plain(x3) /\ Plain(x4)
    BY <1>4, <2>1, PlainEntries DEF Events, Kinds, Things
  <2> HIDE DEF x1, x2, x3, x4
  <2>3. x1 \in Task /\ x2 \in Task /\ x3 \in Task /\ x4 \in Task
    BY <2>2 DEF Plain
  <2>4. /\ new \in Seq(Task) /\ Len(new) = 4
        /\ new[1] = x1 /\ new[2] = x2 /\ new[3] = x3 /\ new[4] = x4
    BY <2>3
  <2> HIDE DEF new
  <2>5. \A i \in 1 .. Len(new) : Plain(new[i])
    BY <2>2, <2>4
  <2> QED BY <1>5, <2>1, <2>4, <2>5
<1>7. CASE rmchan
  <2>1. PICK walk \in Leavings(Users, {h.a}) :
          Run((walk \o <<Do("rmchan_fire", h.a, NULL)>>) \o r, fire) /\ h.op = "rmchan"
    BY <1>7 DEF rmchan, At, Continue, This
  <2> DEFINE x == Do("rmchan_fire", h.a, NULL)
  <2>2. Walks(walk, on \cap (Users \X {h.a}))
    BY <1>0, LeavingsWalk DEF OnOk
  <2>3. walk \in Seq(Task) /\ \A i \in 1 .. Len(walk) : walk[i] \in Task /\ walk[i].op = "left"
    BY <2>2, ElementOfSeq DEF Walks
  <2>4. \A i \in 1 .. Len(walk) : Plain(walk[i])
    BY <2>3 DEF Plain, Deletes
  <2>5. Plain(x)
    BY <1>4, <2>1, PlainEntries
  <2> HIDE DEF x
  <2>6. <<x>> \in Seq(Task) /\ \A i \in 1 .. Len(<<x>>) : Plain(<<x>>[i])
    BY <2>5, PlainBlocks
  <2>7. walk \o <<x>> \in Seq(Task)
        /\ \A i \in 1 .. Len(walk \o <<x>>) : Plain((walk \o <<x>>)[i])
    BY <2>3, <2>4, <2>6, PlainBlocks
  <2> DEFINE new == walk \o <<x>>
  <2>8. Run(new \o r, fire)
    BY <2>1 DEF x
  <2> HIDE DEF new
  <2> QED BY <1>5, <2>7, <2>8 DEF new
<1>8. CASE RmchanFire
  <2> DEFINE x1 == On("rmchan", h.a, NULL)
             x2 == Do("rmchan_detach", h.a, NULL)
             x3 == Do("rmchan", h.a, NULL)
             x4 == Over("rmchan")
             new == <<x1, x2, x3, x4>>
  <2>1. Run(new \o r, fire \cup {"rmchan"}) /\ h.op = "rmchan_fire"
    BY <1>8 DEF RmchanFire, At, Fire, This
  <2>2. Plain(x1) /\ Plain(x2) /\ Plain(x3) /\ Plain(x4)
    BY <1>4, <2>1, PlainEntries DEF Events, Kinds, Things
  <2> HIDE DEF x1, x2, x3, x4
  <2>3. x1 \in Task /\ x2 \in Task /\ x3 \in Task /\ x4 \in Task
    BY <2>2 DEF Plain
  <2>4. /\ new \in Seq(Task) /\ Len(new) = 4
        /\ new[1] = x1 /\ new[2] = x2 /\ new[3] = x3 /\ new[4] = x4
    BY <2>3
  <2> HIDE DEF new
  <2>5. \A i \in 1 .. Len(new) : Plain(new[i])
    BY <2>2, <2>4
  <2> QED BY <1>5, <2>1, <2>4, <2>5
<1>9. CASE RmchanDetach \/ DeluserDetach \/ Return
  <2>1. Run(<< >> \o r, fire)
    BY <1>9 DEF RmchanDetach, DeluserDetach, Return, Continue
  <2> DEFINE new == << >>
  <2>2. new \in Seq(Task) /\ (\A i \in 1 .. Len(new) : Plain(new[i])) /\ Run(new \o r, fire)
    BY <2>1, PlainBlocks
  <2> HIDE DEF new
  <2> QED BY <1>5, <2>2
<1> QED BY <1>6, <1>7, <1>8, <1>9

LEMMA RefuseHeard == ASSUME BInv, HInv, Refuse PROVE HInv'
<1> DEFINE r == Tail(todo)
           q == Tail(r)
<1>0. Stacked
  BY DEF BInv
<1>1. /\ todo # << >> /\ Head(todo).op = "on" /\ Head(todo).e = "connect"
      /\ todo' = Settled(SubSeq(todo, 3, Len(todo)))
      /\ UNCHANGED <<heard, unheard, istmp, on, state>>
  BY DEF Refuse, At, server, report, Run
<1>2. /\ todo \in Seq(Task) /\ Len(todo) \in Nat /\ r \in Seq(Task)
      /\ Head(todo) = todo[1] /\ Len(todo) = Len(r) + 1
      /\ \A i \in 1 .. Len(r) : r[i] = todo[i + 1]
  BY <1>0, <1>1, Under DEF Stacked, StackOk, UnderOk
<1>3. SameView(todo, r)
  BY <1>1, <1>2, FirstView DEF SameView, Deletes
<1>4. 1 < Len(todo) /\ todo[2].op = "adduser"
  <2>1. 1 \in 1 .. Len(todo) /\ todo[1].op = "on" /\ todo[1].e = "connect"
    BY <1>1, <1>2, LenProperties
  <2>2. 1 < Len(todo) /\ todo[1 + 1].op = "adduser"
    BY <1>0, <2>1 DEF Stacked, StackOk, Hooked
  <2> QED BY <2>2
<1> HIDE DEF r
<1>5. r # << >> /\ Head(r) = r[1] /\ Len(r) \in Nat /\ Len(r) > 0 /\ r[1].op = "adduser"
  <2>1. Len(r) \in Nat
    BY <1>2, LenProperties
  <2>2. Len(r) > 0 /\ 1 \in 1 .. Len(r) /\ r[1] = todo[1 + 1]
    BY <1>2, <1>4, <2>1
  <2> QED BY <1>2, <1>4, <2>1, <2>2, EmptySeq, HeadTailProperties
<1>6. q \in Seq(Task) /\ SameView(r, q)
  BY <1>2, <1>5, FirstView DEF SameView, Deletes
<1>7. SubSeq(todo, 3, Len(todo)) = q
  <2>1. q \in Seq(Task) /\ Len(q) = Len(r) - 1 /\ \A i \in 1 .. Len(q) : q[i] = r[i + 1]
    BY <1>2, <1>5, HeadTailProperties
  <2> HIDE DEF q
  <2> DEFINE z == SubSeq(todo, 3, Len(todo))
  <2>2. \A i \in 3 .. Len(todo) : todo[i] \in Task
    BY <1>2, ElementOfSeq
  <2>3. z \in Seq(Task) /\ Len(z) = Len(todo) - 2
        /\ \A i \in 1 .. Len(todo) - 2 : z[i] = todo[3 + i - 1]
    <3>1. /\ z \in Seq(Task)
          /\ Len(z) = IF 3 <= Len(todo) THEN Len(todo) - 3 + 1 ELSE 0
          /\ \A i \in 1 .. Len(todo) - 3 + 1 : z[i] = todo[3 + i - 1]
      BY <1>2, <2>2, SubSeqProperties
    <3> HIDE DEF z
    <3>2. ASSUME NEW n \in Nat, 1 < n PROVE n - 3 + 1 = n - 2 /\ (~(3 <= n) => n - 2 = 0)
      BY <3>2
    <3>3. Len(todo) - 3 + 1 = Len(todo) - 2 /\ (~(3 <= Len(todo)) => Len(todo) - 2 = 0)
      BY <1>2, <1>4, <3>2
    <3> QED BY <3>1, <3>3
  <2> HIDE DEF z
  <2>4. ASSUME NEW i \in 1 .. Len(q) PROVE q[i] = z[i]
    <3>1. i + 1 \in 1 .. Len(r) /\ (i + 1) + 1 = 3 + i - 1 /\ i \in 1 .. Len(todo) - 2
      BY <1>2, <1>5, <2>1
    <3>2. q[i] = todo[(i + 1) + 1]
      BY <1>2, <2>1, <3>1
    <3> QED BY <2>3, <3>1, <3>2
  <2>5. Len(z) = Len(q)
    BY <1>2, <1>5, <2>1, <2>3
  <2>6. z = q
    BY <2>1, <2>3, <2>4, <2>5, SeqEqual
  <2> QED BY <2>6 DEF z
<1>8. SameView(Settled(q), q)
  BY <1>6, SettledView
<1>9. SameView(todo', todo)
  BY <1>1, <1>3, <1>6, <1>7, <1>8 DEF SameView
<1> QED BY <1>1, <1>9, SameHeard

(* Calls of the server from outside and by scripts.                         *)
LEMMA CallHeard ==
  ASSUME BInv, HInv, NEW new \in Seq(Task), \A i \in 1 .. Len(new) : Plain(new[i]),
         Called(new), UNCHANGED <<heard, unheard, istmp, on>>,
         \A t \in Users \cup Chans : state'[t] = state[t]
  PROVE  HInv'
<1>1. SameView(todo', todo)
  BY PlainCall DEF BInv
<1> QED BY <1>1, SameHeard

LEMMA QuitHeard ==
  ASSUME BInv, HInv, NEW new \in Seq(Task), \A i \in 1 .. Len(new) : new[i].op \in {"deluser", "done"},
         Called(new), "deluser" \notin fire, UNCHANGED <<heard, unheard, istmp, on, state>>
  PROVE  HInv'
<1>1. todo' = new \o todo
  BY DEF Called
<1>2. Stacked /\ todo \in Seq(Task)
  BY DEF BInv, Stacked, StackOk
<1>3. ~Reporting(todo)
  BY <1>2, Waiting DEF Reporting
<1>4. \A v, c : ~Told(new, v) /\ ~Off(new, v, c)
  BY DEF Told, Off, Inside, IsOver
<1>5. SameView(todo', todo)
  BY <1>1, <1>2, <1>3, <1>4, OnTopView DEF SameView
<1> QED BY <1>5, SameHeard

LEMMA OutsideHeard ==
  ASSUME BInv, HInv,
         \/ \E u \in Users : cmd_quit(u)
         \/ \E u, w \in Users : check_timeout(u, w)
         \/ Timer
         \/ \E u \in Users, p \in Customs : cmd_send(u, p)
         \/ \E u \in Users, n \in api.names : cmd_left(u, n)
         \/ \E u \in Users, n \in api.names : cmd_join(u, n) /\ getchan(n) # NULL
  PROVE  HInv'
<1>0. UNCHANGED <<heard, unheard, istmp, on, state>>
  BY DEF cmd_quit, check_timeout, Timer, cmd_send, cmd_left, cmd_join, server, report
<1>1. Idle /\ fire = {}
  BY IdleStack DEF BInv, cmd_quit, check_timeout, Timer, cmd_send, cmd_left, cmd_join
<1>2. FoundLive /\ \A n \in api.names : n \in Names
  BY FoundLiveHolds, InstallsAssumption DEF BInv, TInv
<1>3. ASSUME NEW x, Plain(x), Called(<<x>>) PROVE HInv'
  <2> DEFINE new == <<x>>
  <2>1. new \in Seq(Task) /\ (\A i \in 1 .. Len(new) : Plain(new[i])) /\ Called(new)
    BY <1>3, PlainBlocks
  <2> HIDE DEF new
  <2> QED BY <1>0, <2>1, CallHeard
<1>4. ASSUME NEW x, NEW y, Plain(x), Plain(y), Called(<<x, y>>) PROVE HInv'
  <2> DEFINE new == <<x, y>>
  <2>1. new \in Seq(Task) /\ (\A i \in 1 .. Len(new) : Plain(new[i])) /\ Called(new)
    BY <1>4, PlainBlocks
  <2> HIDE DEF new
  <2> QED BY <1>0, <2>1, CallHeard
<1>5. CASE \E u \in Users : cmd_quit(u)
  <2>1. PICK u \in Users : Called(<<Do("deluser", u, NULL)>>)
    BY <1>5 DEF cmd_quit
  <2> DEFINE new == <<Do("deluser", u, NULL)>>
  <2>2. /\ new \in Seq(Task) /\ (\A i \in 1 .. Len(new) : new[i].op \in {"deluser", "done"})
        /\ Called(new)
    BY <2>1, Entries, Fields
  <2> HIDE DEF new
  <2> QED BY <1>0, <1>1, <2>2, QuitHeard
<1>10. CASE \E u, w \in Users : check_timeout(u, w)
  <2>1. PICK u \in Users, w \in Users : Called(<<Do("deluser", u, NULL), Do("done", w, NULL)>>)
    BY <1>10 DEF check_timeout
  <2> DEFINE x == Do("deluser", u, NULL)
             y == Do("done", w, NULL)
             new == <<x, y>>
  <2>2. x \in Task /\ y \in Task /\ x.op = "deluser" /\ y.op = "done" /\ Called(new)
    BY <2>1, Entries, Fields
  <2> HIDE DEF x, y
  <2>3. new \in Seq(Task) /\ \A i \in 1 .. Len(new) : new[i].op \in {"deluser", "done"}
    BY <2>2
  <2> HIDE DEF new
  <2> QED BY <1>0, <1>1, <2>2, <2>3, QuitHeard
<1>6. CASE Timer
  <2>1. Plain(On("timer", NULL, NULL)) /\ Called(<<On("timer", NULL, NULL)>>)
    BY <1>6, PlainEntries DEF Timer, Events
  <2> QED BY <1>3, <2>1
<1>7. CASE \E u \in Users, p \in Customs : cmd_send(u, p)
  <2>1. PICK u \in Users, p \in Customs : Called(<<On("onSend", u, p), Do("done", u, NULL)>>)
    BY <1>7 DEF cmd_send
  <2>2. Plain(On("onSend", u, p)) /\ Plain(Do("done", u, NULL))
    BY PlainEntries DEF Events, Things
  <2> QED BY <1>4, <2>1, <2>2
<1>8. CASE \E u \in Users, n \in api.names : cmd_left(u, n)
  <2>1. PICK u \in Users, n \in api.names :
          /\ getchan(n) # NULL /\ Called(<<Do("left", u, getchan(n)), Do("done", u, NULL)>>)
    BY <1>8 DEF cmd_left
  <2>2. getchan(n) \in Chans
    BY <1>2, <2>1 DEF FoundLive
  <2>3. Plain(Do("left", u, getchan(n))) /\ Plain(Do("done", u, NULL))
    BY <2>2, PlainEntries
  <2> QED BY <1>4, <2>1, <2>3
<1>9. CASE \E u \in Users, n \in api.names : cmd_join(u, n) /\ getchan(n) # NULL
  <2>1. PICK u \in Users, n \in api.names :
          /\ getchan(n) # NULL /\ Called(<<Do("join", u, getchan(n)), Do("done", u, NULL)>>)
    BY <1>9 DEF cmd_join
  <2>2. getchan(n) \in Chans
    BY <1>2, <2>1 DEF FoundLive
  <2>3. Plain(Do("join", u, getchan(n))) /\ Plain(Do("done", u, NULL))
    BY <2>2, PlainEntries
  <2> QED BY <1>4, <2>1, <2>3
<1> QED BY <1>5, <1>6, <1>7, <1>8, <1>9, <1>10

LEMMA ScriptHeard ==
  ASSUME BInv, HInv,
         \/ \E u \in Users :
              \/ apeuser_sm_quit(Obj(u)) \/ ape_sm_adduser(Obj(u))
              \/ \E c \in Chans :
                   apeuser_sm_join(Obj(u), Obj(c)) \/ apeuser_sm_left(Obj(u), Obj(c))
         \/ \E c \in Chans : ape_sm_rmchan(Obj(c))
  PROVE  HInv'
<1>0. UNCHANGED <<heard, unheard, istmp, on, state>>
  BY DEF apeuser_sm_quit, ape_sm_adduser, apeuser_sm_join, apeuser_sm_left, ape_sm_rmchan,
         server, report
<1>1. \A t \in Users \cup Chans : priv[Obj(t)] # NULL => priv[Obj(t)] = t
  BY DEF BInv, World, PrivOk
<1>2. ASSUME NEW x, Plain(x), Called(<<x>>) PROVE HInv'
  <2> DEFINE new == <<x>>
  <2>1. new \in Seq(Task) /\ (\A i \in 1 .. Len(new) : Plain(new[i])) /\ Called(new)
    BY <1>2, PlainBlocks
  <2> HIDE DEF new
  <2> QED BY <1>0, <2>1, CallHeard
<1>3. ASSUME NEW u \in Users, apeuser_sm_quit(Obj(u)) PROVE HInv'
  <2>1. Called(<<Do("deluser", u, NULL)>>) /\ "deluser" \notin fire
    BY <1>1, <1>3 DEF apeuser_sm_quit, MayDelete
  <2> DEFINE new == <<Do("deluser", u, NULL)>>
  <2>2. /\ new \in Seq(Task) /\ (\A i \in 1 .. Len(new) : new[i].op \in {"deluser", "done"})
        /\ Called(new)
    BY <2>1, Entries, Fields
  <2> HIDE DEF new
  <2> QED BY <1>0, <2>1, <2>2, QuitHeard
<1>4. ASSUME NEW u \in Users, ape_sm_adduser(Obj(u)) PROVE HInv'
  <2> DEFINE new == <<Do("adduser", u, NULL), Do("done", u, NULL)>>
  <2>1. Called(new)
    BY <1>1, <1>4 DEF ape_sm_adduser
  <2>2. Plain(Do("adduser", u, NULL)) /\ Plain(Do("done", u, NULL))
    BY PlainEntries
  <2>3. new \in Seq(Task) /\ \A i \in 1 .. Len(new) : Plain(new[i])
    BY <2>2, PlainBlocks
  <2> HIDE DEF new
  <2> QED BY <1>0, <2>1, <2>3, CallHeard
<1>5. ASSUME NEW u \in Users, NEW c \in Chans, apeuser_sm_join(Obj(u), Obj(c)) PROVE HInv'
  <2>1. Called(<<Do("join", u, c)>>)
    BY <1>1, <1>5 DEF apeuser_sm_join
  <2> QED BY <1>2, <2>1, PlainEntries
<1>6. ASSUME NEW u \in Users, NEW c \in Chans, apeuser_sm_left(Obj(u), Obj(c)) PROVE HInv'
  <2>1. Called(<<Do("left", u, c)>>)
    BY <1>1, <1>6 DEF apeuser_sm_left
  <2> QED BY <1>2, <2>1, PlainEntries
<1>7. ASSUME NEW c \in Chans, ape_sm_rmchan(Obj(c)) PROVE HInv'
  <2>1. Called(<<Do("rmchan", c, NULL)>>)
    BY <1>1, <1>7 DEF ape_sm_rmchan
  <2> QED BY <1>2, <2>1, PlainEntries
<1> QED BY <1>3, <1>4, <1>5, <1>6, <1>7

(* Pipes, properties and the collector concern neither users nor channels. *)
LEMMA OtherHeard ==
  ASSUME BInv, HInv,
         \/ \E p \in Customs : \/ ape_sm_pipe_constructor(p) \/ LetGo(p) \/ ape_sm_get_pipe(p)
                               \/ apepipe_sm_destroy(p)
         \/ \E t, key, type : SetProperty(t, key, type)
         \/ GC
         \/ UNCHANGED vars
  PROVE  HInv'
<1>0. \A p \in Customs : p \notin Users \cup Chans
  BY ThingsAssumption
<1>1. state \in [Things -> {"none", "live", "gone"}] /\ Stacked
  BY DEF BInv, TInv
<1>2. CASE \E p \in Customs : ape_sm_pipe_constructor(p) \/ apepipe_sm_destroy(p)
  <2>1. PICK p \in Customs, v \in {"live", "gone"} :
          /\ state' = [state EXCEPT ![p] = v] /\ Called(<< >>)
          /\ UNCHANGED <<heard, unheard, istmp, on>>
    BY <1>2 DEF ape_sm_pipe_constructor, apepipe_sm_destroy, report
  <2>2. \A t \in Users \cup Chans : state'[t] = state[t]
    BY <1>0, <1>1, <2>1 DEF Things
  <2> DEFINE new == << >>
  <2>3. new \in Seq(Task) /\ (\A i \in 1 .. Len(new) : Plain(new[i])) /\ Called(new)
    BY <2>1, PlainBlocks
  <2> HIDE DEF new
  <2> QED BY <2>1, <2>2, <2>3, CallHeard
<1>3. CASE \E t, key, type : SetProperty(t, key, type)
  <2>1. Called(<< >>) /\ UNCHANGED <<heard, unheard, istmp, on, state>>
    BY <1>3 DEF SetProperty, report
  <2> DEFINE new == << >>
  <2>2. new \in Seq(Task) /\ (\A i \in 1 .. Len(new) : Plain(new[i])) /\ Called(new)
    BY <2>1, PlainBlocks
  <2> HIDE DEF new
  <2> QED BY <2>1, <2>2, CallHeard
<1>4. CASE (\E p \in Customs : LetGo(p) \/ ape_sm_get_pipe(p)) \/ GC \/ UNCHANGED vars
  <2>1. UNCHANGED <<heard, unheard, istmp, on, state, todo>>
    BY <1>4 DEF LetGo, ape_sm_get_pipe, GC, vars, server, report
  <2>2. SameView(todo', todo)
    BY <2>1 DEF SameView
  <2> QED BY <2>1, <2>2, SameHeard
<1> QED BY <1>2, <1>3, <1>4

LEMMA JoinHeard == ASSUME BInv, HInv, join PROVE HInv'
<1> DEFINE h == Head(todo)
           r == Tail(todo)
           u == h.a
           c == h.b
<1>0. Stacked /\ TInv
  BY DEF BInv
<1>1. /\ todo # << >> /\ h.op \in {"join", "join_now"} /\ Run(<< >> \o r, fire)
      /\ on' = on \cup {<<u, c>>}
      /\ \/ heard' = [heard EXCEPT !.list[c] = @ \cup {u}] /\ unheard' = unheard
         \/ /\ heard' = heard
            /\ unheard' = IF <<u, c>> \in on THEN unheard ELSE unheard \cup {c}
      /\ UNCHANGED <<state, istmp>>
  BY DEF join, At, Continue, This, That
<1>2. /\ h \in Task /\ u \in Users /\ c \in Chans /\ c \in Things
      /\ state[c] = "live"
  <2>1. h \in Task /\ \A x \in Things : x \in Pins(h) => Live(x)
    BY <1>0, <1>1, HeadTask
  <2>2. u \in Users /\ c \in Chans /\ c \in Things
    BY <1>1, <2>1 DEF Task, Things
  <2> QED BY <1>1, <2>1, <2>2 DEF Pins, Live
<1>3. SameView(todo', todo)
  <2> DEFINE new == << >>
  <2>1. Plain(h)
    BY <1>1, <1>2 DEF Plain, Deletes
  <2>2. new \in Seq(Task) /\ (\A i \in 1 .. Len(new) : Plain(new[i])) /\ Run(new \o r, fire)
    BY <1>1, PlainBlocks
  <2> HIDE DEF new
  <2> QED BY <1>0, <1>1, <2>1, <2>2, PlainRun
<1>4. ~Off(todo, u, c)
  <2>1. \A i \in 1 .. Len(r) : Pair(h, r[i], on, auto)
    BY <1>0, <1>1, Under DEF Stacked, UnderOk, Fit
  <2>2. todo \in Seq(Task)
    BY <1>0 DEF Stacked, StackOk
  <2>3. ~Off(r, u, c)
    BY <1>1, <2>1 DEF Off, Pair, Joins
  <2> QED BY <1>1, <2>2, <2>3, FirstView
<1>5. heard \in Heard /\ unheard \subseteq Things
  BY <1>0 DEF TInv, Heard
<1> HIDE DEF h, r, u, c
<1>6. heard'.users = heard.users /\ \A v \in Users : v \in unheard' <=> v \in unheard
  BY <1>1, <1>2, <1>5, ThingsAssumption DEF Heard
<1>7. UsersHeard(heard'.users, unheard', state', istmp', todo')
  BY <1>1, <1>3, <1>6 DEF HInv, UsersHeard, SameView
<1>8. MembersHeard(heard'.list, unheard', state', on', todo')
  <2> SUFFICES ASSUME NEW d \in Chans
               PROVE  /\ state[d] = "none" => heard'.list[d] = {}
                      /\ d \notin unheard' /\ state[d] = "live" =>
                           \A v \in Users : v \in heard'.list[d] <=>
                             <<v, d>> \in on' /\ ~Off(todo', v, d)
    BY <1>1 DEF MembersHeard
  <2>1. /\ state[d] = "none" => heard.list[d] = {}
        /\ d \notin unheard /\ state[d] = "live" =>
             \A v \in Users : v \in heard.list[d] <=> <<v, d>> \in on /\ ~Off(todo', v, d)
    BY <1>3 DEF HInv, MembersHeard, SameView
  <2>2. CASE d # c
    <3>1. heard'.list[d] = heard.list[d] /\ (d \in unheard' <=> d \in unheard)
      BY <1>1, <1>2, <1>5, <2>2 DEF Heard
    <3>2. \A v : <<v, d>> \in on' <=> <<v, d>> \in on
      BY <1>1, <2>2
    <3> QED BY <2>1, <3>1, <3>2
  <2>3. CASE d = c /\ heard' = [heard EXCEPT !.list[c] = @ \cup {u}] /\ unheard' = unheard
    <3>1. heard'.list[c] = heard.list[c] \cup {u}
      BY <1>2, <1>5, <2>3 DEF Heard
    <3>2. ~Off(todo', u, c)
      BY <1>3, <1>4 DEF SameView
    <3>3. \A v : <<v, c>> \in on' <=> <<v, c>> \in on \/ v = u
      BY <1>1
    <3> QED BY <1>2, <2>1, <2>3, <3>1, <3>2, <3>3
  <2>4. CASE /\ d = c /\ heard' = heard
             /\ unheard' = IF <<u, c>> \in on THEN unheard ELSE unheard \cup {c}
    <3>1. CASE <<u, c>> \in on
      <4>1. on' = on
        BY <1>1, <3>1
      <4> QED BY <2>1, <2>4, <3>1, <4>1
    <3>2. CASE <<u, c>> \notin on
      BY <1>2, <2>4, <3>2
    <3> QED BY <3>1, <3>2
  <2> QED BY <1>1, <2>2, <2>3, <2>4
<1> QED BY <1>7, <1>8 DEF HInv

LEMMA LeftFireHeard == ASSUME BInv, HInv, LeftFire PROVE HInv'
<1> DEFINE h == Head(todo)
           r == Tail(todo)
           u == h.a
           c == h.b
           x1 == On("left", u, c)
           x2 == Do("left_now", u, c)
           x3 == Over("left")
           new == <<x1, x2, x3>>
<1>0. Stacked /\ TInv /\ todo \in Seq(Task)
  BY DEF BInv, Stacked, StackOk
<1>1. /\ todo # << >> /\ h.op = "left" /\ Run(new \o r, fire \cup {"left"})
      /\ heard' = [heard EXCEPT !.list[c] = @ \ {u}]
      /\ UNCHANGED <<state, istmp, on, unheard>>
  BY DEF LeftFire, At, Fire, This, That, server
<1>2. h \in Task /\ u \in Users /\ c \in Chans
  BY <1>0, <1>1, HeadTask DEF Task
<1>3. /\ x1 \in Task /\ x2 \in Task /\ x3 \in Task
      /\ x1.op = "on" /\ x2.op = "left_now" /\ x2.a = u /\ x2.b = c
      /\ x3.op = "over" /\ x3.e = "left"
  BY <1>2, Entries, Fields DEF Events, Kinds, Things
<1> HIDE DEF x1, x2, x3
<1>4. /\ new \in Seq(Task) /\ Len(new) = 3
      /\ new[1] = x1 /\ new[2] = x2 /\ new[3] = x3
  BY <1>3
<1> HIDE DEF new
<1>5. r \in Seq(Task) /\ SameView(todo', new \o r)
  BY <1>0, <1>1, <1>4, RunView
<1>6. \A v, d : Off(new, v, d) <=> v = u /\ d = c
  BY <1>3, <1>4 DEF Off
<1>7. /\ \A v : ~Told(new, v)
      /\ \A v : ~\E i \in 1 .. Len(new) : Deletes(new[i]) /\ new[i].a = v
  BY <1>3, <1>4 DEF Told, Deletes
<1>8. /\ \A v, d : Off(todo, v, d) <=> Off(r, v, d)
      /\ \A v : Told(todo, v) <=> Told(r, v)
  BY <1>0, <1>1, FirstView DEF Deletes
<1> HIDE DEF h, r, u, c
<1>9. /\ \A v, d : Off(todo', v, d) <=> Off(todo, v, d) \/ (v = u /\ d = c)
      /\ \A v : Told(todo', v) <=> Told(todo, v)
  BY <1>4, <1>5, <1>6, <1>7, <1>8, OnTopView DEF SameView
<1>10. /\ heard'.users = heard.users
       /\ \A d \in Chans : heard'.list[d] = IF d = c THEN heard.list[c] \ {u} ELSE heard.list[d]
  <2>1. heard \in Heard
    BY <1>0 DEF TInv, Heard
  <2> QED BY <1>1, <1>2, <2>1 DEF Heard
<1>11. UsersHeard(heard'.users, unheard', state', istmp', todo')
  BY <1>1, <1>9, <1>10 DEF HInv, UsersHeard
<1>12. MembersHeard(heard'.list, unheard', state', on', todo')
  BY <1>1, <1>9, <1>10 DEF HInv, MembersHeard
<1> QED BY <1>11, <1>12 DEF HInv

LEMMA LeftHeard == ASSUME BInv, HInv, left PROVE HInv'
<1> DEFINE h == Head(todo)
           r == Tail(todo)
           u == h.a
           c == h.b
           new == IF LastOne(u, c) THEN <<Do("rmchan", c, NULL)>> ELSE << >>
<1>0. Stacked /\ TInv /\ todo \in Seq(Task)
  BY DEF BInv, Stacked, StackOk
<1>1. /\ todo # << >> /\ h.op \in {"left", "left_now"} /\ Run(new \o r, fire)
      /\ on' = on \ {<<u, c>>}
      /\ unheard' = IF h.op = "left" /\ <<u, c>> \in on THEN unheard \cup {c} ELSE unheard
      /\ UNCHANGED <<state, istmp, heard>>
  BY DEF left, At, Continue, This, That
<1>2. h \in Task /\ u \in Users /\ c \in Chans
  BY <1>0, <1>1, HeadTask DEF Task
<1>3. new \in Seq(Task) /\ \A i \in 1 .. Len(new) : Plain(new[i])
  <2>1. Plain(Do("rmchan", c, NULL))
    BY <1>2, PlainEntries
  <2>2. CASE LastOne(u, c)
    <3>1. new = <<Do("rmchan", c, NULL)>>
      BY <2>2
    <3> HIDE DEF new
    <3> QED BY <2>1, <3>1, PlainBlocks
  <2>3. CASE ~LastOne(u, c)
    <3>1. new = << >>
      BY <2>3
    <3> HIDE DEF new
    <3> QED BY <3>1, PlainBlocks
  <2> QED BY <2>2, <2>3
<1> HIDE DEF new
<1>4. r \in Seq(Task) /\ SameView(todo', new \o r)
  BY <1>0, <1>1, <1>3, RunView
<1>5. SameView(new \o r, r)
  BY <1>3, <1>4, PlainView
<1>6. /\ \A v, d : Off(todo, v, d) <=> (h.op = "left_now" /\ v = u /\ d = c) \/ Off(r, v, d)
      /\ \A v : Told(todo, v) <=> Told(r, v)
  BY <1>0, <1>1, FirstView DEF Deletes
<1> HIDE DEF h, r, u, c
<1>7. /\ \A v, d : Off(todo, v, d) <=> (h.op = "left_now" /\ v = u /\ d = c) \/ Off(todo', v, d)
      /\ \A v : Told(todo', v) <=> Told(todo, v)
  BY <1>4, <1>5, <1>6 DEF SameView
<1>8. \A v \in Users : v \in unheard' <=> v \in unheard
  BY <1>1, <1>2, ThingsAssumption
<1>9. UsersHeard(heard'.users, unheard', state', istmp', todo')
  BY <1>1, <1>7, <1>8 DEF HInv, UsersHeard
<1>10. MembersHeard(heard'.list, unheard', state', on', todo')
  <2> SUFFICES ASSUME NEW d \in Chans
               PROVE  /\ state[d] = "none" => heard.list[d] = {}
                      /\ d \notin unheard' /\ state[d] = "live" =>
                           \A v \in Users : v \in heard.list[d] <=>
                             <<v, d>> \in on' /\ ~Off(todo', v, d)
    BY <1>1 DEF MembersHeard
  <2>1. /\ state[d] = "none" => heard.list[d] = {}
        /\ d \notin unheard /\ state[d] = "live" =>
             \A v \in Users : v \in heard.list[d] <=> <<v, d>> \in on /\ ~Off(todo, v, d)
    BY DEF HInv, MembersHeard
  <2>2. d \notin unheard' => d \notin unheard
    BY <1>1
  <2>3. \A v : <<v, d>> \in on' <=> <<v, d>> \in on /\ ~(v = u /\ d = c)
    BY <1>1
  <2>4. CASE h.op = "left_now"
    BY <1>7, <2>1, <2>2, <2>3, <2>4
  <2>5. CASE h.op = "left" /\ (d # c \/ <<u, c>> \notin on)
    <3>1. \A v : <<v, d>> \in on' <=> <<v, d>> \in on
      BY <2>3, <2>5
    <3> QED BY <1>7, <2>1, <2>2, <2>5, <3>1
  <2>6. CASE h.op = "left" /\ d = c /\ <<u, c>> \in on
    BY <1>1, <2>1, <2>6
  <2> QED BY <1>1, <2>4, <2>5, <2>6
<1> QED BY <1>9, <1>10 DEF HInv

(* The end of a channel takes its list along.                               *)
LEMMA RmchanEndHeard == ASSUME BInv, HInv, RmchanEnd PROVE HInv'
<1> DEFINE h == Head(todo)
           r == Tail(todo)
           c == h.a
<1>0. Stacked /\ TInv
  BY DEF BInv
<1>1. /\ todo # << >> /\ h.op = "rmchan_fire" /\ Run(<< >> \o r, fire)
      /\ state' = [state EXCEPT ![c] = "gone"]
      /\ heard' = [heard EXCEPT !.list[c] = {}] /\ unheard' = unheard \ {c}
      /\ UNCHANGED <<istmp, on>>
  BY DEF RmchanEnd, At, Continue, This, Freed
<1>2. h \in Task /\ c \in Chans
  BY <1>0, <1>1, HeadTask DEF Task
<1>3. SameView(todo', todo)
  <2> DEFINE new == << >>
  <2>1. Plain(h)
    BY <1>1, <1>2 DEF Plain, Deletes
  <2>2. new \in Seq(Task) /\ (\A i \in 1 .. Len(new) : Plain(new[i])) /\ Run(new \o r, fire)
    BY <1>1, PlainBlocks
  <2> HIDE DEF new
  <2> QED BY <1>0, <1>1, <2>1, <2>2, PlainRun
<1>4. heard \in Heard /\ state \in [Things -> {"none", "live", "gone"}]
  BY <1>0 DEF TInv, Heard
<1> HIDE DEF h, r, c
<1>5. /\ heard'.users = heard.users
      /\ \A d \in Chans : d # c => heard'.list[d] = heard.list[d]
  BY <1>1, <1>2, <1>4 DEF Heard
<1>6. state'[c] = "gone" /\ \A t \in Things : t # c => state'[t] = state[t]
  BY <1>1, <1>2, <1>4 DEF Things
<1>7. \A u \in Users : u # c /\ u \in Things /\ (u \in unheard' <=> u \in unheard)
  BY <1>1, <1>2, ThingsAssumption DEF Things
<1>8. UsersHeard(heard'.users, unheard', state', istmp', todo')
  BY <1>1, <1>3, <1>5, <1>6, <1>7 DEF HInv, UsersHeard, SameView
<1>9. MembersHeard(heard'.list, unheard', state', on', todo')
  <2> SUFFICES ASSUME NEW d \in Chans
               PROVE  /\ state'[d] = "none" => heard'.list[d] = {}
                      /\ d \notin unheard' /\ state'[d] = "live" =>
                           \A v \in Users : v \in heard'.list[d] <=>
                             <<v, d>> \in on' /\ ~Off(todo', v, d)
    BY DEF MembersHeard
  <2>1. CASE d = c
    BY <1>6, <2>1
  <2>2. CASE d # c
    <3>1. /\ heard'.list[d] = heard.list[d] /\ state'[d] = state[d]
          /\ (d \in unheard' <=> d \in unheard)
      BY <1>1, <1>5, <1>6, <2>2 DEF Things
    <3> QED BY <1>1, <1>3, <3>1 DEF HInv, MembersHeard, SameView
  <2> QED BY <2>1, <2>2
<1> QED BY <1>8, <1>9 DEF HInv

LEMMA DeluserHeard == ASSUME BInv, HInv, deluser PROVE HInv'
<1> DEFINE h == Head(todo)
           r == Tail(todo)
           x == Do("deluser_fire", h.a, NULL)
<1>0. Stacked /\ TInv /\ OnOk /\ todo \in Seq(Task)
  BY DEF BInv, World, Stacked, StackOk
<1>1. PICK walk \in Leavings({h.a}, Chans) :
        /\ todo # << >> /\ h.op = "deluser" /\ Run((walk \o <<x>>) \o r, fire)
        /\ UNCHANGED <<heard, unheard, istmp, on, state>>
  BY DEF deluser, At, Continue, This, server, report
<1>2. h \in Task /\ h.a \in Users
  BY <1>0, <1>1, HeadTask DEF Task
<1>3. Walks(walk, on \cap ({h.a} \X Chans))
  BY <1>0, LeavingsWalk DEF OnOk
<1>4. walk \in Seq(Task) /\ \A i \in 1 .. Len(walk) : walk[i].op = "left"
  BY <1>3 DEF Walks
<1>5. x \in Task /\ x.op = "deluser_fire" /\ x.a = h.a
  BY <1>2, Entries, Fields
<1> HIDE DEF x
<1>6. <<x>> \in Seq(Task) /\ Len(<<x>>) = 1 /\ <<x>>[1] = x
  BY <1>5
<1> DEFINE one == <<x>>
           new == walk \o one
<1> HIDE DEF one
<1>7. /\ new \in Seq(Task)
      /\ \A v, d : Off(new, v, d) <=> Off(walk, v, d) \/ Off(one, v, d)
      /\ \A v : Told(new, v) <=>
           \/ Told(walk, v) \/ Told(one, v)
           \/ /\ \E i \in 1 .. Len(walk) : Deletes(walk[i]) /\ walk[i].a = v
              /\ Reporting(one)
  BY <1>4, <1>6, OnTop, OnTopView DEF one
<1>8. \A v, d : ~Off(walk, v, d) /\ ~Off(one, v, d) /\ ~Told(walk, v) /\ ~Told(one, v)
  BY <1>4, <1>5, <1>6 DEF Off, Told, Inside, Deletes, one
<1>9. \A v, d : ~Off(new, v, d) /\ ~Told(new, v)
  BY <1>4, <1>7, <1>8 DEF Deletes
<1>10. \A v : (\E i \in 1 .. Len(new) : Deletes(new[i]) /\ new[i].a = v) <=> v = h.a
  <2>1. /\ Len(walk) \in Nat /\ Len(new) = Len(walk) + 1
        /\ \A i \in 1 .. Len(walk) : new[i] = walk[i]
        /\ \A i \in 1 .. 1 : new[Len(walk) + i] = x
    BY <1>4, <1>6, OnTop DEF one
  <2> HIDE DEF new
  <2>2. new[Len(walk) + 1] = x /\ Len(walk) + 1 \in 1 .. Len(new)
    BY <2>1
  <2>3. \A i \in 1 .. Len(new) : i \in 1 .. Len(walk) \/ i = Len(walk) + 1
    BY <2>1
  <2>4. \A i \in 1 .. Len(walk) : ~Deletes(new[i])
    BY <1>4, <2>1 DEF Deletes
  <2>5. Deletes(x)
    BY <1>5 DEF Deletes
  <2> QED BY <1>5, <2>2, <2>3, <2>4, <2>5
<1>11. Run(new \o r, fire)
  BY <1>1 DEF one
<1> HIDE DEF new
<1>12. r \in Seq(Task) /\ SameView(todo', new \o r)
  BY <1>0, <1>1, <1>7, <1>11, RunView
<1>13. /\ \A v, d : Off(todo, v, d) <=> Off(r, v, d)
       /\ \A v : Told(todo, v) <=> (v = h.a /\ Reporting(r)) \/ Told(r, v)
  BY <1>0, <1>1, FirstView DEF Deletes
<1> HIDE DEF h, r
<1>14. SameView(new \o r, todo)
  <2>1. new \in Seq(Task) /\ r \in Seq(Task)
    BY <1>7, <1>12
  <2>2. /\ \A v, d : Off(new \o r, v, d) <=> Off(new, v, d) \/ Off(r, v, d)
        /\ \A v : Told(new \o r, v) <=>
             \/ Told(new, v) \/ Told(r, v)
             \/ /\ \E i \in 1 .. Len(new) : Deletes(new[i]) /\ new[i].a = v
                /\ Reporting(r)
    BY <2>1, OnTopView
  <2>3. \A v, d : Off(new \o r, v, d) <=> Off(todo, v, d)
    BY <1>9, <1>13, <2>2
  <2>4. \A v : Told(new \o r, v) <=> Told(todo, v)
    BY <1>9, <1>10, <1>13, <2>2
  <2> QED BY <2>3, <2>4 DEF SameView
<1>15. SameView(todo', todo)
  BY <1>12, <1>14 DEF SameView
<1> QED BY <1>1, <1>15, SameHeard

LEMMA DeluserFireHeard == ASSUME BInv, HInv, DeluserFire PROVE HInv'
<1> DEFINE h == Head(todo)
           r == Tail(todo)
           u == h.a
           x1 == Do("deluser_detach", u, NULL)
           x2 == Do("deluser", u, NULL)
           x3 == Over("deluser")
           y == On("deluser", u, NULL)
           core == <<x1, x2, x3>>
           pre == IF u \in istmp THEN << >> ELSE <<y>>
           new == pre \o core
<1>0. Stacked /\ TInv /\ todo \in Seq(Task)
  BY DEF BInv, Stacked, StackOk
<1>1. /\ todo # << >> /\ h.op = "deluser_fire" /\ Run(new \o r, fire \cup {"deluser"})
      /\ IF u \in istmp THEN heard' = heard /\ unheard' = unheard
         ELSE heard' = [heard EXCEPT !.users = @ \ {u}] /\ unheard' = unheard \ {u}
      /\ UNCHANGED <<state, istmp, on>>
  BY DEF DeluserFire, At, Fire, This, server, report
<1>2. h \in Task /\ u \in Users
  BY <1>0, <1>1, HeadTask DEF Task
<1>3. /\ x1 \in Task /\ x2 \in Task /\ x3 \in Task
      /\ x1.op = "deluser_detach" /\ x2.op = "deluser" /\ x2.a = u
      /\ x3.op = "over" /\ x3.e = "deluser"
  BY <1>2, Entries, Fields DEF Kinds
<1>4. Plain(y)
  BY <1>2, PlainEntries DEF Events, Things
<1> HIDE DEF x1, x2, x3, y
<1>5. /\ core \in Seq(Task) /\ Len(core) = 3
      /\ core[1] = x1 /\ core[2] = x2 /\ core[3] = x3
  BY <1>3
<1> HIDE DEF core
<1>6. pre \in Seq(Task) /\ \A i \in 1 .. Len(pre) : Plain(pre[i])
  <2>1. CASE u \in istmp
    <3>1. pre = << >>
      BY <2>1
    <3> HIDE DEF pre
    <3> QED BY <3>1, PlainBlocks
  <2>2. CASE u \notin istmp
    <3>1. pre = <<y>>
      BY <2>2
    <3> HIDE DEF pre
    <3> QED BY <1>4, <3>1, PlainBlocks
  <2> QED BY <2>1, <2>2
<1> HIDE DEF pre
<1>7. \A v, d : ~Off(core, v, d) /\ (Told(core, v) <=> v = u)
  <2>1. \A v, d : ~Off(core, v, d)
    BY <1>3, <1>5 DEF Off
  <2>2. Inside(core, 2, "deluser") /\ Deletes(core[2])
    BY <1>3, <1>5 DEF Inside, IsOver, Deletes
  <2>3. \A i \in 1 .. Len(core) : Deletes(core[i]) => core[i].a = u
    BY <1>3, <1>5 DEF Deletes
  <2> QED BY <1>3, <1>5, <2>1, <2>2, <2>3 DEF Told
<1>8. new \in Seq(Task) /\ SameView(new, core)
  BY <1>5, <1>6, OnTop, PlainView
<1> HIDE DEF new
<1>9. r \in Seq(Task) /\ SameView(todo', new \o r)
  BY <1>0, <1>1, <1>8, RunView
<1>10. /\ \A v, d : Off(todo, v, d) <=> Off(r, v, d)
       /\ \A v : Told(todo, v) <=> (v = u /\ Reporting(r)) \/ Told(r, v)
  BY <1>0, <1>1, FirstView DEF Deletes
<1>11. \A i \in 1 .. Len(new) : Deletes(new[i]) => new[i].a = u
  <2>1. /\ Len(pre) \in Nat /\ Len(new) = Len(pre) + Len(core)
        /\ \A i \in 1 .. Len(pre) : new[i] = pre[i]
        /\ \A i \in 1 .. Len(core) : new[Len(pre) + i] = core[i]
    BY <1>5, <1>6, OnTop DEF new
  <2>2. ASSUME NEW i \in 1 .. Len(new), Deletes(new[i]) PROVE new[i].a = u
    <3>1. CASE i \in 1 .. Len(pre)
      BY <1>6, <2>1, <2>2, <3>1 DEF Plain
    <3>2. CASE i \notin 1 .. Len(pre)
      <4> DEFINE n == Len(pre)
      <4>1. i - n \in 1 .. 3 /\ n + (i - n) = i
        BY <1>5, <2>1, <3>2
      <4> HIDE DEF n
      <4>2. new[n + (i - n)] = core[i - n]
        BY <1>5, <2>1, <4>1 DEF n
      <4>3. new[i] = core[i - n]
        BY <4>1, <4>2
      <4> DEFINE k == i - n
      <4>4. k \in 1 .. 3 /\ new[i] = core[k]
        BY <4>1, <4>3
      <4> HIDE DEF k
      <4>5. \A j \in 1 .. 3 : Deletes(core[j]) => core[j].a = u
        BY <1>3, <1>5 DEF Deletes
      <4> QED BY <2>2, <4>4, <4>5
    <3> QED BY <3>1, <3>2
  <2> QED BY <2>2
<1> HIDE DEF h, r, u
<1>12. /\ \A v, d : Off(todo', v, d) <=> Off(todo, v, d)
       /\ \A v : v # u => (Told(todo', v) <=> Told(todo, v))
       /\ Told(todo', u)
  <2>1. /\ \A v, d : Off(new \o r, v, d) <=> Off(new, v, d) \/ Off(r, v, d)
        /\ \A v : Told(new \o r, v) <=>
             \/ Told(new, v) \/ Told(r, v)
             \/ /\ \E i \in 1 .. Len(new) : Deletes(new[i]) /\ new[i].a = v
                /\ Reporting(r)
    BY <1>8, <1>9, OnTopView
  <2>2. \A v, d : ~Off(new, v, d) /\ (Told(new, v) <=> v = u)
    BY <1>7, <1>8 DEF SameView
  <2>3. \A v : v # u => ~\E i \in 1 .. Len(new) : Deletes(new[i]) /\ new[i].a = v
    BY <1>11
  <2>4. /\ \A v, d : Off(todo', v, d) <=> Off(new \o r, v, d)
        /\ \A v : Told(todo', v) <=> Told(new \o r, v)
    BY <1>9 DEF SameView
  <2>5. \A v, d : Off(todo', v, d) <=> Off(todo, v, d)
    BY <1>10, <2>1, <2>2, <2>4
  <2>6. \A v : v # u => (Told(todo', v) <=> Told(todo, v))
    BY <1>10, <2>1, <2>2, <2>3, <2>4
  <2>7. Told(todo', u)
    BY <2>1, <2>2, <2>4
  <2> QED BY <2>5, <2>6, <2>7
<1>13. heard \in Heard
  BY <1>0 DEF TInv, Heard
<1>14. /\ heard'.list = heard.list
       /\ \A v \in Users : v # u => (v \in heard'.users <=> v \in heard.users)
       /\ u \notin istmp => u \notin heard'.users
  BY <1>1, <1>13 DEF Heard
<1>15. /\ \A t : t # u => (t \in unheard' <=> t \in unheard)
       /\ u \in istmp => unheard' = unheard /\ heard' = heard
  BY <1>1
<1>16. UsersHeard(heard'.users, unheard', state', istmp', todo')
  <2> SUFFICES ASSUME NEW v \in Users, v \notin unheard'
               PROVE  v \in heard'.users <=>
                        state[v] = "live" /\ v \notin istmp /\ ~Told(todo', v)
    BY <1>1 DEF UsersHeard
  <2>1. CASE v # u
    <3>1. v \notin unheard /\ (v \in heard'.users <=> v \in heard.users)
      BY <1>14, <1>15, <2>1
    <3> QED BY <1>12, <2>1, <3>1 DEF HInv, UsersHeard
  <2>2. CASE v = u /\ u \notin istmp
    BY <1>12, <1>14, <2>2
  <2>3. CASE v = u /\ u \in istmp
    <3>1. v \notin unheard /\ heard' = heard
      BY <1>15, <2>3
    <3> QED BY <1>12, <2>3, <3>1 DEF HInv, UsersHeard
  <2> QED BY <2>1, <2>2, <2>3
<1>17. MembersHeard(heard'.list, unheard', state', on', todo')
  <2>1. \A d \in Chans : d # u
    BY <1>2, ThingsAssumption
  <2>2. \A d \in Chans : d \in unheard' <=> d \in unheard
    BY <1>15, <2>1
  <2> QED BY <1>1, <1>12, <1>14, <2>2 DEF HInv, MembersHeard
<1> QED BY <1>16, <1>17 DEF HInv

LEMMA DeluserEndHeard == ASSUME BInv, HInv, DeluserEnd PROVE HInv'
<1> DEFINE h == Head(todo)
           r == Tail(todo)
           u == h.a
           new == << >>
<1>0. Stacked /\ TInv /\ todo \in Seq(Task)
  BY DEF BInv, Stacked, StackOk
<1>1. /\ todo # << >> /\ h.op = "deluser_fire" /\ "deluser" \in fire
      /\ Run(new \o r, fire)
      /\ state' = [state EXCEPT ![u] = "gone"] /\ istmp' = istmp \ {u}
      /\ UNCHANGED <<on, heard, unheard>>
  BY DEF DeluserEnd, At, Continue, This, Freed, report
<1>2. h \in Task /\ u \in Users
  BY <1>0, <1>1, HeadTask DEF Task
<1>3. Reporting(r)
  BY <1>0, <1>1, Under DEF Stacked, UnderOk, Firing, Reporting
<1>4. new \in Seq(Task) /\ \A i \in 1 .. Len(new) : Plain(new[i])
  BY PlainBlocks
<1> HIDE DEF new
<1>5. r \in Seq(Task) /\ SameView(todo', new \o r)
  BY <1>0, <1>1, <1>4, RunView
<1>6. SameView(new \o r, r)
  BY <1>4, <1>5, PlainView
<1>7. /\ \A v, d : Off(todo, v, d) <=> Off(r, v, d)
      /\ \A v : Told(todo, v) <=> v = u \/ Told(r, v)
  BY <1>0, <1>1, <1>3, FirstView DEF Deletes
<1> HIDE DEF h, r, u
<1>8. /\ \A v, d : Off(todo', v, d) <=> Off(todo, v, d)
      /\ \A v : v # u => (Told(todo', v) <=> Told(todo, v))
      /\ Told(todo, u)
  BY <1>5, <1>6, <1>7 DEF SameView
<1>9. state'[u] = "gone" /\ \A t \in Things : t # u => state'[t] = state[t]
  <2>1. state \in [Things -> {"none", "live", "gone"}]
    BY <1>0 DEF TInv
  <2> QED BY <1>1, <1>2, <2>1 DEF Things
<1>10. UsersHeard(heard'.users, unheard', state', istmp', todo')
  <2> SUFFICES ASSUME NEW v \in Users, v \notin unheard
               PROVE  v \in heard.users <=>
                        state'[v] = "live" /\ v \notin istmp' /\ ~Told(todo', v)
    BY <1>1 DEF UsersHeard
  <2>1. v \in heard.users <=> state[v] = "live" /\ v \notin istmp /\ ~Told(todo, v)
    BY DEF HInv, UsersHeard
  <2>2. CASE v = u
    BY <1>8, <1>9, <2>1, <2>2
  <2>3. CASE v # u
    BY <1>1, <1>8, <1>9, <2>1, <2>3 DEF Things
  <2> QED BY <2>2, <2>3
<1>11. MembersHeard(heard'.list, unheard', state', on', todo')
  <2>1. \A d \in Chans : d # u /\ d \in Things
    BY <1>2, ThingsAssumption DEF Things
  <2> QED BY <1>1, <1>8, <1>9, <2>1 DEF HInv, MembersHeard
<1> QED BY <1>10, <1>11 DEF HInv

LEMMA AdduserHeard == ASSUME BInv, HInv, adduser PROVE HInv'
<1> DEFINE h == Head(todo)
           r == Tail(todo)
           u == h.a
<1>0. Stacked /\ TInv /\ todo \in Seq(Task)
  BY DEF BInv, Stacked, StackOk
<1>1. /\ todo # << >> /\ h.op = "adduser" /\ istmp' = istmp \ {u}
      /\ \/ /\ Run(<<On("adduser", u, NULL), Over("adduser")>> \o r, fire \cup {"adduser"})
            /\ heard' = [heard EXCEPT !.users = @ \cup {u}] /\ unheard' = unheard
         \/ /\ Run(<< >> \o r, fire)
            /\ heard' = heard /\ unheard' = unheard \cup {u}
      /\ UNCHANGED <<on, state>>
  BY DEF adduser, Accepted, At, Fire, Continue, This
<1>2. h \in Task /\ u \in Users /\ state[u] = "live"
  <2>1. h \in Task /\ \A x \in Things : x \in Pins(h) => Live(x)
    BY <1>0, <1>1, HeadTask
  <2>2. u \in Users /\ u \in Things
    BY <1>1, <2>1 DEF Task, Things
  <2> QED BY <1>1, <2>1, <2>2 DEF Pins, Live
<1>3. Plain(h)
  BY <1>1, <1>2 DEF Plain, Deletes
<1>4. SameView(todo', todo)
  <2>1. CASE Run(<< >> \o r, fire)
    <3> DEFINE new == << >>
    <3>1. new \in Seq(Task) /\ (\A i \in 1 .. Len(new) : Plain(new[i])) /\ Run(new \o r, fire)
      BY <2>1, PlainBlocks
    <3> HIDE DEF new
    <3> QED BY <1>0, <1>1, <1>3, <3>1, PlainRun
  <2>2. CASE Run(<<On("adduser", u, NULL), Over("adduser")>> \o r, fire \cup {"adduser"})
    <3> DEFINE new == <<On("adduser", u, NULL), Over("adduser")>>
    <3>1. Plain(On("adduser", u, NULL)) /\ Plain(Over("adduser"))
      BY <1>2, PlainEntries DEF Events, Kinds, Things
    <3>2. /\ new \in Seq(Task) /\ (\A i \in 1 .. Len(new) : Plain(new[i]))
          /\ Run(new \o r, fire \cup {"adduser"})
      BY <2>2, <3>1, PlainBlocks
    <3> HIDE DEF new
    <3> QED BY <1>0, <1>1, <1>3, <3>2, PlainRun
  <2> QED BY <1>1, <2>1, <2>2
<1>5. ~Told(todo, u)
  <2>1. \A i \in 1 .. Len(r) : Pair(h, r[i], on, auto)
    BY <1>0, <1>1, Under DEF Stacked, UnderOk, Fit
  <2>2. ~Told(r, u)
    BY <1>1, <2>1 DEF Told, Pair
  <2> QED BY <1>0, <1>1, <2>2, FirstView DEF Deletes
<1> HIDE DEF h, r, u
<1>6. heard \in Heard
  BY <1>0 DEF TInv, Heard
<1>7. /\ heard'.list = heard.list
      /\ \A v \in Users : v # u => (v \in heard'.users <=> v \in heard.users)
      /\ \A t : t # u => (t \in unheard' <=> t \in unheard)
      /\ u \notin unheard' => u \in heard'.users
  BY <1>1, <1>2, <1>6 DEF Heard
<1>8. UsersHeard(heard'.users, unheard', state', istmp', todo')
  <2> SUFFICES ASSUME NEW v \in Users, v \notin unheard'
               PROVE  v \in heard'.users <=>
                        state[v] = "live" /\ v \notin istmp' /\ ~Told(todo, v)
    BY <1>1, <1>4 DEF UsersHeard, SameView
  <2>1. CASE v = u
    BY <1>1, <1>2, <1>5, <1>7, <2>1
  <2>2. CASE v # u
    BY <1>1, <1>7, <2>2 DEF HInv, UsersHeard
  <2> QED BY <2>1, <2>2
<1>9. MembersHeard(heard'.list, unheard', state', on', todo')
  <2>1. \A d \in Chans : d # u
    BY <1>2, ThingsAssumption
  <2>2. \A d \in Chans : d \in unheard' <=> d \in unheard
    BY <1>7, <2>1
  <2> QED BY <1>1, <1>4, <1>7, <2>2 DEF HInv, MembersHeard, SameView
<1> QED BY <1>8, <1>9 DEF HInv

(* Nobody has heard of who or what is new.                                  *)
LEMMA ConnectHeard == ASSUME BInv, HInv, NEW u \in Users, Connect(u) PROVE HInv'
<1> DEFINE x1 == On("connect", u, NULL)
           x2 == Do("adduser", u, NULL)
           x3 == Do("done", u, NULL)
           new == <<x1, x2, x3>>
<1>1. /\ state[u] = "none" /\ state' = [state EXCEPT ![u] = "live"]
      /\ istmp' = istmp \cup {u} /\ Called(new) /\ UNCHANGED <<heard, unheard, on>>
  BY DEF Connect, report
<1>2. Stacked /\ state \in [Things -> {"none", "live", "gone"}]
  BY DEF BInv, TInv
<1>3. Plain(x1) /\ Plain(x2) /\ Plain(x3)
  BY PlainEntries DEF Events, Things
<1> HIDE DEF x1, x2, x3
<1>4. x1 \in Task /\ x2 \in Task /\ x3 \in Task
  BY <1>3 DEF Plain
<1>5. /\ new \in Seq(Task) /\ Len(new) = 3
      /\ new[1] = x1 /\ new[2] = x2 /\ new[3] = x3
  BY <1>4
<1> HIDE DEF new
<1>6. \A i \in 1 .. Len(new) : Plain(new[i])
  BY <1>3, <1>5
<1>7. SameView(todo', todo)
  BY <1>1, <1>2, <1>5, <1>6, PlainCall
<1>8. state'[u] = "live" /\ \A t \in Things : t # u => state'[t] = state[t]
  BY <1>1, <1>2 DEF Things
<1>9. UsersHeard(heard'.users, unheard', state', istmp', todo')
  <2> SUFFICES ASSUME NEW v \in Users, v \notin unheard
               PROVE  v \in heard.users <=>
                        state'[v] = "live" /\ v \notin istmp' /\ ~Told(todo, v)
    BY <1>1, <1>7 DEF UsersHeard, SameView
  <2>1. v \in heard.users <=> state[v] = "live" /\ v \notin istmp /\ ~Told(todo, v)
    BY DEF HInv, UsersHeard
  <2>2. CASE v = u
    BY <1>1, <2>1, <2>2
  <2>3. CASE v # u
    BY <1>1, <1>8, <2>1, <2>3 DEF Things
  <2> QED BY <2>2, <2>3
<1>10. MembersHeard(heard'.list, unheard', state', on', todo')
  <2>1. \A d \in Chans : d # u /\ d \in Things
    BY ThingsAssumption DEF Things
  <2> QED BY <1>1, <1>7, <1>8, <2>1 DEF HInv, MembersHeard, SameView
<1> QED BY <1>9, <1>10 DEF HInv

LEMMA MkchanHeard ==
  ASSUME BInv, HInv, NEW n, NEW c \in Chans, NEW fl, NEW next \in Seq(Task),
         \A i \in 1 .. Len(next) : Plain(next[i]), mkchan(n, c, fl, next)
  PROVE  HInv'
<1> DEFINE x == On("mkchan", c, NULL)
           y == Over("mkchan")
           pre == <<x, y>>
           new == pre \o next
<1>1. /\ state[c] = "none" /\ state' = [state EXCEPT ![c] = "live"]
      /\ Called(new) /\ UNCHANGED <<heard, unheard, on, istmp>>
  BY DEF mkchan, report
<1>2. Stacked /\ OnOk /\ state \in [Things -> {"none", "live", "gone"}]
  BY DEF BInv, World, TInv
<1>3. Plain(x) /\ Plain(y)
  BY PlainEntries DEF Events, Kinds, Things
<1> HIDE DEF x, y
<1>4. pre \in Seq(Task) /\ \A i \in 1 .. Len(pre) : Plain(pre[i])
  BY <1>3, PlainBlocks
<1> HIDE DEF pre
<1>5. new \in Seq(Task) /\ \A i \in 1 .. Len(new) : Plain(new[i])
  BY <1>4, PlainBlocks
<1> HIDE DEF new
<1>6. SameView(todo', todo)
  BY <1>1, <1>2, <1>5, PlainCall
<1>7. state'[c] = "live" /\ \A t \in Things : t # c => state'[t] = state[t]
  BY <1>1, <1>2 DEF Things
<1>8. UsersHeard(heard'.users, unheard', state', istmp', todo')
  <2>1. \A v \in Users : v # c /\ v \in Things
    BY ThingsAssumption DEF Things
  <2> QED BY <1>1, <1>6, <1>7, <2>1 DEF HInv, UsersHeard, SameView
<1>9. MembersHeard(heard'.list, unheard', state', on', todo')
  <2> SUFFICES ASSUME NEW d \in Chans
               PROVE  /\ state'[d] = "none" => heard.list[d] = {}
                      /\ d \notin unheard /\ state'[d] = "live" =>
                           \A v \in Users : v \in heard.list[d] <=>
                             <<v, d>> \in on /\ ~Off(todo, v, d)
    BY <1>1, <1>6 DEF MembersHeard, SameView
  <2>1. CASE d = c
    <3>1. heard.list[c] = {}
      BY <1>1 DEF HInv, MembersHeard
    <3>2. \A v \in Users : <<v, c>> \notin on
      BY <1>1, <1>2 DEF OnOk, OnLive, Live
    <3> QED BY <1>7, <2>1, <3>1, <3>2
  <2>2. CASE d # c
    BY <1>7, <2>2 DEF HInv, MembersHeard, Things
  <2> QED BY <2>1, <2>2
<1> QED BY <1>8, <1>9 DEF HInv

LEMMA MakeHeard ==
  ASSUME BInv, HInv, NEW n,
         \/ ape_sm_mkchan(n)
         \/ \E u \in Users : cmd_join(u, n) /\ getchan(n) = NULL
  PROVE  HInv'
<1>1. CASE ape_sm_mkchan(n)
  <2>1. PICK c \in Chans : mkchan(n, c, {}, <<Do("done", c, NULL)>>)
    BY <1>1 DEF ape_sm_mkchan
  <2> DEFINE next == <<Do("done", c, NULL)>>
  <2>2. Plain(Do("done", c, NULL))
    BY PlainEntries
  <2>3. next \in Seq(Task) /\ (\A i \in 1 .. Len(next) : Plain(next[i])) /\ mkchan(n, c, {}, next)
    BY <2>1, <2>2, PlainBlocks
  <2> HIDE DEF next
  <2> QED BY <2>3, MkchanHeard
<1>2. ASSUME NEW u \in Users, cmd_join(u, n), getchan(n) = NULL PROVE HInv'
  <2>1. PICK c \in Chans : mkchan(n, c, {c}, <<Do("join", u, c), Do("done", u, NULL)>>)
    BY <1>2 DEF cmd_join
  <2> DEFINE next == <<Do("join", u, c), Do("done", u, NULL)>>
  <2>2. Plain(Do("join", u, c)) /\ Plain(Do("done", u, NULL))
    BY PlainEntries
  <2>3. next \in Seq(Task) /\ (\A i \in 1 .. Len(next) : Plain(next[i])) /\ mkchan(n, c, {c}, next)
    BY <2>1, <2>2, PlainBlocks
  <2> HIDE DEF next
  <2> QED BY <2>3, MkchanHeard
<1> QED BY <1>1, <1>2

LEMMA InitHeard == ASSUME Init PROVE HInv
<1>1. /\ heard.users = {} /\ (\A c \in Chans : heard.list[c] = {})
      /\ \A t \in Users \cup Chans : state[t] = "none"
  BY DEF Init, Things
<1>2. UsersHeard(heard.users, unheard, state, istmp, todo)
  BY <1>1 DEF UsersHeard
<1>3. MembersHeard(heard.list, unheard, state, on, todo)
  BY <1>1 DEF MembersHeard
<1> QED BY <1>2, <1>3 DEF HInv

LEMMA NextHeard == ASSUME BInv, HInv, [Next]_vars PROVE HInv'
<1>1. CASE JoinFire \/ join \/ LeftFire \/ left \/ adduser \/ Return \/ Refuse
  BY <1>1, PlainSteps, JoinHeard, LeftFireHeard, LeftHeard, AdduserHeard, RefuseHeard
<1>2. CASE rmchan \/ RmchanFire \/ RmchanDetach \/ RmchanEnd
  BY <1>2, PlainSteps, RmchanEndHeard
<1>3. CASE deluser \/ DeluserFire \/ DeluserDetach \/ DeluserEnd
  BY <1>3, PlainSteps, DeluserHeard, DeluserFireHeard, DeluserEndHeard
<1>4. CASE \/ Timer \/ \E u \in Users : Connect(u) \/ cmd_quit(u)
           \/ \E u, w \in Users : check_timeout(u, w)
           \/ \E u \in Users, p \in Customs : cmd_send(u, p)
  BY <1>4, OutsideHeard, ConnectHeard
<1>5. ASSUME NEW u \in Users, NEW n \in api.names, cmd_join(u, n) \/ cmd_left(u, n) PROVE HInv'
  BY <1>5, OutsideHeard, MakeHeard
<1>6. ASSUME NEW n \in api.names, ape_sm_mkchan(n) PROVE HInv'
  BY <1>6, MakeHeard
<1>7. ASSUME NEW u \in Users,
             \/ apeuser_sm_quit(Obj(u)) \/ ape_sm_adduser(Obj(u))
             \/ \E c \in Chans :
                  apeuser_sm_join(Obj(u), Obj(c)) \/ apeuser_sm_left(Obj(u), Obj(c))
      PROVE  HInv'
  BY <1>7, ScriptHeard
<1>8. ASSUME NEW c \in Chans, ape_sm_rmchan(Obj(c)) PROVE HInv'
  BY <1>8, ScriptHeard
<1>9. ASSUME NEW p \in Customs,
             \/ ape_sm_pipe_constructor(p) \/ LetGo(p) \/ ape_sm_get_pipe(p)
             \/ apepipe_sm_destroy(p)
      PROVE  HInv'
  BY <1>9, OtherHeard
<1>10. ASSUME NEW key \in Keys, NEW type \in {EXTEND_STR, EXTEND_JSON}, NEW o \in Objs,
              \/ apeuser_sm_set_property(o, key, type)
              \/ apechannel_sm_set_property(o, key, type)
              \/ apepipe_sm_set_property(o, key, type)
       PROVE  HInv'
  <2>1. SetProperty(priv[o], key, type)
    BY <1>10 DEF apeuser_sm_set_property, apechannel_sm_set_property, apepipe_sm_set_property
  <2> QED BY <2>1, OtherHeard
<1>11. CASE GC \/ UNCHANGED vars
  BY <1>11, OtherHeard
<1>12. \A o \in Usable : o \in Objs
  BY DEF Usable
<1> QED BY <1>1, <1>2, <1>3, <1>4, <1>5, <1>6, <1>7, <1>8, <1>9, <1>10, <1>11, <1>12
        DEF Next

LEMMA ListsFollow == ASSUME TInv, HInv PROVE ListsHeard
<1> SUFFICES ASSUME Idle
             PROVE  /\ heard.users \ unheard
                         = {u \in Users : Live(u) /\ u \notin istmp} \ unheard
                    /\ \A c \in Chans \ unheard : Live(c) => heard.list[c] = Members(c)
  BY DEF ListsHeard
<1>1. \A u, c : ~Told(todo, u) /\ ~Off(todo, u, c)
  BY NothingTold DEF Idle
<1>2. heard.users \subseteq Users /\ \A c \in Chans : heard.list[c] \subseteq Users
  BY DEF TInv
<1>3. heard.users \ unheard = {u \in Users : Live(u) /\ u \notin istmp} \ unheard
  BY <1>1, <1>2 DEF HInv, UsersHeard, Live
<1>4. ASSUME NEW c \in Chans \ unheard, Live(c) PROVE heard.list[c] = Members(c)
  BY <1>1, <1>2, <1>4 DEF HInv, MembersHeard, Live, Members
<1> QED BY <1>3, <1>4

(* Scripts that only listen to adduser, deluser, join and left know who is *)
(* there and who is on which channel whenever the server is idle, but for   *)
(* what happened inside an event of its own kind, which is not reported.    *)
THEOREM ListsAreHeard == Spec => []ListsHeard
<1>1. Init => BInv /\ HInv
  BY InitHolds, InitHeard
<1>2. BInv /\ HInv /\ [Next]_vars => (BInv /\ HInv)'
  BY NextHolds, NextHeard
<1>3. BInv /\ HInv => ListsHeard
  BY ListsFollow DEF BInv
<1> QED BY <1>1, <1>2, <1>3, PTL DEF Spec

=============================================================================
