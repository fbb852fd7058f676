--------------------------- MODULE RawQueueProofs ---------------------------
(***************************************************************************)
(* Proofs about RawQueue, for any number of subusers, other users, cells   *)
(* and slots.                                                              *)
(*                                                                         *)
(* A chain that satisfies Terminated is a plain queue of cells (Queue),    *)
(* and everything the actions do to slots is an operation on that queue.   *)
(* The invariant QInv then says of every open subuser that no cell is      *)
(* queued twice for it, that counts and holders agree, and that its client *)
(* catches up.  The last needs a strengthening: what is queued at low      *)
(* priority leaves the member list of now as it is (Settled), which is why *)
(* a copy of it may follow a snapshot that is newer.                       *)
(*                                                                         *)
(* Facts about all places of a queue are proved by looking at the first    *)
(* one where they fail.                                                    *)
(***************************************************************************)
EXTENDS RawQueue, FiniteSetTheorems, SequenceTheorems, NaturalsInduction, TLAPS

LEMMA Least ==
  ASSUME NEW T \in SUBSET Nat, T # {}
  PROVE  \E x \in T : \A y \in T : x <= y
<1> DEFINE R == OpToRel(<, Nat)
<1>1. IsWellFoundedOn(R, Nat)
  BY NatLessThanWellFounded
<1>2. ASSUME NEW x \in Nat, NEW y \in Nat, y < x PROVE <<y, x>> \in R
  BY <1>2 DEF OpToRel
<1> HIDE DEF R
<1>3. PICK x \in T : \A y \in T : ~(<<y, x>> \in R)
  BY <1>1, WFMin
<1>4. ASSUME NEW y \in T PROVE x <= y
  <2>1. x \in Nat /\ y \in Nat
    OBVIOUS
  <2>2. ~(y < x)
    BY <1>2, <1>3, <2>1
  <2> QED
    BY <2>1, <2>2
<1> QED
  BY <1>4

-----------------------------------------------------------------------------
(* Chains as queues.                                                       *)

Queue(c)   == SubSeq(c.slots, 1, c.nraw)
ChainOk(c) == c \in Chain /\ Terminated(c)
In(q, r)   == \E i \in 1 .. Len(q) : q[i] = r
NoDup(q)   == \A i, j \in 1 .. Len(q) : q[i] = q[j] => i = j

LEMMA QueueIs ==
  ASSUME NEW c, ChainOk(c)
  PROVE  /\ Queue(c) \in Seq(Cells)
         /\ Len(Queue(c)) = c.nraw
         /\ \A i \in 1 .. c.nraw : Queue(c)[i] = c.slots[i]
<1>1. /\ c.slots \in Seq(Cells \cup {NULL}) /\ c.nraw \in Nat /\ c.size \in Nat
      /\ c.size = Len(c.slots) /\ c.nraw < c.size
      /\ \A i \in 1 .. Len(c.slots) : c.slots[i] # NULL <=> i <= c.nraw
  BY DEF ChainOk, Chain, Terminated
<1> DEFINE n == c.nraw
           t == c.slots
<1>2. \A i \in 1 .. n : t[i] \in Cells
  <2> SUFFICES ASSUME NEW i \in 1 .. n PROVE t[i] \in Cells
    OBVIOUS
  <2>1. i \in 1 .. Len(t)
    BY <1>1
  <2>2. t[i] \in Cells \cup {NULL}
    BY <2>1, <1>1, ElementOfSeq
  <2> QED
    BY <1>1, <2>1, <2>2
<1>3. SubSeq(t, 1, n) = [i \in 1 .. n |-> t[i]]
  BY <1>1 DEF SubSeq
<1>4. n \in Nat
  BY <1>1
<1> HIDE DEF n, t
<1>5. [i \in 1 .. n |-> t[i]] \in Seq(Cells) /\ Len([i \in 1 .. n |-> t[i]]) = n
  BY <1>2, <1>4
<1> QED
  BY <1>3, <1>5 DEF Queue, n, t

LEMMA NullSlots ==
  ASSUME NEW n \in Nat
  PROVE  /\ Null(n) \in Seq(Cells \cup {NULL}) /\ Len(Null(n)) = n
         /\ \A i \in 1 .. n : Null(n)[i] = NULL
BY DEF Null

LEMMA NewChain ==
  ASSUME NEW n \in Nat \ {0}
  PROVE  ChainOk(init_raw_pool(n)) /\ Queue(init_raw_pool(n)) = << >>
<1> DEFINE c == init_raw_pool(n)
<1>1. c = [slots |-> Null(n), foot |-> 1, nraw |-> 0, size |-> n]
  BY DEF init_raw_pool
<1>2. c \in Chain
  BY <1>1, NullSlots DEF Chain
<1>3. Terminated(c)
  BY <1>1, NullSlots, SMTT(30) DEF Terminated
<1>4. Queue(c) = << >>
  <2>1. Len(Queue(c)) = 0 /\ Queue(c) \in Seq(Cells)
    BY <1>1, <1>2, <1>3, QueueIs DEF ChainOk
  <2> QED
    BY <2>1, EmptySeq
<1> QED
  BY <1>2, <1>3, <1>4 DEF ChainOk

LEMMA EmptiedChain ==
  ASSUME NEW c, ChainOk(c)
  PROVE  ChainOk(Emptied(c)) /\ Queue(Emptied(c)) = << >>
<1> DEFINE e == Emptied(c)
           n == Len(c.slots)
<1>0. c.slots \in Seq(Cells \cup {NULL}) /\ n \in Nat /\ n > 0 /\ c.size = n
      /\ c \in Chain
  BY DEF ChainOk, Chain, Terminated
<1>1. e = [slots |-> Null(n), foot |-> 1, nraw |-> 0, size |-> n]
  BY <1>0 DEF Emptied
<1> QED
  BY <1>0, <1>1, NewChain DEF init_raw_pool

(* Posting appends.                                                        *)
LEMMA PostedChain ==
  ASSUME NEW c, ChainOk(c), NEW r \in Cells
  PROVE  ChainOk(Posted(c, r)) /\ Queue(Posted(c, r)) = Append(Queue(c), r)
<1> DEFINE t == c.slots
           n == c.nraw
           p == Posted(c, r)
<1>0. /\ t \in Seq(Cells \cup {NULL}) /\ n \in Nat /\ c.size \in Nat
      /\ c.size = Len(t) /\ n < Len(t) /\ c.foot = n + 1
      /\ \A i \in 1 .. Len(t) : t[i] # NULL <=> i <= n
  BY DEF ChainOk, Chain, Terminated
<1>1. PICK u : /\ u \in Seq(Cells \cup {NULL}) /\ n + 1 < Len(u)
               /\ \A i \in 1 .. n : u[i] = t[i]
               /\ \A i \in n + 1 .. Len(u) : u[i] = NULL
               /\ p = [slots |-> [u EXCEPT ![n + 1] = r], foot |-> n + 2, nraw |-> n + 1,
                       size |-> Len(u)]
  <2>1. CASE n + 1 = c.size
    <3> DEFINE u == SubSeq(t, 1, n + 1) \o Null(AddSize)
    <3>1. AddSize \in Nat /\ AddSize > 0
      BY SizeAssumption
    <3>2. SubSeq(t, 1, n + 1) = t
      BY <2>1, <1>0
    <3>3. /\ u \in Seq(Cells \cup {NULL}) /\ Len(u) = Len(t) + AddSize
          /\ \A i \in 1 .. Len(t) : u[i] = t[i]
          /\ \A i \in Len(t) + 1 .. Len(t) + AddSize : u[i] = NULL
      <4> DEFINE z == Null(AddSize)
      <4>1. /\ z \in Seq(Cells \cup {NULL}) /\ Len(z) = AddSize
            /\ \A i \in 1 .. AddSize : z[i] = NULL
        BY <3>1, NullSlots
      <4>2. u = t \o z
        BY <3>2
      <4>3. t \in Seq(Cells \cup {NULL}) /\ Len(t) \in Nat
        BY <1>0
      <4> HIDE DEF z, u, t
      <4>4. /\ t \o z \in Seq(Cells \cup {NULL}) /\ Len(t \o z) = Len(t) + Len(z)
            /\ \A i \in 1 .. Len(t) + Len(z) :
                 (t \o z)[i] = IF i <= Len(t) THEN t[i] ELSE z[i - Len(t)]
        BY <4>1, <4>3, ConcatProperties
      <4> QED
        BY <4>1, <4>2, <4>3, <4>4, <3>1
    <3>4. p = [slots |-> [u EXCEPT ![n + 1] = r], foot |-> n + 2, nraw |-> n + 1,
               size |-> Len(u)]
      <4>1. p = [slots |-> [u EXCEPT ![c.foot] = r], foot |-> c.foot + 1, nraw |-> c.nraw + 1,
                 size |-> c.size + AddSize]
        BY <2>1, <1>0 DEF Posted
      <4>2. c.foot = n + 1 /\ c.foot + 1 = n + 2 /\ c.nraw = n /\ c.size + AddSize = Len(u)
        BY <3>3, <1>0
      <4> HIDE DEF u, n, p
      <4> QED
        BY <4>1, <4>2
    <3> HIDE DEF u
    <3>5. n + 1 < Len(u) /\ \A i \in n + 1 .. Len(u) : u[i] = NULL
      <4>1. n \in Nat /\ n + 1 = Len(t) /\ AddSize \in Nat /\ AddSize > 0
            /\ Len(u) = Len(t) + AddSize
        BY <3>1, <3>3, <2>1, <1>0
      <4>2. t[n + 1] = NULL /\ u[n + 1] = t[n + 1]
        <5>1. n + 1 \in 1 .. Len(t) /\ ~(n + 1 <= n)
          BY <4>1
        <5> HIDE DEF t, n
        <5> QED
          BY <3>3, <5>1, <1>0
      <4>3. \A i \in Len(t) + 1 .. Len(t) + AddSize : u[i] = NULL
        BY <3>3
      <4> HIDE DEF t, n
      <4>4. ASSUME NEW i \in n + 1 .. Len(u) PROVE u[i] = NULL
        <5>1. i = n + 1 \/ i \in Len(t) + 1 .. Len(t) + AddSize
          BY <4>1
        <5> QED
          BY <4>2, <4>3, <5>1
      <4>5. n + 1 < Len(u)
        BY <4>1
      <4> QED
        BY <4>4, <4>5
    <3>6. \A i \in 1 .. n : u[i] = t[i]
      BY <3>3, <1>0
    <3> HIDE DEF n, t, p
    <3> QED
      BY <3>3, <3>4, <3>5, <3>6
  <2>2. CASE n + 1 # c.size
    <3>1. p = [slots |-> [t EXCEPT ![c.foot] = r], foot |-> c.foot + 1, nraw |-> c.nraw + 1,
               size |-> c.size]
      BY <2>2, <1>0 DEF Posted
    <3>2. p = [slots |-> [t EXCEPT ![n + 1] = r], foot |-> n + 2, nraw |-> n + 1,
               size |-> Len(t)]
      <4>1. c.foot = n + 1 /\ c.foot + 1 = n + 2 /\ c.nraw = n /\ c.size = Len(t)
        BY <1>0
      <4> HIDE DEF t, n, p
      <4> QED
        BY <3>1, <4>1
    <3>3. n + 1 < Len(t) /\ \A i \in n + 1 .. Len(t) : t[i] = NULL
      BY <2>2, <1>0
    <3>4. t \in Seq(Cells \cup {NULL})
      BY <1>0
    <3> HIDE DEF n, t, p
    <3> QED
      BY <3>2, <3>3, <3>4
  <2> QED
    BY <2>1, <2>2
<1> HIDE DEF t, n, p
<1> DEFINE w == [u EXCEPT ![n + 1] = r]
<1>2. /\ w \in Seq(Cells \cup {NULL}) /\ Len(w) = Len(u)
      /\ \A i \in 1 .. Len(u) : w[i] = IF i = n + 1 THEN r ELSE u[i]
  BY <1>0, <1>1
<1>3. p.slots = w /\ p.foot = n + 2 /\ p.nraw = n + 1 /\ p.size = Len(u)
      /\ p = [slots |-> w, foot |-> n + 2, nraw |-> n + 1, size |-> Len(u)]
  BY <1>1
<1> HIDE DEF w
<1>4. p \in Chain
  BY <1>0, <1>1, <1>2, <1>3 DEF Chain
<1>5. Terminated(p)
  <2>1. ASSUME NEW i \in 1 .. Len(u) PROVE w[i] # NULL <=> i <= n + 1
    <3>1. CASE i = n + 1
      BY <3>1, <1>2, <1>0, CellAssumption
    <3>2. CASE i \in 1 .. n
      BY <3>2, <1>0, <1>1, <1>2
    <3>3. CASE i > n + 1
      BY <3>3, <1>0, <1>1, <1>2
    <3> QED
      BY <3>1, <3>2, <3>3, <1>0
  <2> QED
    BY <2>1, <1>0, <1>1, <1>2, <1>3 DEF Terminated
<1>6. ChainOk(p)
  BY <1>4, <1>5 DEF ChainOk
<1>7. Queue(p) = Append(Queue(c), r)
  <2>1. Queue(p) \in Seq(Cells) /\ Len(Queue(p)) = n + 1
        /\ \A i \in 1 .. n + 1 : Queue(p)[i] = w[i]
    BY <1>6, <1>3, QueueIs
  <2>2. Queue(c) \in Seq(Cells) /\ Len(Queue(c)) = n
        /\ \A i \in 1 .. n : Queue(c)[i] = t[i]
    BY QueueIs DEF n, t
  <2> DEFINE q == Queue(c)
             y == Queue(p)
  <2> HIDE DEF q, y
  <2>3. ASSUME NEW i \in 1 .. n + 1 PROVE y[i] = Append(q, r)[i]
    <3>1. i \in 1 .. Len(u)
      BY <1>0, <1>1
    <3>2. y[i] = IF i = n + 1 THEN r ELSE u[i]
      BY <3>1, <1>2, <2>1 DEF y
    <3> QED
      BY <3>2, <2>2, <1>1, <1>0 DEF q
  <2>4. Append(q, r) \in Seq(Cells) /\ Len(Append(q, r)) = n + 1
    BY <2>2 DEF q
  <2>5. y \in Seq(Cells) /\ Len(y) = n + 1
    BY <2>1 DEF y
  <2>6. y = Append(q, r)
    BY <2>3, <2>4, <2>5, SeqEqual
  <2> QED
    BY <2>6 DEF q, y
<1> QED
  BY <1>6, <1>7 DEF p

-----------------------------------------------------------------------------
(* Posting one after the other.                                            *)

Posts(f, c, rs, n) == f = [i \in 0 .. n |-> IF i = 0 THEN c ELSE Posted(f[i - 1], rs[i])]

LEMMA PostsExist ==
  ASSUME NEW c, NEW rs \in Seq(Cells), NEW n \in 0 .. Len(rs)
  PROVE  \E f : Posts(f, c, rs, n)
<1> DEFINE T == {m \in 0 .. Len(rs) : ~ \E f : Posts(f, c, rs, m)}
<1>0. Len(rs) \in Nat
  OBVIOUS
<1> SUFFICES ASSUME T # {} PROVE FALSE
  OBVIOUS
<1>1. PICK m \in T : \A y \in T : m <= y
  <2>1. T \in SUBSET Nat
    BY <1>0
  <2> HIDE DEF T
  <2> QED
    BY <2>1, Least
<1>2. m \in 0 .. Len(rs) /\ ~ \E f : Posts(f, c, rs, m)
  BY <1>1
<1>3. CASE m = 0
  <2>1. Posts([i \in 0 .. 0 |-> c], c, rs, 0)
    BY DEF Posts
  <2> QED
    BY <1>2, <1>3, <2>1
<1>4. CASE m # 0
  <2>1. m - 1 \in 0 .. Len(rs) /\ m - 1 \notin T /\ m \in Nat
    BY <1>0, <1>1, <1>2, <1>4
  <2>2. PICK f : Posts(f, c, rs, m - 1)
    BY <2>1
  <2> DEFINE g == [i \in 0 .. m |-> IF i = m THEN Posted(f[m - 1], rs[m]) ELSE f[i]]
  <2>3. ASSUME NEW i \in 0 .. m
        PROVE  g[i] = IF i = 0 THEN c ELSE Posted(g[i - 1], rs[i])
    <3>1. CASE i = m
      <4>1. g[i] = Posted(f[m - 1], rs[m]) /\ g[i - 1] = f[m - 1] /\ i # 0
        BY <1>4, <2>1, <3>1
      <4> QED
        BY <3>1, <4>1
    <3>2. CASE i # m
      <4>1. i \in 0 .. m - 1 /\ g[i] = f[i] /\ (i # 0 => g[i - 1] = f[i - 1])
        BY <2>1, <3>2
      <4>2. f[i] = IF i = 0 THEN c ELSE Posted(f[i - 1], rs[i])
        BY <2>2, <4>1 DEF Posts
      <4> QED
        BY <4>1, <4>2
    <3> QED
      BY <3>1, <3>2
  <2>4. g = [i \in 0 .. m |-> g[i]]
    OBVIOUS
  <2> HIDE DEF g
  <2>5. Posts(g, c, rs, m)
    BY <2>3, <2>4 DEF Posts
  <2> QED
    BY <1>2, <2>5
<1> QED
  BY <1>3, <1>4

(* Posting all of rs into a new chain queues them as they are.             *)
LEMMA PostedAllChain ==
  ASSUME NEW c, ChainOk(c), Queue(c) = << >>, NEW rs \in Seq(Cells)
  PROVE  ChainOk(PostedAll(c, rs)) /\ Queue(PostedAll(c, rs)) = rs
<1> DEFINE f == CHOOSE f : Posts(f, c, rs, Len(rs))
<1>0. Len(rs) \in Nat
  OBVIOUS
<1>1. Posts(f, c, rs, Len(rs))
  <2>1. Len(rs) \in 0 .. Len(rs)
    BY <1>0
  <2>2. \E g : Posts(g, c, rs, Len(rs))
    BY <2>1, PostsExist
  <2> QED
    BY <2>2
<1>2. PostedAll(c, rs) = f[Len(rs)]
  BY DEF PostedAll, Posts
<1> HIDE DEF f
<1>3. f[0] = c /\ \A i \in 1 .. Len(rs) : f[i] = Posted(f[i - 1], rs[i])
  BY <1>0, <1>1 DEF Posts
<1> DEFINE Good(m) == ChainOk(f[m]) /\ Queue(f[m]) = SubSeq(rs, 1, m)
           T == {m \in 0 .. Len(rs) : ~ Good(m)}
<1>4. ASSUME T # {} PROVE FALSE
  <2>1. PICK m \in T : \A y \in T : m <= y
    <3>1. T \in SUBSET Nat
      BY <1>0
    <3> HIDE DEF T
    <3> QED
      BY <1>4, <3>1, Least
  <2>2. m \in 0 .. Len(rs) /\ ~ Good(m)
    BY <2>1
  <2>3. m # 0
    <3>1. SubSeq(rs, 1, 0) = << >>
      BY SubSeqEmpty
    <3> QED
      BY <2>2, <1>3, <3>1
  <2>4. m - 1 \in 0 .. Len(rs) /\ m - 1 \notin T /\ m \in 1 .. Len(rs)
    BY <1>0, <2>1, <2>2, <2>3
  <2>5. Good(m - 1)
    BY <2>4
  <2>6. rs[m] \in Cells
    BY <2>4
  <2>7. ChainOk(f[m]) /\ Queue(f[m]) = Append(Queue(f[m - 1]), rs[m])
    <3> DEFINE d == f[m - 1]
    <3>1. f[m] = Posted(d, rs[m]) /\ ChainOk(d)
      BY <1>3, <2>4, <2>5
    <3> HIDE DEF d
    <3> QED
      BY <3>1, <2>6, PostedChain DEF d
  <2>8. Append(SubSeq(rs, 1, m - 1), rs[m]) = SubSeq(rs, 1, m)
    BY <2>4
  <2> QED
    BY <2>2, <2>5, <2>7, <2>8
<1>5. Good(Len(rs))
  BY <1>0, <1>4
<1>6. SubSeq(rs, 1, Len(rs)) = rs
  BY SubSeqFull
<1> QED
  BY <1>2, <1>5, <1>6

(* The walks visit the queue.                                              *)
LEMMA ForwardIs ==
  ASSUME NEW c, ChainOk(c)
  PROVE  Forward(c) = Queue(c)
<1> DEFINE t == c.slots
           n == c.nraw
           Walk(k) == /\ \A i \in 1 .. k : t[i] # NULL
                      /\ k = Len(t) \/ t[k + 1] = NULL
<1>0. /\ t \in Seq(Cells \cup {NULL}) /\ n \in Nat /\ n < Len(t) /\ Len(t) \in Nat
      /\ \A i \in 1 .. Len(t) : t[i] # NULL <=> i <= n
  BY DEF ChainOk, Chain, Terminated
<1>1. n \in 0 .. Len(t) /\ Walk(n)
  BY <1>0
<1>2. ASSUME NEW k \in 0 .. Len(t), Walk(k) PROVE k = n
  <2>1. CASE k < n
    <3>1. t[k + 1] = NULL
      BY <1>0, <1>2, <2>1
    <3>2. k + 1 \in 1 .. Len(t) /\ k + 1 <= n
      BY <1>0, <2>1
    <3> QED
      BY <3>1, <3>2, <1>0
  <2>2. CASE k > n
    <3>1. t[n + 1] # NULL
      BY <1>0, <1>2, <2>2
    <3>2. n + 1 \in 1 .. Len(t) /\ ~(n + 1 <= n)
      BY <1>0
    <3> QED
      BY <3>1, <3>2, <1>0
  <2> QED
    BY <2>1, <2>2, <1>0
<1>3. Forward(c) = SubSeq(t, 1, CHOOSE k \in 0 .. Len(t) : Walk(k))
  BY DEF Forward
<1> HIDE DEF Walk
<1>4. (CHOOSE k \in 0 .. Len(t) : Walk(k)) = n
  BY <1>1, <1>2
<1> QED
  BY <1>3, <1>4 DEF Queue

LEMMA BackwardIs ==
  ASSUME NEW c, ChainOk(c)
  PROVE  Backward(c) = Reverse(Queue(c))
<1> DEFINE t == c.slots
           n == c.nraw
           Walk(k) == /\ \A i \in k + 1 .. c.foot - 1 : t[i] # NULL
                      /\ k = 0 \/ t[k] = NULL
<1>0. /\ t \in Seq(Cells \cup {NULL}) /\ n \in Nat /\ n < Len(t) /\ Len(t) \in Nat
      /\ \A i \in 1 .. Len(t) : t[i] # NULL <=> i <= n
      /\ c.foot - 1 = n
  BY DEF ChainOk, Chain, Terminated
<1>1. Walk(0)
  BY <1>0
<1>2. ASSUME NEW k \in 0 .. n, Walk(k) PROVE k = 0
  <2>1. ASSUME k # 0 PROVE FALSE
    <3>1. t[k] = NULL
      BY <1>2, <2>1
    <3>2. k \in 1 .. Len(t) /\ k <= n
      BY <1>0, <2>1
    <3> QED
      BY <3>1, <3>2, <1>0
  <2> QED
    BY <2>1
<1>3. Backward(c) = Reverse(SubSeq(t, (CHOOSE k \in 0 .. n : Walk(k)) + 1, n))
  BY <1>0 DEF Backward
<1> HIDE DEF Walk
<1>4. (CHOOSE k \in 0 .. n : Walk(k)) = 0
  BY <1>0, <1>1, <1>2
<1>5. 0 + 1 = 1
  OBVIOUS
<1> QED
  BY <1>3, <1>4, <1>5 DEF Queue

-----------------------------------------------------------------------------
(* The two chains of a subuser.                                            *)

Chains(p) == ChainOk(p.low) /\ ChainOk(p.high)
PoolOk(p) == Chains(p) /\ NoDup(Sent(p))

LEMMA ReverseIs ==
  ASSUME NEW q \in Seq(Cells)
  PROVE  /\ Reverse(q) \in Seq(Cells) /\ Len(Reverse(q)) = Len(q)
         /\ \A i \in 1 .. Len(q) : Reverse(q)[i] = q[Len(q) - i + 1]
<1>1. \A i \in 1 .. Len(q) : q[Len(q) - i + 1] \in Cells
  <2> SUFFICES ASSUME NEW i \in 1 .. Len(q) PROVE q[Len(q) - i + 1] \in Cells
    OBVIOUS
  <2>1. Len(q) - i + 1 \in 1 .. Len(q)
    OBVIOUS
  <2> QED
    BY <2>1, ElementOfSeq
<1> QED
  BY <1>1 DEF Reverse

(* What is sent: the high queue from its end, then the low queue.          *)
LEMMA SentIs ==
  ASSUME NEW p, Chains(p)
  PROVE  LET hi == Queue(p.high)
             lo == Queue(p.low)
         IN  /\ hi \in Seq(Cells) /\ lo \in Seq(Cells)
             /\ Sent(p) = Reverse(hi) \o lo
             /\ Sent(p) \in Seq(Cells) /\ Len(Sent(p)) = Len(hi) + Len(lo)
             /\ \A i \in 1 .. Len(hi) : Sent(p)[i] = hi[Len(hi) - i + 1]
             /\ \A i \in 1 .. Len(lo) : Sent(p)[Len(hi) + i] = lo[i]
<1> DEFINE hi == Queue(p.high)
           lo == Queue(p.low)
<1>1. hi \in Seq(Cells) /\ lo \in Seq(Cells)
  BY QueueIs DEF Chains
<1>2. Sent(p) = Reverse(hi) \o lo
  BY ForwardIs, BackwardIs DEF Sent, Chains
<1> HIDE DEF hi, lo
<1> DEFINE b == Reverse(hi)
<1>3. b \in Seq(Cells) /\ Len(b) = Len(hi)
      /\ \A i \in 1 .. Len(hi) : b[i] = hi[Len(hi) - i + 1]
  BY <1>1, ReverseIs
<1> HIDE DEF b
<1>4. b \o lo \in Seq(Cells) /\ Len(b \o lo) = Len(b) + Len(lo)
      /\ \A i \in 1 .. Len(b) + Len(lo) : (b \o lo)[i] = IF i <= Len(b) THEN b[i] ELSE lo[i - Len(b)]
  BY <1>1, <1>3, ConcatProperties, ZenonT(60)
<1>5. Sent(p) = b \o lo
  BY <1>2 DEF b
<1>6. Len(hi) \in Nat /\ Len(lo) \in Nat
  BY <1>1
<1>7. /\ Sent(p) \in Seq(Cells) /\ Len(Sent(p)) = Len(hi) + Len(lo)
      /\ \A i \in 1 .. Len(hi) : Sent(p)[i] = hi[Len(hi) - i + 1]
  BY <1>3, <1>4, <1>5, <1>6
<1>8. ASSUME NEW i \in 1 .. Len(lo) PROVE Sent(p)[Len(hi) + i] = lo[i]
  <2> DEFINE j == Len(hi) + i
  <2>1. j \in 1 .. Len(b) + Len(lo) /\ ~(j <= Len(b)) /\ j - Len(b) = i
    BY <1>3, <1>6
  <2> HIDE DEF j
  <2>2. Sent(p)[j] = lo[i]
    BY <2>1, <1>4, <1>5
  <2> QED
    BY <2>2 DEF j
<1> QED
  BY <1>1, <1>2, <1>7, <1>8 DEF hi, lo

LEMMA AppendedQueue ==
  ASSUME NEW q \in Seq(Cells), NEW r \in Cells
  PROVE  /\ \A x : In(Append(q, r), x) <=> In(q, x) \/ x = r
         /\ NoDup(q) /\ ~In(q, r) => NoDup(Append(q, r))
<1>1. Len(Append(q, r)) = Len(q) + 1 /\ Append(q, r)[Len(q) + 1] = r
      /\ \A i \in 1 .. Len(q) : Append(q, r)[i] = q[i]
  OBVIOUS
<1>2. Len(q) \in Nat
  OBVIOUS
<1> DEFINE a == Append(q, r)
<1> HIDE DEF a
<1>3. Len(a) = Len(q) + 1 /\ a[Len(q) + 1] = r /\ \A i \in 1 .. Len(q) : a[i] = q[i]
  BY <1>1 DEF a
<1>4. \A x : In(a, x) <=> In(q, x) \/ x = r
  <2> SUFFICES ASSUME NEW x PROVE In(a, x) <=> In(q, x) \/ x = r
    OBVIOUS
  <2>1. ASSUME In(a, x) PROVE In(q, x) \/ x = r
    <3>1. PICK i \in 1 .. Len(q) + 1 : a[i] = x
      BY <2>1, <1>3 DEF In
    <3> QED
      BY <3>1, <1>2, <1>3 DEF In
  <2>2. ASSUME In(q, x) PROVE In(a, x)
    <3>1. PICK i \in 1 .. Len(q) : q[i] = x
      BY <2>2 DEF In
    <3>2. i \in 1 .. Len(q) + 1
      BY <1>2
    <3> QED
      BY <3>1, <3>2, <1>3 DEF In
  <2>3. In(a, r)
    <3>1. Len(q) + 1 \in 1 .. Len(q) + 1
      BY <1>2
    <3> QED
      BY <3>1, <1>3 DEF In
  <2> QED
    BY <2>1, <2>2, <2>3
<1>5. ASSUME NoDup(q), ~In(q, r), NEW i \in 1 .. Len(q) + 1, NEW j \in 1 .. Len(q) + 1, a[i] = a[j]
      PROVE  i = j
  <2>1. CASE i \in 1 .. Len(q) /\ j \in 1 .. Len(q)
    BY <1>5, <1>3, <2>1 DEF NoDup
  <2>2. CASE i = Len(q) + 1 /\ j \in 1 .. Len(q)
    BY <1>5, <1>3, <2>2 DEF In
  <2>3. CASE j = Len(q) + 1 /\ i \in 1 .. Len(q)
    BY <1>5, <1>3, <2>3 DEF In
  <2> QED
    BY <2>1, <2>2, <2>3, <1>2
<1> QED
  BY <1>3, <1>4, <1>5 DEF NoDup, a

(* A raw of low priority is sent after everything that is queued.          *)
LEMMA SentPosted ==
  ASSUME NEW p \in [low : Chain, high : Chain], Chains(p), NEW r \in Cells
  PROVE  /\ Chains(PostedLow(p, r))
         /\ PostedLow(p, r) \in [low : Chain, high : Chain]
         /\ Queue(PostedLow(p, r).low) = Append(Queue(p.low), r)
         /\ Sent(PostedLow(p, r)) = Append(Sent(p), r)
<1> DEFINE c == Posted(p.low, r)
           d == PostedLow(p, r)
<1>1. ChainOk(c) /\ Queue(c) = Append(Queue(p.low), r)
  BY PostedChain DEF Chains
<1>2. d.low = c /\ d.high = p.high /\ d = [low |-> c, high |-> p.high]
  BY DEF PostedLow
<1> HIDE DEF c, d
<1>3. Chains(d) /\ d \in [low : Chain, high : Chain]
  BY <1>1, <1>2 DEF Chains, ChainOk
<1> DEFINE lo == Queue(p.low)
           b  == Reverse(Queue(p.high))
<1>4. lo \in Seq(Cells) /\ b \in Seq(Cells) /\ Sent(p) = b \o lo
  BY SentIs, ReverseIs
<1>5. Sent(d) = b \o Append(lo, r)
  BY <1>1, <1>2, <1>3, SentIs
<1> HIDE DEF lo, b
<1>6. b \o Append(lo, r) = Append(b \o lo, r)
  BY <1>4
<1> QED
  BY <1>1, <1>2, <1>3, <1>4, <1>5, <1>6 DEF d, lo

-----------------------------------------------------------------------------
(* Counting references.                                                    *)

LEMMA DroppedOnce ==
  ASSUME NEW q, NEW r, \A i, j \in DOMAIN q : q[i] = r /\ q[j] = r => i = j
  PROVE  Dropped(q, r) = IF \E i \in DOMAIN q : q[i] = r THEN 1 ELSE 0
<1> DEFINE D == {i \in DOMAIN q : q[i] = r}
<1>1. CASE \E i \in DOMAIN q : q[i] = r
  <2>1. PICK i \in DOMAIN q : q[i] = r
    BY <1>1
  <2>2. D = {i}
    BY <2>1
  <2> QED
    BY <1>1, <2>2, FS_Singleton DEF Dropped
<1>2. CASE ~ \E i \in DOMAIN q : q[i] = r
  <2>1. D = {}
    BY <1>2
  <2> QED
    BY <1>2, <2>1, FS_EmptySet DEF Dropped
<1> QED
  BY <1>1, <1>2

LEMMA DroppedQueue ==
  ASSUME NEW q \in Seq(Cells), NoDup(q), NEW r
  PROVE  Dropped(q, r) = IF In(q, r) THEN 1 ELSE 0
<1>1. DOMAIN q = 1 .. Len(q)
  OBVIOUS
<1> QED
  BY <1>1, DroppedOnce DEF NoDup, In

(* The slots of both chains hold each cell that is to be sent once, and no *)
(* other.                                                                  *)
Slots(p) == p.low.slots \o p.high.slots

LEMMA SlotIsQueued ==
  ASSUME NEW p, Chains(p), NEW r \in Cells, NEW i \in DOMAIN Slots(p), Slots(p)[i] = r
  PROVE  LET n == Len(p.low.slots)
             h == Len(Queue(p.high))
             k == IF i <= n THEN h + i ELSE h - (i - n) + 1
         IN  /\ k \in 1 .. Len(Sent(p)) /\ Sent(p)[k] = r
             /\ i <= n => k > h
             /\ i > n => k <= h
             /\ n \in Nat /\ h \in Nat /\ i \in Nat
<1> DEFINE t == p.low.slots
           u == p.high.slots
           n == Len(t)
           hi == Queue(p.high)
           lo == Queue(p.low)
           h == Len(hi)
<1>0. /\ t \in Seq(Cells \cup {NULL}) /\ u \in Seq(Cells \cup {NULL})
      /\ \A j \in 1 .. Len(t) : t[j] # NULL <=> j <= p.low.nraw
      /\ \A j \in 1 .. Len(u) : u[j] # NULL <=> j <= p.high.nraw
      /\ p.low.nraw \in Nat /\ p.high.nraw \in Nat
  BY DEF Chains, ChainOk, Chain, Terminated
<1>1. /\ hi \in Seq(Cells) /\ lo \in Seq(Cells) /\ h = p.high.nraw /\ Len(lo) = p.low.nraw
      /\ \A j \in 1 .. p.high.nraw : hi[j] = u[j]
      /\ \A j \in 1 .. p.low.nraw : lo[j] = t[j]
  BY QueueIs DEF Chains
<1>2. /\ Len(Sent(p)) = h + Len(lo)
      /\ \A j \in 1 .. h : Sent(p)[j] = hi[h - j + 1]
      /\ \A j \in 1 .. Len(lo) : Sent(p)[h + j] = lo[j]
  BY SentIs
<1>3. /\ t \o u \in Seq(Cells \cup {NULL}) /\ Len(t \o u) = Len(t) + Len(u)
      /\ \A j \in 1 .. Len(t) + Len(u) : (t \o u)[j] = IF j <= Len(t) THEN t[j] ELSE u[j - Len(t)]
  <2>1. t \in Seq(Cells \cup {NULL}) /\ u \in Seq(Cells \cup {NULL})
    BY <1>0
  <2> HIDE DEF t, u
  <2> QED
    BY <2>1, ConcatProperties
<1>4. i \in 1 .. Len(t) + Len(u) /\ (IF i <= n THEN t[i] ELSE u[i - n]) = r
  <2>1. DOMAIN (t \o u) = 1 .. Len(t \o u)
    BY <1>3, LenProperties
  <2>2. i \in DOMAIN (t \o u) /\ (t \o u)[i] = r
    BY DEF Slots
  <2>3. i \in 1 .. Len(t) + Len(u)
    BY <1>3, <2>1, <2>2
  <2> QED
    BY <1>3, <2>2, <2>3
<1>5. n \in Nat /\ h \in Nat /\ Len(u) \in Nat /\ i \in Nat /\ r # NULL /\ Len(lo) \in Nat
  BY <1>0, <1>1, <1>4, CellAssumption
<1> HIDE DEF t, u, n, hi, lo, h
<1> USE DEF n
<1>6. CASE i <= n
  <2>1. t[i] = r /\ i \in 1 .. Len(t)
    BY <1>4, <1>5, <1>6
  <2>2. i \in 1 .. Len(lo) /\ lo[i] = r
    BY <2>1, <1>0, <1>1, <1>5
  <2>3. Sent(p)[h + i] = r /\ h + i \in 1 .. Len(Sent(p))
    BY <2>2, <1>2, <1>5
  <2> QED
    BY <2>2, <2>3, <1>5, <1>6 DEF h, hi, t
<1>7. CASE ~(i <= n)
  <2> DEFINE j == i - n
  <2>1. u[j] = r /\ j \in 1 .. Len(u)
    BY <1>4, <1>5, <1>7
  <2>2. j \in 1 .. h /\ hi[j] = r
    BY <2>1, <1>0, <1>1, <1>5
  <2>3. h - j + 1 \in 1 .. h /\ h - (h - j + 1) + 1 = j /\ h - j + 1 \in 1 .. Len(Sent(p))
    BY <2>2, <1>2, <1>5
  <2>4. Sent(p)[h - j + 1] = r
    <3> DEFINE k == h - j + 1
    <3>1. k \in 1 .. h /\ h - k + 1 = j
      BY <2>3
    <3> HIDE DEF k, j
    <3>2. Sent(p)[k] = r
      BY <3>1, <2>2, <1>2
    <3> QED
      BY <3>2 DEF k
  <2>5. h - (i - n) + 1 \in 1 .. Len(Sent(p)) /\ Sent(p)[h - (i - n) + 1] = r
        /\ h - (i - n) + 1 <= h /\ i > n
    BY <2>3, <2>4, <1>5, <1>7
  <2> QED
    BY <2>5, <1>5, <1>7 DEF h, hi, t
<1> QED
  BY <1>6, <1>7

LEMMA QueuedIsSlot ==
  ASSUME NEW p, Chains(p), NEW r \in Cells, In(Sent(p), r)
  PROVE  \E i \in DOMAIN Slots(p) : Slots(p)[i] = r
<1> DEFINE t == p.low.slots
           u == p.high.slots
           hi == Queue(p.high)
           lo == Queue(p.low)
           h == Len(hi)
<1>0. /\ t \in Seq(Cells \cup {NULL}) /\ u \in Seq(Cells \cup {NULL})
      /\ p.low.nraw \in Nat /\ p.high.nraw \in Nat
      /\ p.low.nraw < Len(t) /\ p.high.nraw < Len(u)
  BY DEF Chains, ChainOk, Chain, Terminated
<1>1. /\ hi \in Seq(Cells) /\ lo \in Seq(Cells) /\ h = p.high.nraw /\ Len(lo) = p.low.nraw
      /\ \A j \in 1 .. p.high.nraw : hi[j] = u[j]
      /\ \A j \in 1 .. p.low.nraw : lo[j] = t[j]
  BY QueueIs DEF Chains
<1>2. /\ Len(Sent(p)) = h + Len(lo)
      /\ \A j \in 1 .. h : Sent(p)[j] = hi[h - j + 1]
      /\ \A j \in 1 .. Len(lo) : Sent(p)[h + j] = lo[j]
  BY SentIs
<1>3. /\ t \o u \in Seq(Cells \cup {NULL}) /\ Len(t \o u) = Len(t) + Len(u)
      /\ \A j \in 1 .. Len(t) + Len(u) : (t \o u)[j] = IF j <= Len(t) THEN t[j] ELSE u[j - Len(t)]
  BY <1>0, ConcatProperties
<1>4. DOMAIN (t \o u) = 1 .. Len(t) + Len(u)
  BY <1>3, LenProperties
<1>5. h \in Nat /\ Len(lo) \in Nat /\ Len(t) \in Nat /\ Len(u) \in Nat
  BY <1>0, <1>1
<1>6. PICK k \in 1 .. Len(Sent(p)) : Sent(p)[k] = r
  BY DEF In
<1>7. Slots(p) = t \o u
  BY DEF Slots
<1> HIDE DEF t, u, hi, lo, h
<1>8. CASE k <= h
  <2> DEFINE j == h - k + 1
  <2>1. j \in 1 .. h /\ k \in 1 .. h
    BY <1>2, <1>5, <1>6, <1>8
  <2>2. hi[j] = r
    BY <2>1, <1>2, <1>6
  <2> HIDE DEF j
  <2>3. u[j] = r /\ j \in 1 .. Len(u)
    BY <2>1, <2>2, <1>0, <1>1, <1>5
  <2> DEFINE i == Len(t) + j
  <2>4. i \in 1 .. Len(t) + Len(u) /\ ~(i <= Len(t)) /\ i - Len(t) = j
    BY <2>3, <1>5
  <2> HIDE DEF i
  <2>5. (t \o u)[i] = r
    BY <2>3, <2>4, <1>3
  <2> QED
    BY <2>4, <2>5, <1>4, <1>7
<1>9. CASE ~(k <= h)
  <2> DEFINE j == k - h
  <2>1. j \in 1 .. Len(lo) /\ h + j = k
    BY <1>2, <1>5, <1>6, <1>9
  <2> HIDE DEF j
  <2>2. lo[j] = r
    BY <2>1, <1>2, <1>6
  <2>3. t[j] = r /\ j \in 1 .. Len(t)
    BY <2>1, <2>2, <1>0, <1>1, <1>5
  <2>4. j \in 1 .. Len(t) + Len(u) /\ j <= Len(t)
    BY <2>3, <1>5
  <2>5. (t \o u)[j] = r
    BY <2>3, <2>4, <1>3
  <2> QED
    BY <2>4, <2>5, <1>4, <1>7
<1> QED
  BY <1>8, <1>9

LEMMA DroppedSlots ==
  ASSUME NEW p, PoolOk(p), NEW r \in Cells
  PROVE  /\ Dropped(Slots(p), r) = IF In(Sent(p), r) THEN 1 ELSE 0
         /\ (\E i \in DOMAIN Slots(p) : Slots(p)[i] = r) <=> In(Sent(p), r)
<1>0. Chains(p) /\ NoDup(Sent(p))
  BY DEF PoolOk
<1>1. (\E i \in DOMAIN Slots(p) : Slots(p)[i] = r) <=> In(Sent(p), r)
  <2>1. ASSUME NEW i \in DOMAIN Slots(p), Slots(p)[i] = r PROVE In(Sent(p), r)
    <3> DEFINE k == IF i <= Len(p.low.slots) THEN Len(Queue(p.high)) + i
                    ELSE Len(Queue(p.high)) - (i - Len(p.low.slots)) + 1
    <3>1. k \in 1 .. Len(Sent(p)) /\ Sent(p)[k] = r
      BY <1>0, <2>1, SlotIsQueued
    <3> HIDE DEF k
    <3> QED
      BY <3>1 DEF In
  <2> QED
    BY <1>0, <2>1, QueuedIsSlot
<1>2. ASSUME NEW i \in DOMAIN Slots(p), NEW j \in DOMAIN Slots(p), Slots(p)[i] = r, Slots(p)[j] = r
      PROVE  i = j
  <2> DEFINE n == Len(p.low.slots)
             h == Len(Queue(p.high))
             k == IF i <= n THEN h + i ELSE h - (i - n) + 1
             l == IF j <= n THEN h + j ELSE h - (j - n) + 1
  <2>1. /\ k \in 1 .. Len(Sent(p)) /\ Sent(p)[k] = r
        /\ i <= n => k > h
        /\ i > n => k <= h
        /\ n \in Nat /\ h \in Nat /\ i \in Nat
    BY <1>0, <1>2, SlotIsQueued
  <2>2. /\ l \in 1 .. Len(Sent(p)) /\ Sent(p)[l] = r
        /\ j <= n => l > h
        /\ j > n => l <= h
        /\ j \in Nat
    BY <1>0, <1>2, SlotIsQueued
  <2>3. k = l
    <3> HIDE DEF k, l
    <3> QED
      BY <2>1, <2>2, <1>0 DEF NoDup
  <2> HIDE DEF n, h
  <2>4. k \in Int /\ l \in Int
    BY <2>1, <2>2
  <2>5. (i <= n <=> j <= n)
    <3> HIDE DEF k, l
    <3> QED
      BY <2>1, <2>2, <2>3, <2>4
  <2> QED
    BY <2>1, <2>2, <2>3, <2>5
<1> QED
  BY <1>1, <1>2, DroppedOnce

-----------------------------------------------------------------------------
(* What a client makes of a queue: Told, as a function of the cells.       *)

Views  == {OFF} \cup SUBSET All
Record == [live : BOOLEAN, ref : Int, ev : Event]

Tells(f, rw, v, rs, n) ==
  f = [i \in 0 .. n |-> IF i = 0 THEN v ELSE Apply(f[i - 1], rw[rs[i]].ev)]
Telling(rw, v, rs) == CHOOSE f : Tells(f, rw, v, rs, Len(rs))
Tell(rw, v, rs)    == Telling(rw, v, rs)[Len(rs)]

LEMMA ToldIsTell ==
  ASSUME NEW v, NEW rs
  PROVE  Told(v, rs) = Tell(raw, v, rs)
BY DEF Told, Tell, Telling, Tells

LEMMA TellsExist ==
  ASSUME NEW rw, NEW v, NEW rs \in Seq(Cells), NEW n \in 0 .. Len(rs)
  PROVE  \E f : Tells(f, rw, v, rs, n)
<1> DEFINE T == {m \in 0 .. Len(rs) : ~ \E f : Tells(f, rw, v, rs, m)}
<1>0. Len(rs) \in Nat
  OBVIOUS
<1> SUFFICES ASSUME T # {} PROVE FALSE
  OBVIOUS
<1>1. PICK m \in T : \A y \in T : m <= y
  <2>1. T \in SUBSET Nat
    BY <1>0
  <2> HIDE DEF T
  <2> QED
    BY <2>1, Least
<1>2. m \in 0 .. Len(rs) /\ ~ \E f : Tells(f, rw, v, rs, m)
  BY <1>1
<1>3. CASE m = 0
  <2>1. Tells([i \in 0 .. 0 |-> v], rw, v, rs, 0)
    BY DEF Tells
  <2> QED
    BY <1>2, <1>3, <2>1
<1>4. CASE m # 0
  <2>1. m - 1 \in 0 .. Len(rs) /\ m - 1 \notin T /\ m \in Nat
    BY <1>0, <1>1, <1>2, <1>4
  <2>2. PICK f : Tells(f, rw, v, rs, m - 1)
    BY <2>1
  <2> DEFINE g == [i \in 0 .. m |-> IF i = m THEN Apply(f[m - 1], rw[rs[m]].ev) ELSE f[i]]
  <2>3. ASSUME NEW i \in 0 .. m
        PROVE  g[i] = IF i = 0 THEN v ELSE Apply(g[i - 1], rw[rs[i]].ev)
    <3>1. CASE i = m
      <4>1. g[i] = Apply(f[m - 1], rw[rs[m]].ev) /\ g[i - 1] = f[m - 1] /\ i # 0
        BY <1>4, <2>1, <3>1
      <4> QED
        BY <3>1, <4>1
    <3>2. CASE i # m
      <4>1. i \in 0 .. m - 1 /\ g[i] = f[i] /\ (i # 0 => g[i - 1] = f[i - 1])
        BY <2>1, <3>2
      <4>2. f[i] = IF i = 0 THEN v ELSE Apply(f[i - 1], rw[rs[i]].ev)
        BY <2>2, <4>1 DEF Tells
      <4> QED
        BY <4>1, <4>2
    <3> QED
      BY <3>1, <3>2
  <2>4. g = [i \in 0 .. m |-> g[i]]
    OBVIOUS
  <2> HIDE DEF g
  <2>5. Tells(g, rw, v, rs, m)
    BY <2>3, <2>4 DEF Tells
  <2> QED
    BY <1>2, <2>5
<1> QED
  BY <1>3, <1>4

LEMMA TellingIs ==
  ASSUME NEW rw, NEW v, NEW rs \in Seq(Cells)
  PROVE  /\ Telling(rw, v, rs)[0] = v
         /\ \A i \in 1 .. Len(rs) :
              Telling(rw, v, rs)[i] = Apply(Telling(rw, v, rs)[i - 1], rw[rs[i]].ev)
<1>0. Len(rs) \in Nat /\ Len(rs) \in 0 .. Len(rs)
  OBVIOUS
<1>1. \E f : Tells(f, rw, v, rs, Len(rs))
  BY <1>0, TellsExist
<1> DEFINE f == Telling(rw, v, rs)
<1>2. Tells(f, rw, v, rs, Len(rs))
  BY <1>1 DEF Telling
<1> HIDE DEF f
<1>3. f[0] = v /\ \A i \in 1 .. Len(rs) : f[i] = Apply(f[i - 1], rw[rs[i]].ev)
  BY <1>0, <1>2 DEF Tells
<1> QED
  BY <1>3 DEF f

(* Two clients that are shown the same from some place on see the same.    *)
SameNews(rw, rs, a, rv, qs, n) ==
  /\ a \in Nat /\ n \in Nat /\ a + n <= Len(rs) /\ n <= Len(qs)
  /\ \A i \in 1 .. n : rw[rs[a + i]].ev = rv[qs[i]].ev

LEMMA TellSame ==
  ASSUME NEW rw, NEW rv, NEW v, NEW w, NEW rs \in Seq(Cells), NEW qs \in Seq(Cells),
         NEW a, NEW n, SameNews(rw, rs, a, rv, qs, n),
         Telling(rw, v, rs)[a] = w
  PROVE  Telling(rw, v, rs)[a + n] = Telling(rv, w, qs)[n]
<1> DEFINE f == Telling(rw, v, rs)
           g == Telling(rv, w, qs)
           T == {k \in 0 .. n : f[a + k] # g[k]}
<1>0. /\ a \in Nat /\ n \in Nat /\ a + n <= Len(rs) /\ n <= Len(qs)
      /\ Len(rs) \in Nat /\ Len(qs) \in Nat
      /\ \A i \in 1 .. n : rw[rs[a + i]].ev = rv[qs[i]].ev
  BY DEF SameNews
<1>1. /\ f[a] = w /\ g[0] = w
      /\ \A i \in 1 .. Len(rs) : f[i] = Apply(f[i - 1], rw[rs[i]].ev)
      /\ \A i \in 1 .. Len(qs) : g[i] = Apply(g[i - 1], rv[qs[i]].ev)
  BY TellingIs
<1> HIDE DEF f, g
<1>2. ASSUME T # {} PROVE FALSE
  <2>1. PICK m \in T : \A y \in T : m <= y
    <3>1. T \in SUBSET Nat
      BY <1>0
    <3> HIDE DEF T
    <3> QED
      BY <1>2, <3>1, Least
  <2>2. m \in 0 .. n /\ f[a + m] # g[m]
    BY <2>1
  <2>3. m # 0
    BY <2>2, <1>0, <1>1
  <2>4. m - 1 \in 0 .. n /\ m - 1 \notin T /\ m \in 1 .. n /\ m \in 1 .. Len(qs)
    BY <1>0, <2>1, <2>2, <2>3
  <2>5. f[a + (m - 1)] = g[m - 1]
    BY <2>4
  <2>6. a + m \in 1 .. Len(rs) /\ (a + m) - 1 = a + (m - 1)
    BY <1>0, <2>4
  <2>7. f[a + m] = Apply(f[a + (m - 1)], rw[rs[a + m]].ev)
    BY <1>1, <2>6
  <2>8. g[m] = Apply(g[m - 1], rv[qs[m]].ev)
    BY <1>1, <2>4
  <2> QED
    BY <2>2, <2>4, <2>5, <2>7, <2>8, <1>0
<1>3. f[a + n] = g[n]
  <2>1. n \in 0 .. n
    BY <1>0
  <2> QED
    BY <1>2, <2>1
<1> QED
  BY <1>3 DEF f, g

LEMMA TellNothing ==
  ASSUME NEW rw, NEW v, NEW e \in Seq(Cells), e = << >>
  PROVE  Tell(rw, v, e) = v
<1>1. Telling(rw, v, e)[0] = v
  BY TellingIs, ZenonT(60)
<1>2. Len(e) = 0
  OBVIOUS
<1> HIDE DEF Tell
<1> QED
  BY <1>1, <1>2 DEF Tell

(* Cells that are not in the queue do not matter.                          *)
LEMMA TellFrame ==
  ASSUME NEW rw, NEW rv, NEW v, NEW rs \in Seq(Cells),
         \A r \in Cells : In(rs, r) => rw[r].ev = rv[r].ev
  PROVE  Tell(rw, v, rs) = Tell(rv, v, rs)
<1>0. Len(rs) \in Nat /\ 0 + Len(rs) = Len(rs)
  OBVIOUS
<1>1. ASSUME NEW i \in 1 .. Len(rs) PROVE rw[rs[0 + i]].ev = rv[rs[i]].ev
  <2>1. rs[i] \in Cells /\ In(rs, rs[i]) /\ 0 + i = i
    BY DEF In
  <2> QED
    BY <2>1
<1>2. SameNews(rw, rs, 0, rv, rs, Len(rs))
  BY <1>0, <1>1 DEF SameNews
<1>3. Telling(rw, v, rs)[0] = v
  BY TellingIs
<1>4. Telling(rw, v, rs)[0 + Len(rs)] = Telling(rv, v, rs)[Len(rs)]
  <2> DEFINE a == 0
             n == Len(rs)
  <2>1. SameNews(rw, rs, a, rv, rs, n) /\ Telling(rw, v, rs)[a] = v
    BY <1>2, <1>3
  <2> HIDE DEF a, n
  <2>2. Telling(rw, v, rs)[a + n] = Telling(rv, v, rs)[n]
    BY <2>1, TellSame
  <2> QED
    BY <2>2 DEF a, n
<1> QED
  BY <1>0, <1>4 DEF Tell

LEMMA TellAppend ==
  ASSUME NEW rw, NEW v, NEW rs \in Seq(Cells), NEW r \in Cells
  PROVE  Tell(rw, v, Append(rs, r)) = Apply(Tell(rw, v, rs), rw[r].ev)
<1> DEFINE qs == Append(rs, r)
           n == Len(rs)
<1>0. n \in Nat /\ qs \in Seq(Cells) /\ Len(qs) = n + 1 /\ qs[n + 1] = r
      /\ \A i \in 1 .. n : qs[i] = rs[i]
  OBVIOUS
<1>1. n = Len(rs)
  OBVIOUS
<1> HIDE DEF qs, n
<1>2. SameNews(rw, qs, 0, rw, rs, n)
  BY <1>0, <1>1 DEF SameNews
<1>3. Telling(rw, v, qs)[0] = v
  BY <1>0, TellingIs
<1>4. Telling(rw, v, qs)[0 + n] = Telling(rw, v, rs)[n]
  <2> DEFINE a == 0
  <2>1. SameNews(rw, qs, a, rw, rs, n) /\ Telling(rw, v, qs)[a] = v
    BY <1>2, <1>3
  <2> HIDE DEF a
  <2>2. Telling(rw, v, qs)[a + n] = Telling(rw, v, rs)[n]
    BY <1>0, <2>1, TellSame
  <2> QED
    BY <2>2 DEF a
<1>5. n + 1 \in 1 .. Len(qs) /\ (n + 1) - 1 = n /\ 0 + n = n
  BY <1>0
<1>6. Telling(rw, v, qs)[n + 1] = Apply(Telling(rw, v, qs)[n], rw[r].ev)
  BY <1>0, <1>5, TellingIs
<1> QED
  BY <1>0, <1>1, <1>4, <1>5, <1>6 DEF Tell, qs

LEMMA TellCons ==
  ASSUME NEW rw, NEW v, NEW rs \in Seq(Cells), NEW r \in Cells
  PROVE  Tell(rw, v, <<r>> \o rs) = Tell(rw, Apply(v, rw[r].ev), rs)
<1> DEFINE qs == <<r>> \o rs
           n == Len(rs)
           w == Apply(v, rw[r].ev)
<1>0. n \in Nat /\ qs \in Seq(Cells) /\ Len(qs) = n + 1 /\ qs[1] = r
      /\ \A i \in 1 .. n : qs[1 + i] = rs[i]
  OBVIOUS
<1>1. n = Len(rs)
  OBVIOUS
<1> HIDE DEF qs, n
<1>2. SameNews(rw, qs, 1, rw, rs, n)
  BY <1>0, <1>1 DEF SameNews
<1>3. Telling(rw, v, qs)[1] = w
  <2>1. 1 \in 1 .. Len(qs) /\ 1 - 1 = 0
    BY <1>0
  <2> QED
    BY <2>1, <1>0, TellingIs
<1> HIDE DEF w
<1>4. Telling(rw, v, qs)[1 + n] = Telling(rw, w, rs)[n]
  <2> DEFINE a == 1
  <2>1. SameNews(rw, qs, a, rw, rs, n) /\ Telling(rw, v, qs)[a] = w
    BY <1>2, <1>3
  <2> HIDE DEF a
  <2>2. Telling(rw, v, qs)[a + n] = Telling(rw, w, rs)[n]
    BY <1>0, <2>1, TellSame
  <2> QED
    BY <2>2 DEF a
<1>5. 1 + n = n + 1
  BY <1>0
<1> QED
  BY <1>0, <1>1, <1>4, <1>5 DEF Tell, qs, w

(* A view stays a view.                                                    *)
LEMMA ApplyView ==
  ASSUME NEW v \in Views, NEW e \in Event
  PROVE  Apply(v, e) \in Views
BY OffAssumption DEF Apply, Views, Event, All

LEMMA TellView ==
  ASSUME NEW rw \in [Cells -> Record], NEW v \in Views, NEW rs \in Seq(Cells)
  PROVE  Tell(rw, v, rs) \in Views
<1> DEFINE f == Telling(rw, v, rs)
           T == {k \in 0 .. Len(rs) : f[k] \notin Views}
<1>0. Len(rs) \in Nat
  OBVIOUS
<1>1. f[0] = v /\ \A i \in 1 .. Len(rs) : f[i] = Apply(f[i - 1], rw[rs[i]].ev)
  BY TellingIs
<1> HIDE DEF f
<1>2. ASSUME T # {} PROVE FALSE
  <2>1. PICK m \in T : \A y \in T : m <= y
    <3>1. T \in SUBSET Nat
      BY <1>0
    <3> HIDE DEF T
    <3> QED
      BY <1>2, <3>1, Least
  <2>2. m \in 0 .. Len(rs) /\ f[m] \notin Views
    BY <2>1
  <2>3. m # 0
    BY <2>2, <1>1
  <2>4. m - 1 \in 0 .. Len(rs) /\ m - 1 \notin T /\ m \in 1 .. Len(rs)
    BY <1>0, <2>1, <2>2, <2>3
  <2>5. f[m - 1] \in Views
    BY <2>4
  <2>6. rw[rs[m]].ev \in Event
    <3>1. rw[rs[m]] \in Record
      BY <2>4
    <3> QED
      BY <3>1 DEF Record
  <2>7. f[m] = Apply(f[m - 1], rw[rs[m]].ev)
    BY <1>1, <2>4
  <2> QED
    BY <2>2, <2>5, <2>6, <2>7, ApplyView
<1>3. f[Len(rs)] \in Views
  <2>1. Len(rs) \in 0 .. Len(rs)
    BY <1>0
  <2> QED
    BY <1>2, <2>1
<1> QED
  BY <1>3 DEF f, Tell

(* Two views that differ at most in one user go on to do so.               *)
Apart(v, w, o) == v = w \/ (v # OFF /\ w # OFF /\ v \ {o} = w \ {o})

LEMMA ApplyApart ==
  ASSUME NEW v \in Views, NEW w \in Views, NEW o, Apart(v, w, o), NEW e \in Event
  PROVE  Apart(Apply(v, e), Apply(w, e), o)
<1>1. CASE v = w
  BY <1>1 DEF Apart
<1>2. CASE v # OFF /\ w # OFF /\ v \ {o} = w \ {o}
  <2>0. v \in SUBSET All /\ w \in SUBSET All
    BY <1>2 DEF Views
  <2>1. CASE e.t = "CHANNEL"
    BY <2>1 DEF Apart, Apply
  <2>2. CASE e.t = "DATA"
    BY <1>2, <2>2 DEF Apart, Apply
  <2>3. CASE e.t = "JOIN" /\ e.u \in All
    <3>1. Apply(v, e) = v \cup {e.u} /\ Apply(w, e) = w \cup {e.u}
      BY <1>2, <2>3 DEF Apply
    <3>2. v \cup {e.u} # OFF /\ w \cup {e.u} # OFF
      BY <2>0, <2>3, OffAssumption DEF All
    <3>3. (v \cup {e.u}) \ {o} = (w \cup {e.u}) \ {o}
      BY <1>2
    <3> QED
      BY <3>1, <3>2, <3>3 DEF Apart
  <2>4. CASE e.t = "LEFT" /\ e.u \in All
    <3>1. CASE e.u = Me
      BY <1>2, <2>4, <3>1 DEF Apart, Apply
    <3>2. CASE e.u # Me
      <4>1. Apply(v, e) = v \ {e.u} /\ Apply(w, e) = w \ {e.u}
        BY <1>2, <2>4, <3>2 DEF Apply
      <4>2. v \ {e.u} # OFF /\ w \ {e.u} # OFF
        BY <2>0, <2>4, OffAssumption DEF All
      <4>3. (v \ {e.u}) \ {o} = (w \ {e.u}) \ {o}
        BY <1>2
      <4> QED
        BY <4>1, <4>2, <4>3 DEF Apart
    <3> QED
      BY <3>1, <3>2
  <2> QED
    BY <2>1, <2>2, <2>3, <2>4 DEF Event
<1> QED
  BY <1>1, <1>2 DEF Apart

LEMMA TellApart ==
  ASSUME NEW rw \in [Cells -> Record], NEW v \in Views, NEW w \in Views, NEW o,
         Apart(v, w, o), NEW rs \in Seq(Cells)
  PROVE  Apart(Tell(rw, v, rs), Tell(rw, w, rs), o)
<1> DEFINE f == Telling(rw, v, rs)
           g == Telling(rw, w, rs)
           Good(k) == f[k] \in Views /\ g[k] \in Views /\ Apart(f[k], g[k], o)
           T == {k \in 0 .. Len(rs) : ~ Good(k)}
<1>0. Len(rs) \in Nat
  OBVIOUS
<1>1. /\ f[0] = v /\ \A i \in 1 .. Len(rs) : f[i] = Apply(f[i - 1], rw[rs[i]].ev)
      /\ g[0] = w /\ \A i \in 1 .. Len(rs) : g[i] = Apply(g[i - 1], rw[rs[i]].ev)
  BY TellingIs
<1> HIDE DEF f, g
<1>2. ASSUME T # {} PROVE FALSE
  <2>1. PICK m \in T : \A y \in T : m <= y
    <3>1. T \in SUBSET Nat
      BY <1>0
    <3> HIDE DEF T
    <3> QED
      BY <1>2, <3>1, Least
  <2>2. m \in 0 .. Len(rs) /\ ~ Good(m)
    BY <2>1
  <2>3. m # 0
    BY <2>2, <1>1
  <2>4. m - 1 \in 0 .. Len(rs) /\ m - 1 \notin T /\ m \in 1 .. Len(rs)
    BY <1>0, <2>1, <2>2, <2>3
  <2>5. Good(m - 1)
    BY <2>4
  <2>6. rw[rs[m]].ev \in Event
    <3>1. rw[rs[m]] \in Record
      BY <2>4
    <3> QED
      BY <3>1 DEF Record
  <2>7. f[m] = Apply(f[m - 1], rw[rs[m]].ev) /\ g[m] = Apply(g[m - 1], rw[rs[m]].ev)
    BY <1>1, <2>4
  <2> QED
    BY <2>2, <2>5, <2>6, <2>7, ApplyView, ApplyApart
<1>3. Good(Len(rs))
  <2>1. Len(rs) \in 0 .. Len(rs)
    BY <1>0
  <2> QED
    BY <1>2, <2>1
<1> QED
  BY <1>3 DEF f, g, Tell


-----------------------------------------------------------------------------
(* One subuser.  Its client catches up with T, the member list of now, and *)
(* T is Settled: what is queued at low priority does not change it.        *)

Pools == [low : Chain, high : Chain]
Heap  == [Cells -> Record]

Settled(rw, p, T)  == Tell(rw, T, Queue(p.low)) = T
SubOk(rw, p, v, T) == /\ PoolOk(p)
                      /\ Tell(rw, v, Sent(p)) = T
                      /\ Settled(rw, p, T)

LEMMA LowIsSent ==
  ASSUME NEW p, Chains(p), NEW r, In(Queue(p.low), r)
  PROVE  In(Sent(p), r)
<1> DEFINE hi == Queue(p.high)
           lo == Queue(p.low)
<1>1. /\ hi \in Seq(Cells) /\ lo \in Seq(Cells)
      /\ Len(Sent(p)) = Len(hi) + Len(lo)
      /\ \A i \in 1 .. Len(lo) : Sent(p)[Len(hi) + i] = lo[i]
  BY SentIs
<1>2. PICK i \in 1 .. Len(lo) : lo[i] = r
  BY DEF In
<1> HIDE DEF hi, lo
<1>3. Len(hi) + i \in 1 .. Len(Sent(p))
  BY <1>1
<1> QED
  BY <1>1, <1>2, <1>3 DEF In

(* Cells that are not queued for a subuser do not matter to it.            *)
SameFor(rw, rv, p) == \A x \in Cells : In(Sent(p), x) => rw[x].ev = rv[x].ev

LEMMA SubFrame ==
  ASSUME NEW rw, NEW rv, NEW p, NEW v, NEW T, SubOk(rw, p, v, T), SameFor(rw, rv, p)
  PROVE  SubOk(rv, p, v, T)
<1>1. Chains(p)
  BY DEF SubOk, PoolOk
<1>2. Sent(p) \in Seq(Cells) /\ Queue(p.low) \in Seq(Cells)
  BY <1>1, SentIs
<1>3. Tell(rw, v, Sent(p)) = Tell(rv, v, Sent(p))
  BY <1>2, TellFrame DEF SameFor
<1>4. \A x \in Cells : In(Queue(p.low), x) => rw[x].ev = rv[x].ev
  BY <1>1, LowIsSent DEF SameFor
<1>5. Tell(rw, T, Queue(p.low)) = Tell(rv, T, Queue(p.low))
  BY <1>2, <1>4, TellFrame
<1> QED
  BY <1>3, <1>5 DEF SubOk, Settled

(* The raws that are posted, and what each makes of the member list.       *)
News(T, ev, T2) ==
  \/ ev.t = "DATA" /\ T2 = T
  \/ ev.t = "CHANNEL" /\ T2 = ev.m
  \/ ev.t = "LEFT" /\ ev.u = Me /\ T2 = OFF
  \/ ev.t = "JOIN" /\ T # OFF /\ T2 = T \cup {ev.u}
  \/ ev.t = "LEFT" /\ ev.u # Me /\ T # OFF /\ T2 = T \ {ev.u}

LEMMA NewsApplied ==
  ASSUME NEW T \in Views, NEW T2 \in Views, NEW ev \in Event, News(T, ev, T2)
  PROVE  Apply(T, ev) = T2
BY DEF News, Apply

LEMMA NewsSettled ==
  ASSUME NEW T \in Views, NEW T2 \in Views, NEW ev \in Event, News(T, ev, T2),
         NEW rw \in Heap, NEW q \in Seq(Cells), Tell(rw, T, q) = T
  PROVE  Apply(Tell(rw, T2, q), ev) = T2
<1> DEFINE w == Tell(rw, T2, q)
<1>0. w \in Views
  BY TellView DEF Heap
<1>1. CASE ev.t = "DATA" /\ T2 = T
  BY <1>1 DEF Apply
<1>2. CASE ev.t = "CHANNEL" /\ T2 = ev.m
  BY <1>2 DEF Apply
<1>3. CASE ev.t = "LEFT" /\ ev.u = Me /\ T2 = OFF
  BY <1>3 DEF Apply
<1>4. CASE ev.t = "JOIN" /\ T # OFF /\ T2 = T \cup {ev.u}
  <2>1. T2 # OFF /\ Apart(T2, T, ev.u)
    <3>1. T \in SUBSET All /\ ev.u \in All
      BY <1>4 DEF Views, Event
    <3>2. T2 # OFF
      BY <1>4, <3>1, OffAssumption DEF All
    <3> QED
      BY <1>4, <3>2 DEF Apart
  <2>2. Apart(w, T, ev.u)
    BY <2>1, TellApart DEF Heap
  <2> HIDE DEF w
  <2>3. w # OFF /\ w \cup {ev.u} = T \cup {ev.u}
    BY <1>4, <2>2 DEF Apart
  <2> QED
    BY <1>4, <2>3 DEF Apply, w
<1>5. CASE ev.t = "LEFT" /\ ev.u # Me /\ T # OFF /\ T2 = T \ {ev.u}
  <2>1. T2 # OFF /\ Apart(T2, T, ev.u)
    <3>1. T \in SUBSET All /\ ev.u \in All
      BY <1>5 DEF Views, Event
    <3>2. T2 # OFF
      BY <1>5, <3>1, OffAssumption DEF All
    <3> QED
      BY <1>5, <3>2 DEF Apart
  <2>2. Apart(w, T, ev.u)
    BY <2>1, TellApart DEF Heap
  <2> HIDE DEF w
  <2>3. w # OFF /\ w \ {ev.u} = T \ {ev.u}
    BY <1>5, <2>2 DEF Apart
  <2> QED
    BY <1>5, <2>3 DEF Apply, w
<1> QED
  BY <1>1, <1>2, <1>3, <1>4, <1>5 DEF News

(* Posting a raw to a subuser moves its client on to the new list.         *)
Forged(rw, rv, r, ev) == rv[r].ev = ev /\ \A x \in Cells : x # r => rw[x].ev = rv[x].ev

LEMMA SubPost ==
  ASSUME NEW rw \in Heap, NEW rv \in Heap, NEW p \in Pools, NEW v \in Views,
         NEW T \in Views, NEW T2 \in Views, SubOk(rw, p, v, T),
         NEW r \in Cells, ~In(Sent(p), r), NEW ev \in Event, Forged(rw, rv, r, ev),
         News(T, ev, T2)
  PROVE  SubOk(rv, PostedLow(p, r), v, T2)
<1> DEFINE d  == PostedLow(p, r)
           q  == Sent(p)
           lo == Queue(p.low)
<1>1. Chains(p) /\ NoDup(q)
  BY DEF SubOk, PoolOk
<1>2. q \in Seq(Cells) /\ lo \in Seq(Cells)
  BY <1>1, SentIs
<1>3. Chains(d) /\ Queue(d.low) = Append(lo, r) /\ Sent(d) = Append(q, r)
  BY <1>1, SentPosted DEF Pools
<1>4. SameFor(rw, rv, p)
  BY DEF SameFor, Forged
<1>5. SubOk(rv, p, v, T)
  BY <1>4, SubFrame
<1>6. Tell(rv, v, q) = T /\ Tell(rv, T, lo) = T /\ rv[r].ev = ev
  BY <1>5 DEF SubOk, Settled, Forged
<1> HIDE DEF d, q, lo
<1>7. Tell(rv, v, Append(q, r)) = T2
  BY <1>2, <1>6, TellAppend, NewsApplied
<1>8. Tell(rv, T2, Append(lo, r)) = T2
  BY <1>2, <1>6, TellAppend, NewsSettled
<1>9. NoDup(Append(q, r))
  BY <1>1, <1>2, AppendedQueue DEF q
<1> QED
  BY <1>3, <1>7, <1>8, <1>9 DEF SubOk, Settled, PoolOk, d


-----------------------------------------------------------------------------
(* The invariant.                                                          *)

Target(mb)       == IF Me \in mb THEN mb ELSE OFF
Having(po, L, r) == {s \in L : In(Sent(po[s]), r)}
CountOk(c, H) ==
  /\ c.live <=> H # {}
  /\ c.live => (c.ref = Cardinality(H) \/ (c.ref = 0 /\ Cardinality(H) = 1))

Counted(rw, po, L)       == \A r \in Cells : CountOk(rw[r], Having(po, L, r))
Clients(rw, po, vw, L, T) == \A s \in L : SubOk(rw, po[s], vw[s], T)
ListOk == subs # << >> /\ NoDup(subs) /\ nsub = Len(subs)

QInv ==
  /\ TypeOK
  /\ ListOk
  /\ Clients(raw, pool, view, Live, Target(members))
  /\ Counted(raw, pool, Live)

LEMMA LiveFinite ==
  ASSUME NEW q \in Seq(Subs)
  PROVE  ToSet(q) \subseteq Subs /\ IsFiniteSet(ToSet(q))
<1> DEFINE n == Len(q)
<1>1. n \in Nat /\ DOMAIN q = 1 .. n /\ \A i \in 1 .. n : q[i] \in Subs
  OBVIOUS
<1>2. IsFiniteSet(1 .. n)
  <2>1. 1 \in Int /\ n \in Int
    BY <1>1
  <2> HIDE DEF n
  <2> QED
    BY <2>1, FS_Interval
<1>3. q \in Surjection(1 .. n, ToSet(q))
  BY <1>1 DEF Surjection, ToSet
<1>4. IsFiniteSet(ToSet(q))
  BY <1>2, <1>3, FS_Surjection
<1> QED
  BY <1>1, <1>4 DEF ToSet

LEMMA TargetView ==
  ASSUME NEW mb \in SUBSET All
  PROVE  Target(mb) \in Views
BY DEF Target, Views

(* A raw that is free is in no queue.                                      *)
LEMMA FreeUnqueued ==
  ASSUME NEW L, Counted(raw, pool, L), NEW r \in Cells, ~raw[r].live, NEW s \in L
  PROVE  ~In(Sent(pool[s]), r)
<1>1. Having(pool, L, r) = {}
  BY DEF Counted, CountOk
<1> QED
  BY <1>1 DEF Having

(* Posting a raw r to the subusers S, with a reference for each.           *)
Post(S, r, ev, k) ==
  /\ raw' = forge_raw(raw, r, ev, k)
  /\ pool' = Low(S, r)

LEMMA PostPools ==
  ASSUME QInv, NEW S \in SUBSET Live, NEW r \in Cells, NEW ev, NEW k, Post(S, r, ev, k)
  PROVE  /\ \A s \in Live : pool[s] \in Pools /\ Chains(pool[s]) /\ Sent(pool[s]) \in Seq(Cells)
         /\ \A s \in S : pool'[s] = PostedLow(pool[s], r) /\ pool'[s] \in Pools
         /\ \A s \in S : Sent(pool'[s]) = Append(Sent(pool[s]), r)
         /\ \A s \in Subs \ S : pool'[s] = pool[s]
         /\ pool' \in [Subs -> Pools]
<1>1. pool \in [Subs -> Pools] /\ Live \subseteq Subs
  BY LiveFinite DEF QInv, TypeOK, Pools, Live
<1>2. \A s \in Live : Chains(pool[s])
  BY DEF QInv, Clients, SubOk, PoolOk
<1>3. \A s \in Live : Sent(pool[s]) \in Seq(Cells)
  BY <1>2, SentIs
<1>4. \A s \in S : pool'[s] = PostedLow(pool[s], r)
  BY <1>1 DEF Post, Low
<1>5. \A s \in S : PostedLow(pool[s], r) \in Pools /\ Sent(PostedLow(pool[s], r)) = Append(Sent(pool[s]), r)
  BY <1>1, <1>2, SentPosted DEF Pools
<1>6. \A s \in Subs \ S : pool'[s] = pool[s]
  BY DEF Post, Low
<1>7. pool' = [s \in Subs |-> pool'[s]]
  BY DEF Post, Low
<1>8. \A s \in Subs : pool'[s] \in Pools
  BY <1>1, <1>4, <1>5, <1>6
<1> QED
  BY <1>1, <1>2, <1>3, <1>4, <1>5, <1>6, <1>7, <1>8

LEMMA PostCounted ==
  ASSUME QInv, NEW S \in SUBSET Live, S # {}, NEW r \in Cells, ~raw[r].live,
         NEW ev, NEW k, k = Cardinality(S) \/ (k = 0 /\ Cardinality(S) = 1),
         Post(S, r, ev, k)
  PROVE  Counted(raw', pool', Live)
<1>0. Counted(raw, pool, Live) /\ raw \in [Cells -> Record] /\ Live \subseteq Subs
  BY LiveFinite DEF QInv, TypeOK, Record, Live
<1>1. /\ \A s \in Live : Sent(pool[s]) \in Seq(Cells)
      /\ \A s \in S : Sent(pool'[s]) = Append(Sent(pool[s]), r)
      /\ \A s \in Live \ S : pool'[s] = pool[s]
  BY <1>0, PostPools
<1>2. ASSUME NEW s \in S
      PROVE  \A x : In(Sent(pool'[s]), x) <=> In(Sent(pool[s]), x) \/ x = r
  <2> DEFINE q == Sent(pool[s])
  <2>1. q \in Seq(Cells) /\ Sent(pool'[s]) = Append(q, r)
    BY <1>1
  <2> HIDE DEF q
  <2>2. \A x : In(Append(q, r), x) <=> In(q, x) \/ x = r
    BY <2>1, AppendedQueue
  <2> QED
    BY <2>1, <2>2 DEF q
<1>3. \A s \in Live : ~In(Sent(pool[s]), r)
  BY <1>0, FreeUnqueued
<1>4. Having(pool', Live, r) = S
  BY <1>1, <1>2, <1>3 DEF Having
<1>5. ASSUME NEW x \in Cells, x # r PROVE Having(pool', Live, x) = Having(pool, Live, x)
  BY <1>1, <1>2, <1>5 DEF Having
<1>6. raw'[r].live /\ raw'[r].ref = k /\ \A x \in Cells \ {r} : raw'[x] = raw[x]
  BY <1>0 DEF Post, forge_raw
<1>7. CountOk(raw'[r], S)
  BY <1>6 DEF CountOk
<1>8. ASSUME NEW x \in Cells PROVE CountOk(raw'[x], Having(pool', Live, x))
  BY <1>0, <1>4, <1>5, <1>6, <1>7 DEF Counted
<1> QED
  BY <1>8 DEF Counted

LEMMA PostClients ==
  ASSUME QInv, NEW S \in SUBSET Live, NEW r \in Cells, ~raw[r].live,
         NEW ev \in Event, NEW k \in Int, Post(S, r, ev, k),
         NEW T \in Views, News(Target(members), ev, T),
         S = Live \/ T = Target(members)
  PROVE  Clients(raw', pool', view, Live, T) /\ raw' \in Heap
<1>0. /\ Counted(raw, pool, Live) /\ raw \in Heap /\ Live \subseteq Subs
      /\ view \in [Subs -> Views] /\ Target(members) \in Views
      /\ Clients(raw, pool, view, Live, Target(members))
  BY LiveFinite, TargetView DEF QInv, TypeOK, Record, Live, Heap, Views
<1>1. raw' \in Heap
  BY <1>0 DEF Post, forge_raw, Heap, Record
<1>2. Forged(raw, raw', r, ev)
  BY <1>0 DEF Post, forge_raw, Heap, Forged
<1>3. \A s \in Live : ~In(Sent(pool[s]), r) /\ SubOk(raw, pool[s], view[s], Target(members))
  BY <1>0, FreeUnqueued DEF Clients
<1>4. /\ \A s \in Live : pool[s] \in Pools
      /\ \A s \in S : pool'[s] = PostedLow(pool[s], r)
      /\ \A s \in Subs \ S : pool'[s] = pool[s]
  BY PostPools
<1>5. ASSUME NEW s \in S PROVE SubOk(raw', pool'[s], view[s], T)
  <2>1. s \in Live /\ pool[s] \in Pools /\ view[s] \in Views /\ pool'[s] = PostedLow(pool[s], r)
    BY <1>0, <1>4
  <2> QED
    BY <1>0, <1>1, <1>2, <1>3, <2>1, SubPost
<1>6. ASSUME NEW s \in Live \ S PROVE SubOk(raw', pool'[s], view[s], T)
  <2>1. pool'[s] = pool[s] /\ T = Target(members)
    BY <1>0, <1>4
  <2>2. SameFor(raw, raw', pool[s])
    BY <1>2, <1>3 DEF Forged, SameFor
  <2> QED
    BY <1>3, <2>1, <2>2, SubFrame
<1> QED
  BY <1>1, <1>5, <1>6 DEF Clients


LEMMA PostStep ==
  ASSUME QInv, NEW S \in SUBSET Live, S # {}, NEW r \in Cells, ~raw[r].live,
         NEW ev \in Event, NEW k \in Int,
         k = Cardinality(S) \/ (k = 0 /\ Cardinality(S) = 1), Post(S, r, ev, k),
         UNCHANGED <<subs, nsub, view>>, members' \subseteq All,
         News(Target(members), ev, Target(members')),
         S = Live \/ Target(members') = Target(members)
  PROVE  QInv'
<1>1. Target(members') \in Views
  BY TargetView
<1>2. Live' = Live /\ ListOk'
  BY DEF Live, QInv, ListOk
<1>3. Counted(raw', pool', Live)
  BY PostCounted
<1>4. Clients(raw', pool', view, Live, Target(members')) /\ raw' \in Heap
  BY <1>1, PostClients
<1>5. pool' \in [Subs -> Pools]
  BY PostPools
<1>6. TypeOK'
  BY <1>4, <1>5 DEF QInv, TypeOK, Heap, Record, Pools
<1> QED
  BY <1>2, <1>3, <1>4, <1>6 DEF QInv

(* post_raw() to every subuser.                                            *)
LEMMA PostAllStep ==
  ASSUME QInv, NEW ev \in Event, post_raw(ev),
         UNCHANGED <<subs, nsub, view>>, members' \subseteq All,
         News(Target(members), ev, Target(members'))
  PROVE  QInv'
<1>1. Fresh \in Cells /\ ~raw[Fresh].live
  BY DEF post_raw, Fresh, Free
<1>2. subs \in Seq(Subs) /\ subs # << >>
  BY DEF QInv, TypeOK, ListOk
<1>3. Live # {}
  BY <1>2 DEF Live, ToSet
<1>4. Cardinality(Live) \in Int
  <2>1. IsFiniteSet(Live)
    BY <1>2, LiveFinite DEF Live
  <2> QED
    BY <2>1, FS_CardinalityType
<1>5. Post(Live, Fresh, ev, Cardinality(Live))
  BY DEF Post, post_raw
<1> DEFINE S == Live
           k == Cardinality(Live)
           r == Fresh
<1>6. /\ S \in SUBSET Live /\ S # {} /\ S = Live /\ k = Cardinality(S) /\ k \in Int
      /\ r \in Cells /\ ~raw[r].live /\ Post(S, r, ev, k)
  BY <1>1, <1>3, <1>4, <1>5
<1> HIDE DEF S, k, r
<1> QED
  BY <1>6, PostStep

LEMMA ChannelStep ==
  ASSUME QInv, NEW o \in Others, OtherJoin(o) \/ OtherLeft(o)
  PROVE  QInv'
<1>0. /\ members \subseteq All /\ o \in All /\ o # Me /\ members' \subseteq All
      /\ UNCHANGED <<subs, nsub, view>>
      /\ Me \in members' <=> Me \in members
  BY MeAssumption DEF QInv, TypeOK, All, OtherJoin, OtherLeft
<1>1. CASE Me \notin members
  <2>1. UNCHANGED <<raw, pool>> /\ Target(members') = Target(members)
    BY <1>0, <1>1 DEF OtherJoin, OtherLeft, Target
  <2>2. Live' = Live
    BY <1>0 DEF Live
  <2>3. TypeOK' /\ ListOk'
    BY <1>0, <2>1 DEF QInv, TypeOK, ListOk
  <2> QED
    BY <1>0, <2>1, <2>2, <2>3 DEF QInv
<1>2. CASE Me \in members
  <2>0. Target(members) = members /\ Target(members') = members' /\ members # OFF
    BY <1>0, <1>2, OffAssumption DEF Target, All
  <2>1. CASE OtherJoin(o)
    <3> DEFINE ev == [t |-> "JOIN", u |-> o]
    <3>1. ev \in Event /\ post_raw(ev)
      BY <1>0, <1>2, <2>1 DEF OtherJoin, Event
    <3>2. News(Target(members), ev, Target(members'))
      BY <2>0, <2>1 DEF OtherJoin, News
    <3> HIDE DEF ev
    <3> QED
      BY <1>0, <3>1, <3>2, PostAllStep
  <2>2. CASE OtherLeft(o)
    <3> DEFINE ev == [t |-> "LEFT", u |-> o]
    <3>1. ev \in Event /\ post_raw(ev)
      BY <1>0, <1>2, <2>2 DEF OtherLeft, Event
    <3>2. News(Target(members), ev, Target(members'))
      BY <1>0, <2>0, <2>2 DEF OtherLeft, News
    <3> HIDE DEF ev
    <3> QED
      BY <1>0, <3>1, <3>2, PostAllStep
  <2> QED
    BY <2>1, <2>2
<1> QED
  BY <1>1, <1>2

LEMMA MeStep ==
  ASSUME QInv, MeJoin \/ MeLeft
  PROVE  QInv'
<1>0. /\ members \subseteq All /\ Me \in All /\ members' \subseteq All
      /\ UNCHANGED <<subs, nsub, view>>
  BY DEF QInv, TypeOK, All, MeJoin, MeLeft
<1>1. CASE MeJoin
  <2> DEFINE ev == [t |-> "CHANNEL", m |-> members']
  <2>1. ev \in Event /\ post_raw(ev)
    BY <1>0, <1>1 DEF MeJoin, Event
  <2>2. News(Target(members), ev, Target(members'))
    BY <1>1 DEF MeJoin, News, Target
  <2> HIDE DEF ev
  <2> QED
    BY <1>0, <2>1, <2>2, PostAllStep
<1>2. CASE MeLeft
  <2> DEFINE ev == [t |-> "LEFT", u |-> Me]
  <2>1. ev \in Event /\ post_raw(ev)
    BY <1>0, <1>2 DEF MeLeft, Event
  <2>2. News(Target(members), ev, Target(members'))
    BY <1>2 DEF MeLeft, News, Target
  <2> HIDE DEF ev
  <2> QED
    BY <1>0, <2>1, <2>2, PostAllStep
<1> QED
  BY <1>1, <1>2

LEMMA DataStep ==
  ASSUME QInv, NEW s \in Subs, PostOne(s) \/ SendFrom(s)
  PROVE  QInv'
<1> DEFINE r == Fresh
<1>0. /\ r \in Cells /\ ~raw[r].live /\ s \in Live
      /\ UNCHANGED <<subs, nsub, members, view>>
  BY DEF PostOne, SendFrom, Fresh, Free
<1>1. Data \in Event /\ members' \subseteq All
      /\ Target(members') = Target(members) /\ News(Target(members), Data, Target(members'))
  BY <1>0 DEF Data, Event, News, QInv, TypeOK
<1>2. IsFiniteSet(Live)
  BY LiveFinite DEF QInv, TypeOK, Live
<1>3. CASE PostOne(s)
  <2> DEFINE S == {s}
             k == 0
  <2>1. S \in SUBSET Live /\ S # {} /\ k \in Int /\ k = 0 /\ Post(S, r, Data, k)
    BY <1>0, <1>3 DEF Post, PostOne
  <2>2. Cardinality(S) = 1
    BY FS_Singleton
  <2> HIDE DEF S, k, r
  <2> QED
    BY <1>0, <1>1, <2>1, <2>2, PostStep
<1>4. CASE SendFrom(s)
  <2> DEFINE S == Live \ {s}
             k == Cardinality(Live \ {s})
  <2>1. S # {}
    <3>1. subs \in Seq(Subs) /\ Len(subs) > 1 /\ NoDup(subs)
      BY <1>4 DEF SendFrom, Copies, QInv, TypeOK, ListOk
    <3>2. 1 \in 1 .. Len(subs) /\ 2 \in 1 .. Len(subs) /\ DOMAIN subs = 1 .. Len(subs)
      BY <3>1
    <3>3. subs[1] # subs[2]
      BY <3>1, <3>2 DEF NoDup
    <3>4. subs[1] \in Live /\ subs[2] \in Live
      BY <3>2 DEF Live, ToSet
    <3> QED
      BY <3>3, <3>4
  <2>2. k \in Int
    BY <1>2, FS_RemoveElement, FS_CardinalityType
  <2>3. S \in SUBSET Live /\ k = Cardinality(S) /\ Post(S, r, Data, k)
    BY <1>4 DEF Post, SendFrom
  <2> HIDE DEF S, k, r
  <2> QED
    BY <1>0, <1>1, <2>1, <2>2, <2>3, PostStep
<1> QED
  BY <1>3, <1>4


-----------------------------------------------------------------------------
(* Releasing: free_raw() for each raw queued for the subuser s, when its   *)
(* queue is sent or the subuser closed.                                    *)

Release(s, rs, L) ==
  /\ \A r \in Cells : Dropped(rs, r) = IF In(Sent(pool[s]), r) THEN 1 ELSE 0
  /\ raw' = Released(raw, rs)
  /\ \A r \in Cells : Having(pool', L, r) = Having(pool, Live, r) \ {s}

LEMMA ReleaseOne ==
  ASSUME NEW c \in Record, NEW H, IsFiniteSet(H), NEW s \in H, CountOk(c, H)
  PROVE  IF c.ref - 1 <= 0
         THEN CountOk([live |-> FALSE, ref |-> 0, ev |-> Data], H \ {s})
         ELSE CountOk([c EXCEPT !.ref = @ - 1], H \ {s})
<1> DEFINE n == Cardinality(H)
<1>1. /\ n \in Nat /\ Cardinality(H \ {s}) = n - 1 /\ IsFiniteSet(H \ {s})
  BY FS_CardinalityType, FS_RemoveElement
<1>2. n - 1 = 0 <=> H \ {s} = {}
  BY <1>1, FS_EmptySet
<1>3. n # 0
  BY FS_EmptySet
<1>4. c.live /\ (c.ref = n \/ (c.ref = 0 /\ n = 1)) /\ c.ref \in Int
  BY DEF CountOk, Record
<1> HIDE DEF n
<1>5. CASE c.ref - 1 <= 0
  <2>1. H \ {s} = {}
    BY <1>1, <1>2, <1>3, <1>4, <1>5
  <2> QED
    BY <1>5, <2>1 DEF CountOk
<1>6. CASE ~(c.ref - 1 <= 0)
  <2> DEFINE d == [c EXCEPT !.ref = @ - 1]
  <2>1. c.ref = n /\ H \ {s} # {}
    BY <1>1, <1>2, <1>3, <1>4, <1>6
  <2>2. d.live /\ d.ref = n - 1
    BY <1>4, <2>1 DEF Record
  <2> HIDE DEF d
  <2>3. CountOk(d, H \ {s})
    BY <1>1, <2>1, <2>2 DEF CountOk
  <2> QED
    BY <1>6, <2>3 DEF d
<1> QED
  BY <1>5, <1>6

LEMMA ReleaseCounted ==
  ASSUME QInv, NEW s \in Live, NEW rs, NEW L, Release(s, rs, L)
  PROVE  /\ Counted(raw', pool', L)
         /\ raw' \in Heap
         /\ \A x \in Cells : raw'[x].live => raw'[x].ev = raw[x].ev
<1>0. raw \in Heap /\ Counted(raw, pool, Live) /\ IsFiniteSet(Live)
  BY LiveFinite DEF QInv, TypeOK, Live, Heap, Record
<1>1. ASSUME NEW r \in Cells
      PROVE  /\ CountOk(raw'[r], Having(pool', L, r)) /\ raw'[r] \in Record
             /\ raw'[r].live => raw'[r].ev = raw[r].ev
  <2> DEFINE H == Having(pool, Live, r)
             c == raw[r]
             out == [live |-> FALSE, ref |-> 0, ev |-> Data]
             less == [c EXCEPT !.ref = @ - 1]
  <2>1. CountOk(c, H) /\ c \in Record /\ Having(pool', L, r) = H \ {s}
    BY <1>0 DEF Counted, Heap, Release
  <2>2. IsFiniteSet(H)
    BY <1>0, FS_Subset DEF Having
  <2>3. s \in H <=> In(Sent(pool[s]), r)
    BY DEF Having
  <2>4. out \in Record /\ out.live = FALSE
    BY DEF Record, Event, Data
  <2>5. less \in Record /\ less.ev = c.ev
    BY <2>1 DEF Record
  <2>6. CASE s \in H
    <3>1. Dropped(rs, r) = 1
      BY <2>3, <2>6 DEF Release
    <3>2. raw'[r] = IF c.ref - 1 <= 0 THEN out ELSE less
      BY <3>1 DEF Release, Released
    <3>3. IF c.ref - 1 <= 0 THEN CountOk(out, H \ {s}) ELSE CountOk(less, H \ {s})
      <4> HIDE DEF c, H
      <4> QED
        BY <2>1, <2>2, <2>6, ReleaseOne
    <3> HIDE DEF H, c, out, less
    <3> QED
      BY <2>1, <2>4, <2>5, <3>2, <3>3 DEF c
  <2>7. CASE s \notin H
    <3>1. Dropped(rs, r) = 0
      BY <2>3, <2>7 DEF Release
    <3>2. raw'[r] = c
      BY <3>1 DEF Release, Released
    <3>3. H \ {s} = H
      BY <2>7
    <3> QED
      BY <2>1, <3>2, <3>3
  <2> QED
    BY <2>6, <2>7
<1>2. raw' = [r \in Cells |-> raw'[r]]
  BY DEF Release, Released
<1> QED
  BY <1>1, <1>2 DEF Counted, Heap

(* The other subusers still find what is queued for them.                  *)
LEMMA ReleaseOthers ==
  ASSUME QInv, NEW s \in Live, NEW rs, NEW L, Release(s, rs, L), NEW u \in Live, u # s
  PROVE  SubOk(raw', pool[u], view[u], Target(members))
<1>1. /\ Counted(raw', pool', L)
      /\ \A x \in Cells : raw'[x].live => raw'[x].ev = raw[x].ev
  BY ReleaseCounted
<1>2. ASSUME NEW x \in Cells, In(Sent(pool[u]), x) PROVE raw'[x].ev = raw[x].ev
  <2>1. Having(pool', L, x) # {}
    BY <1>2 DEF Release, Having
  <2>2. raw'[x].live
    BY <1>1, <2>1 DEF Counted, CountOk
  <2> QED
    BY <1>1, <2>2
<1>3. SameFor(raw, raw', pool[u])
  BY <1>2 DEF SameFor
<1>4. SubOk(raw, pool[u], view[u], Target(members))
  BY DEF QInv, Clients
<1> QED
  BY <1>3, <1>4, SubFrame


LEMMA EmptyPool ==
  ASSUME NEW p, ChainOk(p.low), ChainOk(p.high),
         Queue(p.low) = << >>, Queue(p.high) = << >>
  PROVE  /\ PoolOk(p) /\ \A r : ~In(Sent(p), r)
         /\ \A rw, v : SubOk(rw, p, v, v)
<1>1. Chains(p)
  BY DEF Chains
<1> DEFINE q == Sent(p)
           lo == Queue(p.low)
<1>2. q \in Seq(Cells) /\ Len(q) = 0 /\ q = << >> /\ lo \in Seq(Cells) /\ lo = << >>
  <2>1. q \in Seq(Cells) /\ lo \in Seq(Cells) /\ Len(q) = Len(Queue(p.high)) + Len(lo)
    BY <1>1, SentIs
  <2> HIDE DEF q
  <2>2. Len(q) = 0
    BY <2>1
  <2> QED
    BY <2>1, <2>2
<1>3. NoDup(q) /\ \A r : ~In(q, r)
  <2> HIDE DEF q
  <2> QED
    BY <1>2 DEF NoDup, In
<1>4. \A rw, v : Tell(rw, v, q) = v /\ Tell(rw, v, lo) = v
  <2> HIDE DEF q, lo
  <2> QED
    BY <1>2, TellNothing
<1> QED
  BY <1>1, <1>3, <1>4 DEF PoolOk, SubOk, Settled

(* Sending a queue.                                                        *)
LEMMA SendStep ==
  ASSUME QInv, NEW s \in Subs, send_raws(s)
  PROVE  QInv'
<1> DEFINE p == pool[s]
           d == pool'[s]
           T == Target(members)
           q == Sent(pool[s])
<1>0. /\ s \in Live /\ UNCHANGED <<subs, nsub, members>> /\ Live' = Live
      /\ Live \subseteq Subs /\ view \in [Subs -> Views] /\ pool \in [Subs -> Pools]
      /\ raw \in Heap
  BY LiveFinite DEF QInv, TypeOK, Live, Views, Pools, send_raws, Heap, Record
<1>1. PoolOk(p) /\ Chains(p) /\ NoDup(q) /\ Tell(raw, view[s], q) = T
  BY <1>0 DEF QInv, Clients, SubOk, PoolOk
<1>2. q \in Seq(Cells)
  BY <1>1, SentIs
<1>3. d = [low |-> Emptied(p.low), high |-> Emptied(p.high)]
      /\ \A u \in Subs \ {s} : pool'[u] = pool[u]
  BY <1>0 DEF send_raws
<1>4. /\ ChainOk(d.low) /\ ChainOk(d.high) /\ Queue(d.low) = << >> /\ Queue(d.high) = << >>
      /\ d \in Pools
  BY <1>1, <1>3, EmptiedChain DEF Chains, ChainOk, Pools
<1>5. /\ \A r : ~In(Sent(d), r)
      /\ \A rw, v : SubOk(rw, d, v, v)
  <2> HIDE DEF d
  <2> QED
    BY <1>4, EmptyPool
<1>6. Release(s, q, Live)
  <2>1. \A r \in Cells : Dropped(q, r) = IF In(q, r) THEN 1 ELSE 0
    <3> HIDE DEF q
    <3> QED
      BY <1>1, <1>2, DroppedQueue
  <2>2. raw' = Released(raw, q)
    BY DEF send_raws
  <2>3. \A r \in Cells : Having(pool', Live, r) = Having(pool, Live, r) \ {s}
    <3> HIDE DEF d
    <3>1. \A r : ~In(Sent(pool'[s]), r)
      BY <1>5 DEF d
    <3> QED
      BY <1>0, <1>3, <3>1 DEF Having
  <2> QED
    BY <2>1, <2>2, <2>3 DEF Release
<1>7. Counted(raw', pool', Live) /\ raw' \in Heap
  BY <1>0, <1>6, ReleaseCounted
<1>8. view'[s] = T /\ \A u \in Subs \ {s} : view'[u] = view[u]
  <2>1. view'[s] = Told(view[s], q)
    BY <1>0 DEF send_raws
  <2>2. Told(view[s], q) = Tell(raw, view[s], q)
    BY ToldIsTell
  <2>3. \A u \in Subs \ {s} : view'[u] = view[u]
    BY <1>0 DEF send_raws
  <2> QED
    BY <1>1, <2>1, <2>2, <2>3
<1>9. Clients(raw', pool', view', Live, T)
  <2>1. SubOk(raw', pool'[s], view'[s], T)
    <3> HIDE DEF T
    <3> QED
      BY <1>5, <1>8
  <2>2. ASSUME NEW u \in Live, u # s PROVE SubOk(raw', pool'[u], view'[u], T)
    <3>1. SubOk(raw', pool[u], view[u], T)
      BY <1>0, <1>6, <2>2, ReleaseOthers
    <3>2. u \in Subs \ {s}
      BY <1>0, <2>2
    <3> QED
      BY <1>3, <1>8, <3>1, <3>2
  <2> QED
    BY <2>1, <2>2 DEF Clients
<1>10. TypeOK'
  <2>1. T \in Views
    BY TargetView DEF QInv, TypeOK
  <2>2. view' \in [Subs -> Views]
    <3>1. view' = [view EXCEPT ![s] = view'[s]]
      BY <1>0 DEF send_raws
    <3> QED
      BY <1>0, <1>8, <2>1, <3>1
  <2>3. pool' \in [Subs -> Pools]
    <3>1. pool' = [pool EXCEPT ![s] = pool'[s]]
      BY <1>0 DEF send_raws
    <3> QED
      BY <1>0, <1>4, <3>1
  <2> QED
    BY <1>0, <1>7, <2>2, <2>3 DEF QInv, TypeOK, Heap, Record, Views, Pools
<1>11. ListOk' /\ Target(members') = T
  BY <1>0 DEF QInv, ListOk
<1> QED
  BY <1>0, <1>7, <1>9, <1>10, <1>11 DEF QInv

(* Taking a subuser off the list.                                          *)
LEMMA Unlinked ==
  ASSUME NEW q \in Seq(Subs), NoDup(q), Len(q) > 1, NEW i \in DOMAIN q
  PROVE  LET t == RemoveAt(q, i)
         IN  /\ t \in Seq(Subs) /\ NoDup(t) /\ Len(t) = Len(q) - 1
             /\ ToSet(t) = ToSet(q) \ {q[i]}
<1> DEFINE t == RemoveAt(q, i)
           n == Len(q)
           at(j) == IF j < i THEN j ELSE j + 1
<1>0. n \in Nat /\ n > 1 /\ i \in 1 .. n /\ DOMAIN q = 1 .. n /\ n = Len(q)
  OBVIOUS
<1>1. /\ t \in Seq(Subs) /\ Len(t) = n - 1 /\ DOMAIN t = 1 .. n - 1
      /\ \A j \in 1 .. n - 1 : t[j] = q[at(j)]
  <2> DEFINE a == SubSeq(q, 1, i - 1)
             b == SubSeq(q, i + 1, n)
  <2>1. a \in Seq(Subs) /\ Len(a) = i - 1 /\ \A j \in 1 .. i - 1 : a[j] = q[j]
    BY <1>0
  <2>2. b \in Seq(Subs) /\ Len(b) = n - i /\ \A j \in 1 .. n - i : b[j] = q[i + j]
    <3> DEFINE m == i + 1
    <3>1. m \in Int /\ n \in Int /\ \A j \in m .. n : q[j] \in Subs
      BY <1>0
    <3>2. m = i + 1
      OBVIOUS
    <3> HIDE DEF m, n
    <3>3. /\ SubSeq(q, m, n) \in Seq(Subs)
          /\ Len(SubSeq(q, m, n)) = IF m <= n THEN n - m + 1 ELSE 0
          /\ \A j \in 1 .. n - m + 1 : SubSeq(q, m, n)[j] = q[m + j - 1]
      BY <3>1, SubSeqProperties
    <3>4. n - m + 1 = n - i /\ (m <= n \/ n - i = 0) /\ \A j \in 1 .. n - i : m + j - 1 = i + j
      BY <1>0, <3>2
    <3> QED
      BY <3>3, <3>4 DEF m
  <2>3. t = a \o b
    BY DEF RemoveAt
  <2> HIDE DEF a, b, t, n
  <2>4. /\ t \in Seq(Subs) /\ Len(t) = n - 1
        /\ \A j \in 1 .. n - 1 : t[j] = IF j <= i - 1 THEN a[j] ELSE b[j - (i - 1)]
    <3>1. /\ t \in Seq(Subs) /\ Len(t) = Len(a) + Len(b)
          /\ \A j \in 1 .. Len(a) + Len(b) :
               t[j] = IF j <= Len(a) THEN a[j] ELSE b[j - Len(a)]
      BY <2>1, <2>2, <2>3, ConcatProperties
    <3>2. Len(a) + Len(b) = n - 1
      BY <1>0, <2>1, <2>2
    <3> QED
      BY <2>1, <3>1, <3>2
  <2>5. ASSUME NEW j \in 1 .. n - 1 PROVE t[j] = q[at(j)]
    <3>1. CASE j < i
      BY <1>0, <2>1, <2>4, <3>1
    <3>2. CASE ~(j < i)
      <4>1. t[j] = b[j - (i - 1)] /\ j - (i - 1) \in 1 .. n - i
        BY <1>0, <2>4, <3>2
      <4>2. b[j - (i - 1)] = q[i + (j - (i - 1))] /\ i + (j - (i - 1)) = j + 1
        BY <1>0, <2>2, <4>1
      <4> QED
        BY <3>2, <4>1, <4>2
    <3> QED
      BY <3>1, <3>2
  <2> QED
    BY <1>0, <2>4, <2>5
<1> HIDE DEF t, n
<1>2. \A j \in 1 .. n - 1 : at(j) \in 1 .. n /\ at(j) # i
  BY <1>0
<1>3. \A j, k \in 1 .. n - 1 : at(j) = at(k) => j = k
  BY <1>0
<1>4. ASSUME NEW k \in 1 .. n, k # i PROVE \E j \in 1 .. n - 1 : at(j) = k
  <2>1. CASE k < i
    BY <1>0, <2>1
  <2>2. CASE k > i
    <3>1. k - 1 \in 1 .. n - 1 /\ at(k - 1) = k
      BY <1>0, <2>2
    <3> QED
      BY <3>1
  <2> QED
    BY <1>0, <1>4, <2>1, <2>2
<1> HIDE DEF at
<1>5. NoDup(t)
  BY <1>0, <1>1, <1>2, <1>3 DEF NoDup
<1>6. ToSet(t) \subseteq ToSet(q) \ {q[i]}
  BY <1>0, <1>1, <1>2 DEF NoDup, ToSet
<1>7. ASSUME NEW x \in ToSet(q) \ {q[i]} PROVE x \in ToSet(t)
  <2>1. PICK k \in 1 .. n : q[k] = x /\ k # i
    BY <1>0 DEF ToSet
  <2>2. PICK j \in 1 .. n - 1 : at(j) = k
    BY <1>4, <2>1
  <2> QED
    BY <1>1, <2>1, <2>2 DEF ToSet
<1> QED
  BY <1>0, <1>1, <1>5, <1>6, <1>7 DEF t

LEMMA NewPool ==
  /\ NewPools \in Pools /\ ChainOk(NewPools.low) /\ ChainOk(NewPools.high)
  /\ Queue(NewPools.low) = << >> /\ Queue(NewPools.high) = << >>
BY NewChain, SizeAssumption DEF NewPools, Pools, ChainOk

LEMMA DelStep ==
  ASSUME QInv, NEW s \in Subs, DelSub(s)
  PROVE  QInv'
<1> DEFINE L == Live \ {s}
           T == Target(members)
<1>0. /\ subs \in Seq(Subs) /\ NoDup(subs) /\ nsub = Len(subs) /\ Len(subs) > 1
      /\ view \in [Subs -> Views] /\ pool \in [Subs -> Pools] /\ raw \in Heap
      /\ members' = members
  BY DEF QInv, TypeOK, ListOk, DelSub, Views, Pools, Heap, Record
<1>1. PICK i \in DOMAIN subs : subs[i] = s /\ subs' = RemoveAt(subs, i)
  BY DEF DelSub
<1>2. /\ subs' \in Seq(Subs) /\ NoDup(subs') /\ Len(subs') = Len(subs) - 1
      /\ Live' = L /\ s \in Live /\ Live \subseteq Subs
  <2>1. s \in Live /\ Live \subseteq Subs
    BY <1>0, <1>1, LiveFinite DEF Live, ToSet
  <2> QED
    BY <1>0, <1>1, <2>1, Unlinked DEF Live
<1>3. ListOk' /\ nsub' \in Nat
  <2>1. Len(subs) \in Nat /\ nsub' = nsub - 1
    BY <1>0 DEF DelSub
  <2>2. Len(subs') = nsub' /\ nsub' \in Nat /\ nsub' # 0
    BY <1>0, <1>2, <2>1
  <2>3. subs' # << >>
    BY <1>2, <2>2
  <2> QED
    BY <1>2, <2>2, <2>3 DEF ListOk
<1>4. \A u \in L : pool'[u] = pool[u] /\ view'[u] = view[u]
  BY <1>0, <1>2 DEF DelSub
<1>5. Release(s, Held(s), L)
  <2>1. PoolOk(pool[s])
    BY <1>2 DEF QInv, Clients, SubOk
  <2>2. Held(s) = Slots(pool[s])
    BY DEF Held, Slots
  <2>3. \A r \in Cells : Dropped(Held(s), r) = IF In(Sent(pool[s]), r) THEN 1 ELSE 0
    BY <2>1, <2>2, DroppedSlots
  <2>4. \A r \in Cells : Having(pool', L, r) = Having(pool, Live, r) \ {s}
    BY <1>4 DEF Having
  <2> QED
    BY <2>3, <2>4 DEF Release, DelSub
<1>6. Counted(raw', pool', L) /\ raw' \in Heap
  BY <1>2, <1>5, ReleaseCounted
<1>7. Clients(raw', pool', view', L, T)
  <2>1. ASSUME NEW u \in L PROVE SubOk(raw', pool[u], view[u], T)
    BY <1>2, <1>5, ReleaseOthers
  <2> QED
    BY <1>4, <2>1 DEF Clients
<1>8. TypeOK'
  <2>1. view' \in [Subs -> Views]
    BY <1>0 DEF DelSub, Views
  <2>2. pool' \in [Subs -> Pools]
    BY <1>0, NewPool DEF DelSub
  <2>3. members' \subseteq All
    BY <1>0 DEF QInv, TypeOK
  <2> QED
    BY <1>2, <1>3, <1>6, <2>1, <2>2, <2>3 DEF TypeOK, Heap, Record, Views, Pools
<1>9. Clients(raw', pool', view', Live', Target(members')) /\ Counted(raw', pool', Live')
  BY <1>0, <1>2, <1>6, <1>7
<1> QED
  BY <1>3, <1>8, <1>9 DEF QInv


-----------------------------------------------------------------------------
(* Opening a subuser with the raws rs at high priority and a copy of what  *)
(* the newest subuser has queued.                                          *)

Opened(copy, rs) == [low  |-> PostedAll(init_raw_pool(LowSize), copy),
                     high |-> PostedAll(init_raw_pool(HighSize), rs)]

LEMMA LowNoDup ==
  ASSUME NEW p, PoolOk(p)
  PROVE  NoDup(Queue(p.low)) /\ Queue(p.low) \in Seq(Cells)
<1> DEFINE h == Len(Queue(p.high))
           lo == Queue(p.low)
           q == Sent(p)
<1>1. Chains(p) /\ NoDup(q)
  BY DEF PoolOk
<1>2. /\ h \in Nat /\ lo \in Seq(Cells) /\ Len(q) = h + Len(lo)
      /\ \A i \in 1 .. Len(lo) : q[h + i] = lo[i]
  BY <1>1, SentIs
<1> HIDE DEF h, lo, q
<1>3. ASSUME NEW i \in 1 .. Len(lo), NEW j \in 1 .. Len(lo), lo[i] = lo[j] PROVE i = j
  <2>1. h + i \in 1 .. Len(q) /\ h + j \in 1 .. Len(q) /\ q[h + i] = q[h + j]
    BY <1>2, <1>3
  <2>2. h + i = h + j
    BY <1>1, <2>1 DEF NoDup
  <2> QED
    BY <1>2, <2>2
<1>4. NoDup(lo)
  BY <1>3 DEF NoDup
<1> QED
  BY <1>2, <1>4 DEF lo

LEMMA OpenedPool ==
  ASSUME NEW copy \in Seq(Cells), NEW rs \in Seq(Cells), NoDup(copy), NoDup(rs),
         \A x \in Cells : ~(In(copy, x) /\ In(rs, x))
  PROVE  LET d == Opened(copy, rs)
         IN  /\ d \in Pools /\ PoolOk(d) /\ Chains(d)
             /\ Queue(d.low) = copy /\ Queue(d.high) = rs
             /\ Sent(d) = Reverse(rs) \o copy
             /\ \A x : In(Sent(d), x) <=> In(rs, x) \/ In(copy, x)
<1> DEFINE d == Opened(copy, rs)
           q == Sent(d)
           n == Len(rs)
           m == Len(copy)
<1>1. /\ ChainOk(PostedAll(init_raw_pool(LowSize), copy))
      /\ Queue(PostedAll(init_raw_pool(LowSize), copy)) = copy
      /\ ChainOk(PostedAll(init_raw_pool(HighSize), rs))
      /\ Queue(PostedAll(init_raw_pool(HighSize), rs)) = rs
  BY NewChain, PostedAllChain, SizeAssumption
<1>2. d \in Pools /\ Chains(d) /\ Queue(d.low) = copy /\ Queue(d.high) = rs
  BY <1>1 DEF Opened, Pools, Chains, ChainOk
<1>3. /\ q = Reverse(rs) \o copy /\ q \in Seq(Cells) /\ Len(q) = n + m
      /\ \A i \in 1 .. n : q[i] = rs[n - i + 1]
      /\ \A i \in 1 .. m : q[n + i] = copy[i]
  <2> HIDE DEF d
  <2> QED
    BY <1>2, SentIs
<1>4. n \in Nat /\ m \in Nat /\ n = Len(rs) /\ m = Len(copy)
  OBVIOUS
<1> HIDE DEF d, q, n, m
<1>5. ASSUME NEW k \in 1 .. Len(q)
      PROVE  \/ k <= n /\ n - k + 1 \in 1 .. n /\ q[k] = rs[n - k + 1] /\ In(rs, q[k])
             \/ k > n /\ k - n \in 1 .. m /\ q[k] = copy[k - n] /\ In(copy, q[k])
  <2>1. CASE k <= n
    <3>1. k \in 1 .. n /\ n - k + 1 \in 1 .. n
      BY <1>3, <1>4, <2>1
    <3>2. q[k] = rs[n - k + 1]
      BY <1>3, <3>1
    <3> QED
      BY <1>4, <2>1, <3>1, <3>2 DEF In
  <2>2. CASE k > n
    <3>1. k - n \in 1 .. m /\ n + (k - n) = k
      BY <1>3, <1>4, <2>2
    <3>2. q[k] = copy[k - n]
      BY <1>3, <3>1
    <3> QED
      BY <1>4, <2>2, <3>1, <3>2 DEF In
  <2> QED
    BY <1>3, <1>4, <2>1, <2>2
<1>6. ASSUME NEW x, In(rs, x) PROVE In(q, x)
  <2>1. PICK i \in 1 .. n : rs[i] = x
    BY <1>4, <1>6 DEF In
  <2>2. n - i + 1 \in 1 .. n /\ n - (n - i + 1) + 1 = i /\ n - i + 1 \in 1 .. Len(q)
    BY <1>3, <1>4, SMTT(30)
  <2> QED
    BY <1>3, <2>1, <2>2 DEF In
<1>7. ASSUME NEW x, In(copy, x) PROVE In(q, x)
  <2>1. PICK i \in 1 .. m : copy[i] = x
    BY <1>4, <1>7 DEF In
  <2>2. n + i \in 1 .. Len(q)
    BY <1>3, <1>4
  <2> QED
    BY <1>3, <2>1, <2>2 DEF In
<1>8. ASSUME NEW x, In(q, x) PROVE In(rs, x) \/ In(copy, x)
  <2>1. PICK k \in 1 .. Len(q) : q[k] = x
    BY <1>8 DEF In
  <2> QED
    BY <1>5, <2>1
<1>9. ASSUME NEW i \in 1 .. Len(q), NEW j \in 1 .. Len(q), q[i] = q[j] PROVE i = j
  <2>0. q[i] \in Cells
    BY <1>3
  <2>1. CASE i <= n /\ j <= n
    <3>1. /\ n - i + 1 \in 1 .. n /\ q[i] = rs[n - i + 1]
          /\ n - j + 1 \in 1 .. n /\ q[j] = rs[n - j + 1]
      BY <1>4, <1>5, <2>1, SMTT(30)
    <3>2. n - i + 1 = n - j + 1
      BY <1>4, <1>9, <3>1 DEF NoDup
    <3> QED
      BY <1>4, <3>2
  <2>2. CASE i > n /\ j > n
    <3>1. /\ i - n \in 1 .. m /\ q[i] = copy[i - n]
          /\ j - n \in 1 .. m /\ q[j] = copy[j - n]
      BY <1>4, <1>5, <2>2
    <3>2. i - n = j - n
      BY <1>4, <1>9, <3>1 DEF NoDup
    <3> QED
      BY <1>4, <3>2
  <2>3. CASE i <= n /\ j > n
    BY <1>4, <1>5, <1>9, <2>0, <2>3
  <2>4. CASE i > n /\ j <= n
    BY <1>4, <1>5, <1>9, <2>0, <2>4
  <2> QED
    BY <1>4, <2>1, <2>2, <2>3, <2>4
<1>10. NoDup(q)
  BY <1>9 DEF NoDup
<1>11. PoolOk(d)
  BY <1>2, <1>10 DEF PoolOk, q
<1> QED
  BY <1>2, <1>3, <1>6, <1>7, <1>8, <1>11 DEF d, q

(* The raws that greet the client, whatever the heap, make the member list *)
(* of now out of an empty view, and the copy leaves it alone.              *)
Greets(rw, rs, evs) ==
  /\ Len(rs) = Len(evs)
  /\ \A i \in 1 .. Len(evs) : rw[rs[i]].ev = evs[i]

LEMMA Pair ==
  ASSUME NEW a, NEW b
  PROVE  <<a>> \o <<b>> = <<a, b>>
<1> DEFINE S == {a, b}
           x == <<a>>
           y == <<b>>
           z == <<a, b>>
<1>1. /\ x \in Seq(S) /\ y \in Seq(S) /\ z \in Seq(S)
      /\ Len(x) = 1 /\ Len(y) = 1 /\ Len(z) = 2
      /\ x[1] = a /\ y[1] = b /\ z[1] = a /\ z[2] = b
  OBVIOUS
<1> HIDE DEF x, y, z, S
<1>2. /\ x \o y \in Seq(S) /\ Len(x \o y) = 2
      /\ (x \o y)[1] = a /\ (x \o y)[2] = b
  <2>1. /\ x \o y \in Seq(S) /\ Len(x \o y) = Len(x) + Len(y)
        /\ \A i \in 1 .. Len(x) + Len(y) :
             (x \o y)[i] = IF i <= Len(x) THEN x[i] ELSE y[i - Len(x)]
    BY <1>1, ConcatProperties
  <2>2. 1 \in 1 .. 1 + 1 /\ 2 \in 1 .. 1 + 1 /\ 1 <= 1 /\ ~(2 <= 1) /\ 2 - 1 = 1 /\ 1 + 1 = 2
    OBVIOUS
  <2> QED
    BY <1>1, <2>1, <2>2
<1>3. x \o y = z
  BY <1>1, <1>2
<1> QED
  BY <1>3 DEF x, y, z

LEMMA Greeted ==
  ASSUME NEW rw, NEW rs \in Seq(Cells), NEW copy \in Seq(Cells),
         Greets(rw, rs, Snapshot \o <<Data>>),
         Tell(rw, Target(members), copy) = Target(members)
  PROVE  Tell(rw, OFF, Reverse(rs) \o copy) = Target(members)
<1>1. CASE Me \in members
  <2> DEFINE ch == [t |-> "CHANNEL", m |-> members]
             a == rs[1]
             b == rs[2]
             t == <<a>> \o copy
  <2>1. Snapshot \o <<Data>> = <<ch, Data>>
    <3>1. Snapshot = <<ch>>
      BY <1>1 DEF Snapshot
    <3> HIDE DEF ch
    <3> QED
      BY <3>1, Pair
  <2>2. Len(rs) = 2 /\ rw[a].ev = ch /\ rw[b].ev = Data
    <3> DEFINE evs == <<ch, Data>>
    <3>0. Snapshot \o <<Data>> = evs
      BY <2>1
    <3>1. Len(evs) = 2 /\ evs[1] = ch /\ evs[2] = Data /\ 1 \in 1 .. 2 /\ 2 \in 1 .. 2
      OBVIOUS
    <3> HIDE DEF ch, evs
    <3> QED
      BY <3>0, <3>1 DEF Greets
  <2>3. a \in Cells /\ b \in Cells /\ t \in Seq(Cells)
    BY <2>2, SMTT(30)
  <2>4. Reverse(rs) = <<b, a>>
    <3>1. /\ Reverse(rs) \in Seq(Cells) /\ Len(Reverse(rs)) = Len(rs)
          /\ \A i \in 1 .. Len(rs) : Reverse(rs)[i] = rs[Len(rs) - i + 1]
      BY ReverseIs
    <3>2. Reverse(rs)[1] = b /\ Reverse(rs)[2] = a
      BY <2>2, <3>1
    <3> QED
      BY <2>2, <3>1, <3>2
  <2> HIDE DEF a, b
  <2>5. Reverse(rs) \o copy = <<b>> \o t
    BY <2>3, <2>4
  <2> HIDE DEF t
  <2>6. Tell(rw, OFF, <<b>> \o t) = Tell(rw, Apply(OFF, Data), t)
    BY <2>2, <2>3, TellCons
  <2>7. Apply(OFF, Data) = OFF
    BY DEF Apply, Data
  <2>8. Tell(rw, OFF, <<a>> \o copy) = Tell(rw, Apply(OFF, ch), copy)
    BY <2>2, <2>3, TellCons
  <2>9. Apply(OFF, ch) = members /\ Target(members) = members
    BY <1>1 DEF Apply, Target
  <2> HIDE DEF ch
  <2> QED
    BY <2>5, <2>6, <2>7, <2>8, <2>9 DEF t
<1>2. CASE Me \notin members
  <2> DEFINE a == rs[1]
  <2>1. Snapshot \o <<Data>> = <<Data>>
    BY <1>2 DEF Snapshot
  <2>2. Len(rs) = 1 /\ rw[a].ev = Data
    <3>1. Len(<<Data>>) = 1 /\ 1 \in 1 .. 1
      OBVIOUS
    <3> QED
      BY <2>1, <3>1 DEF Greets
  <2>3. a \in Cells
    <3>1. 1 \in 1 .. Len(rs)
      BY <2>2
    <3> QED
      BY <3>1
  <2>4. Reverse(rs) = <<a>>
    <3>1. /\ Reverse(rs) \in Seq(Cells) /\ Len(Reverse(rs)) = Len(rs)
          /\ \A i \in 1 .. Len(rs) : Reverse(rs)[i] = rs[Len(rs) - i + 1]
      BY ReverseIs
    <3>2. Reverse(rs)[1] = a
      BY <2>2, <3>1
    <3> QED
      BY <2>2, <3>1, <3>2
  <2> HIDE DEF a
  <2>5. Tell(rw, OFF, <<a>> \o copy) = Tell(rw, Apply(OFF, Data), copy)
    BY <2>2, <2>3, TellCons
  <2>6. Apply(OFF, Data) = OFF /\ Target(members) = OFF
    BY <1>2 DEF Apply, Data, Target
  <2> QED
    BY <2>4, <2>5, <2>6
<1> QED
  BY <1>1, <1>2


(* What AddSub does, with the names of its LET spelled out.                *)
Greeting == Snapshot \o <<Data>>
Newest   == Forward(pool[subs[1]].low)
Greeter(rs) ==
  [r \in Cells |-> IF r \in ToSet(rs)
     THEN [live |-> TRUE, ref |-> 0,
           ev |-> Greeting[CHOOSE i \in DOMAIN rs : rs[i] = r]]
     ELSE Shared(raw, Newest)[r]]

LEMMA AddIs ==
  ASSUME NEW s, AddSub(s)
  PROVE  \E rs \in Distinct(Len(Greeting)) :
           /\ raw' = Greeter(rs)
           /\ pool' = [pool EXCEPT ![s] = Opened(Newest, rs)]
BY DEF AddSub, Greeting, Newest, Greeter, Opened

LEMMA GreetingIs ==
  ASSUME QInv
  PROVE  /\ Greeting \in Seq(Event) /\ Len(Greeting) \in Nat
<1>1. Data \in Event /\ members \subseteq All
  BY DEF Data, Event, QInv, TypeOK
<1>2. Snapshot \in Seq(Event)
  <2> DEFINE ch == [t |-> "CHANNEL", m |-> members]
  <2>1. ch \in Event
    BY <1>1 DEF Event
  <2>2. Snapshot = <<ch>> \/ Snapshot = << >>
    BY DEF Snapshot
  <2> HIDE DEF ch
  <2>3. <<ch>> \in Seq(Event)
    BY <2>1
  <2>4. << >> \in Seq(Event)
    OBVIOUS
  <2> QED
    BY <2>2, <2>3, <2>4
<1>3. <<Data>> \in Seq(Event)
  BY <1>1
<1>4. Greeting \in Seq(Event)
  BY <1>2, <1>3, ConcatProperties DEF Greeting
<1> QED
  BY <1>4

LEMMA NewestIs ==
  ASSUME QInv
  PROVE  LET b == subs[1]
         IN  /\ b \in Live /\ Newest = Queue(pool[b].low)
             /\ Newest \in Seq(Cells) /\ NoDup(Newest)
             /\ \A x : In(Newest, x) => In(Sent(pool[b]), x)
<1> DEFINE b == subs[1]
<1>1. b \in Live
  <2>1. subs \in Seq(Subs) /\ subs # << >>
    BY DEF QInv, TypeOK, ListOk
  <2>2. 1 \in DOMAIN subs
    BY <2>1
  <2> QED
    BY <2>2 DEF Live, ToSet
<1>2. PoolOk(pool[b]) /\ Chains(pool[b]) /\ ChainOk(pool[b].low)
  BY <1>1 DEF QInv, Clients, SubOk, PoolOk, Chains
<1>3. Newest = Queue(pool[b].low)
  BY <1>2, ForwardIs DEF Newest
<1> HIDE DEF b
<1> QED
  BY <1>1, <1>2, <1>3, LowNoDup, LowIsSent DEF b

(* The cells for the greeting were free, and no two are the same.          *)
LEMMA GreetersAre ==
  ASSUME QInv, NEW rs \in Distinct(Len(Greeting))
  PROVE  /\ rs \in Seq(Cells) /\ Len(rs) = Len(Greeting) /\ NoDup(rs)
         /\ \A x : x \in ToSet(rs) <=> In(rs, x)
         /\ \A x : In(rs, x) => x \in Cells /\ ~raw[x].live
<1> DEFINE n == Len(Greeting)
<1>1. n \in Nat
  BY GreetingIs
<1>2. rs \in [1 .. n -> Free] /\ IsInjective(rs)
  BY DEF Distinct
<1> HIDE DEF n
<1>3. \A i \in 1 .. n : rs[i] \in Cells /\ ~raw[rs[i]].live
  BY <1>2 DEF Free
<1>4. rs \in Seq(Cells) /\ Len(rs) = n /\ DOMAIN rs = 1 .. n
  <2>1. rs \in [1 .. n -> Cells]
    BY <1>2, <1>3
  <2> QED
    BY <1>1, <2>1
<1> QED
  BY <1>2, <1>3, <1>4 DEF NoDup, In, ToSet, IsInjective, n

LEMMA GreeterIs ==
  ASSUME QInv, NEW rs \in Distinct(Len(Greeting)), raw' = Greeter(rs)
  PROVE  /\ raw' \in Heap /\ Greets(raw', rs, Greeting)
         /\ \A x \in Cells : In(rs, x) => raw'[x].live /\ raw'[x].ref = 0
         /\ \A x \in Cells : ~In(rs, x) /\ ~In(Newest, x) => raw'[x] = raw[x]
         /\ \A x \in Cells : ~In(rs, x) /\ In(Newest, x) =>
              raw'[x] = [raw[x] EXCEPT !.ref = IF @ = 0 THEN 2 ELSE @ + 1]
<1>0. raw \in Heap /\ Greeting \in Seq(Event)
  BY GreetingIs DEF QInv, TypeOK, Heap, Record
<1>1. /\ rs \in Seq(Cells) /\ Len(rs) = Len(Greeting) /\ NoDup(rs)
      /\ \A x : x \in ToSet(rs) <=> In(rs, x)
  BY GreetersAre
<1>2. ASSUME NEW i \in 1 .. Len(rs)
      PROVE  raw'[rs[i]] = [live |-> TRUE, ref |-> 0, ev |-> Greeting[i]]
  <2>1. DOMAIN rs = 1 .. Len(rs) /\ rs[i] \in Cells /\ rs[i] \in ToSet(rs)
    BY <1>1 DEF ToSet
  <2>2. (CHOOSE j \in DOMAIN rs : rs[j] = rs[i]) = i
    BY <1>1, <2>1 DEF NoDup
  <2>3. raw'[rs[i]] = [live |-> TRUE, ref |-> 0,
                       ev |-> Greeting[CHOOSE j \in DOMAIN rs : rs[j] = rs[i]]]
    BY <2>1 DEF Greeter
  <2> QED
    BY <2>2, <2>3
<1>3. ASSUME NEW i \in 1 .. Len(rs)
      PROVE  /\ raw'[rs[i]].live /\ raw'[rs[i]].ref = 0 /\ raw'[rs[i]].ev = Greeting[i]
             /\ raw'[rs[i]] \in Record
  <2>1. Greeting[i] \in Event
    BY <1>0, <1>1
  <2> DEFINE c == [live |-> TRUE, ref |-> 0, ev |-> Greeting[i]]
  <2>2. c.live /\ c.ref = 0 /\ c.ev = Greeting[i] /\ c \in Record
    BY <2>1 DEF Record
  <2>3. raw'[rs[i]] = c
    BY <1>2
  <2> HIDE DEF c
  <2> QED
    BY <2>2, <2>3
<1>4. ASSUME NEW x \in Cells, In(rs, x)
      PROVE  raw'[x].live /\ raw'[x].ref = 0 /\ raw'[x] \in Record
  <2>1. PICK i \in 1 .. Len(rs) : rs[i] = x
    BY <1>4 DEF In
  <2> QED
    BY <1>3, <2>1
<1>5. Newest \in Seq(Cells) /\ NoDup(Newest)
  BY NewestIs
<1>6. ASSUME NEW x \in Cells, ~In(rs, x)
      PROVE  raw'[x] = IF Dropped(Newest, x) = 0 THEN raw[x]
                       ELSE [raw[x] EXCEPT !.ref = IF @ = 0 THEN 2 ELSE @ + 1]
  BY <1>1, <1>6 DEF Greeter, Shared
<1>7. ASSUME NEW x \in Cells
      PROVE  Dropped(Newest, x) = IF In(Newest, x) THEN 1 ELSE 0
  BY <1>5, DroppedQueue
<1>8. ASSUME NEW x \in Cells, ~In(rs, x), ~In(Newest, x) PROVE raw'[x] = raw[x]
  BY <1>6, <1>7, <1>8
<1>9. ASSUME NEW x \in Cells, ~In(rs, x), In(Newest, x)
      PROVE  raw'[x] = [raw[x] EXCEPT !.ref = IF @ = 0 THEN 2 ELSE @ + 1]
  BY <1>6, <1>7, <1>9
<1>10. \A x \in Cells : raw'[x] \in Record
  <2> SUFFICES ASSUME NEW x \in Cells PROVE raw'[x] \in Record
    OBVIOUS
  <2>1. raw[x] \in Record
    BY <1>0 DEF Heap
  <2>2. [raw[x] EXCEPT !.ref = IF @ = 0 THEN 2 ELSE @ + 1] \in Record
    BY <2>1 DEF Record
  <2> QED
    BY <1>4, <1>8, <1>9, <2>1, <2>2
<1>11. raw' = [x \in Cells |-> raw'[x]]
  BY DEF Greeter
<1>12. raw' \in Heap
  BY <1>10, <1>11 DEF Heap
<1>13. Greets(raw', rs, Greeting)
  BY <1>1, <1>3 DEF Greets
<1> QED
  BY <1>4, <1>8, <1>9, <1>12, <1>13


LEMMA ShareOne ==
  ASSUME NEW c \in Record, NEW H, IsFiniteSet(H), NEW b \in H, NEW s, s \notin H,
         CountOk(c, H)
  PROVE  CountOk([c EXCEPT !.ref = IF @ = 0 THEN 2 ELSE @ + 1], H \cup {s})
<1> DEFINE n == Cardinality(H)
           d == [c EXCEPT !.ref = IF @ = 0 THEN 2 ELSE @ + 1]
<1>1. n \in Nat /\ Cardinality(H \cup {s}) = n + 1
  BY FS_CardinalityType, FS_AddElement
<1>2. n # 0
  BY FS_EmptySet
<1>3. c.live /\ (c.ref = n \/ (c.ref = 0 /\ n = 1)) /\ c.ref \in Int
  BY DEF CountOk, Record
<1>4. d.live /\ d.ref = IF c.ref = 0 THEN 2 ELSE c.ref + 1
  BY <1>3 DEF Record
<1> HIDE DEF n, d
<1>5. d.ref = n + 1
  BY <1>1, <1>2, <1>3, <1>4
<1>6. CountOk(d, H \cup {s})
  BY <1>1, <1>4, <1>5 DEF CountOk
<1> QED
  BY <1>6 DEF d

LEMMA AddStep ==
  ASSUME QInv, NEW s \in Subs, AddSub(s)
  PROVE  QInv'
<1> DEFINE T == Target(members)
           b == subs[1]
           d == pool'[s]
           L == Live \cup {s}
<1>0. /\ subs \in Seq(Subs) /\ NoDup(subs) /\ nsub = Len(subs) /\ Live \subseteq Subs
      /\ view \in [Subs -> Views] /\ pool \in [Subs -> Pools] /\ raw \in Heap
      /\ members' = members /\ s \notin Live /\ IsFiniteSet(Live)
      /\ Counted(raw, pool, Live) /\ Clients(raw, pool, view, Live, T)
  BY LiveFinite DEF QInv, TypeOK, ListOk, AddSub, Views, Pools, Heap, Record, Live
<1>1. PICK rs \in Distinct(Len(Greeting)) :
        raw' = Greeter(rs) /\ pool' = [pool EXCEPT ![s] = Opened(Newest, rs)]
  BY AddIs
<1>2. /\ b \in Live /\ Newest = Queue(pool[b].low) /\ Newest \in Seq(Cells)
      /\ NoDup(Newest) /\ \A x : In(Newest, x) => In(Sent(pool[b]), x)
  BY NewestIs
<1>3. /\ rs \in Seq(Cells) /\ NoDup(rs)
      /\ \A x : In(rs, x) => x \in Cells /\ ~raw[x].live
  BY GreetersAre
<1>4. /\ raw' \in Heap /\ Greets(raw', rs, Greeting)
      /\ \A x \in Cells : In(rs, x) => raw'[x].live /\ raw'[x].ref = 0
      /\ \A x \in Cells : ~In(rs, x) /\ ~In(Newest, x) => raw'[x] = raw[x]
      /\ \A x \in Cells : ~In(rs, x) /\ In(Newest, x) =>
           raw'[x] = [raw[x] EXCEPT !.ref = IF @ = 0 THEN 2 ELSE @ + 1]
  BY <1>1, GreeterIs
<1>5. \A u \in Live : \A x : In(Sent(pool[u]), x) => ~In(rs, x)
  BY <1>0, <1>3, FreeUnqueued
<1>6. d = Opened(Newest, rs) /\ \A u \in Live : pool'[u] = pool[u]
  BY <1>0, <1>1
<1>7. /\ d \in Pools /\ PoolOk(d) /\ Queue(d.low) = Newest
      /\ Sent(d) = Reverse(rs) \o Newest
      /\ \A x : In(Sent(d), x) <=> In(rs, x) \/ In(Newest, x)
  <2>1. \A x \in Cells : ~(In(Newest, x) /\ In(rs, x))
    BY <1>2, <1>5
  <2> HIDE DEF d
  <2> QED
    BY <1>2, <1>3, <1>6, <2>1, OpenedPool
<1>8. \A x \in Cells : ~In(rs, x) => raw'[x].ev = raw[x].ev
  <2> SUFFICES ASSUME NEW x \in Cells, ~In(rs, x) PROVE raw'[x].ev = raw[x].ev
    OBVIOUS
  <2>1. raw[x] \in Record
    BY <1>0 DEF Heap
  <2>2. [raw[x] EXCEPT !.ref = IF @ = 0 THEN 2 ELSE @ + 1].ev = raw[x].ev
    BY <2>1 DEF Record
  <2> QED
    BY <1>4, <2>2
<1>9. ASSUME NEW u \in Live PROVE SubOk(raw', pool[u], view[u], T)
  <2>1. SameFor(raw, raw', pool[u])
    BY <1>5, <1>8 DEF SameFor
  <2>2. SubOk(raw, pool[u], view[u], T)
    BY <1>0 DEF Clients
  <2> QED
    BY <2>1, <2>2, SubFrame
<1>10. Live' = L /\ ListOk' /\ subs' \in Seq(Subs) /\ nsub' \in Nat
  <2> DEFINE q == subs'
             n == Len(subs)
  <2>1. q = <<s>> \o subs /\ nsub' = nsub + 1 /\ n \in Nat
    BY <1>0 DEF AddSub
  <2>2. /\ q \in Seq(Subs) /\ Len(q) = n + 1 /\ q[1] = s /\ DOMAIN q = 1 .. n + 1
        /\ \A i \in 2 .. n + 1 : q[i] = subs[i - 1]
        /\ \A i \in 1 .. n : q[i + 1] = subs[i]
    BY <1>0, <2>1
  <2>3. /\ DOMAIN subs = 1 .. n /\ \A i \in 1 .. n : subs[i] # s
        /\ \A i, j \in 1 .. n : subs[i] = subs[j] => i = j
    <3>1. DOMAIN subs = 1 .. n
      BY <1>0
    <3> QED
      BY <1>0, <3>1 DEF Live, ToSet, NoDup
  <2> HIDE DEF q, n
  <2>4. NoDup(q)
    <3> SUFFICES ASSUME NEW i \in 1 .. n + 1, NEW j \in 1 .. n + 1, q[i] = q[j]
                 PROVE  i = j
      BY <2>2 DEF NoDup
    <3>1. CASE i = 1 /\ j = 1
      BY <3>1
    <3>2. CASE i # 1 /\ j = 1
      <4>1. i \in 2 .. n + 1 /\ i - 1 \in 1 .. n
        BY <2>1, <3>2
      <4> QED
        BY <2>2, <2>3, <3>2, <4>1
    <3>3. CASE i = 1 /\ j # 1
      <4>1. j \in 2 .. n + 1 /\ j - 1 \in 1 .. n
        BY <2>1, <3>3
      <4> QED
        BY <2>2, <2>3, <3>3, <4>1
    <3>4. CASE i # 1 /\ j # 1
      <4>1. /\ i \in 2 .. n + 1 /\ i - 1 \in 1 .. n
            /\ j \in 2 .. n + 1 /\ j - 1 \in 1 .. n
        BY <2>1, <3>4
      <4>2. i - 1 = j - 1
        BY <2>2, <2>3, <4>1
      <4> QED
        BY <2>1, <4>2
    <3> QED
      BY <3>1, <3>2, <3>3, <3>4
  <2>5. ToSet(q) = ToSet(subs) \cup {s}
    <3>1. ASSUME NEW x \in ToSet(q) PROVE x \in ToSet(subs) \cup {s}
      <4>1. PICK i \in 1 .. n + 1 : q[i] = x
        BY <2>2 DEF ToSet
      <4>2. CASE i = 1
        BY <2>2, <4>1, <4>2
      <4>3. CASE i # 1
        <5>1. i \in 2 .. n + 1 /\ i - 1 \in 1 .. n
          BY <2>1, <4>3
        <5> QED
          BY <2>2, <2>3, <4>1, <5>1 DEF ToSet
      <4> QED
        BY <4>2, <4>3
    <3>2. ASSUME NEW x \in ToSet(subs) PROVE x \in ToSet(q)
      <4>1. PICK i \in 1 .. n : subs[i] = x
        BY <2>3 DEF ToSet
      <4>2. i + 1 \in 1 .. n + 1
        BY <2>1
      <4> QED
        BY <2>2, <4>1, <4>2 DEF ToSet
    <3>3. s \in ToSet(q)
      <4>1. 1 \in 1 .. n + 1
        BY <2>1
      <4> QED
        BY <2>2, <4>1 DEF ToSet
    <3> QED
      BY <3>1, <3>2, <3>3
  <2>6. nsub' = n + 1 /\ nsub' \in Nat /\ q # << >>
    <3>1. nsub = n
      BY <1>0 DEF n
    <3>2. nsub' = n + 1 /\ nsub' \in Nat /\ n + 1 # 0
      BY <2>1, <3>1
    <3> QED
      BY <2>2, <3>2
  <2> QED
    BY <2>2, <2>4, <2>5, <2>6 DEF Live, ListOk, q
<1>11. view'[s] = OFF /\ \A u \in Live : view'[u] = view[u]
  BY <1>0 DEF AddSub
<1>12. SubOk(raw', d, OFF, T)
  <2>1. Tell(raw', T, Newest) = T
    BY <1>2, <1>9 DEF SubOk, Settled
  <2>2. Tell(raw', OFF, Reverse(rs) \o Newest) = T
    BY <1>2, <1>3, <1>4, <2>1, Greeted DEF Greeting
  <2> HIDE DEF T, d
  <2> QED
    BY <1>7, <2>1, <2>2 DEF SubOk, Settled
<1>13. Clients(raw', pool', view', L, T)
  <2> HIDE DEF T
  <2>1. SubOk(raw', pool'[s], view'[s], T)
    BY <1>11, <1>12
  <2>2. ASSUME NEW u \in Live PROVE SubOk(raw', pool'[u], view'[u], T)
    BY <1>6, <1>9, <1>11
  <2> QED
    BY <2>1, <2>2 DEF Clients
<1>14. Counted(raw', pool', L)
  <2> SUFFICES ASSUME NEW x \in Cells PROVE CountOk(raw'[x], Having(pool', L, x))
    BY DEF Counted
  <2> DEFINE H == Having(pool, Live, x)
             K == Having(pool', L, x)
  <2>0. CountOk(raw[x], H) /\ s \notin H /\ raw[x] \in Record
    BY <1>0 DEF Counted, Having, Heap
  <2>1. CASE In(rs, x)
    <3>1. H = {}
      BY <1>5, <2>1 DEF Having
    <3>2. K = {s}
      BY <1>0, <1>5, <1>6, <1>7, <2>1 DEF Having
    <3>3. Cardinality(K) = 1
      BY <3>2, FS_Singleton
    <3>4. raw'[x].live /\ raw'[x].ref = 0
      BY <1>4, <2>1
    <3> HIDE DEF K
    <3>5. CountOk(raw'[x], K)
      BY <3>2, <3>3, <3>4 DEF CountOk
    <3> QED
      BY <3>5 DEF K
  <2>2. CASE ~In(rs, x) /\ In(Newest, x)
    <3>1. b \in H
      BY <1>2, <2>2 DEF Having
    <3>2. K = H \cup {s}
      BY <1>0, <1>6, <1>7, <2>2 DEF Having
    <3>3. IsFiniteSet(H)
      BY <1>0, FS_Subset DEF Having
    <3>4. raw'[x] = [raw[x] EXCEPT !.ref = IF @ = 0 THEN 2 ELSE @ + 1]
      BY <1>4, <2>2
    <3> DEFINE c == raw[x]
    <3> HIDE DEF H, K, c
    <3>5. CountOk([c EXCEPT !.ref = IF @ = 0 THEN 2 ELSE @ + 1], H \cup {s})
      BY <2>0, <3>1, <3>3, ShareOne DEF c
    <3> QED
      BY <3>2, <3>4, <3>5 DEF K, c
  <2>3. CASE ~In(rs, x) /\ ~In(Newest, x)
    <3>1. K = H
      BY <1>0, <1>6, <1>7, <2>3 DEF Having
    <3>2. raw'[x] = raw[x]
      BY <1>4, <2>3
    <3> QED
      BY <2>0, <3>1, <3>2
  <2> QED
    BY <2>1, <2>2, <2>3
<1>15. TypeOK'
  <2>1. pool' \in [Subs -> Pools]
    BY <1>0, <1>1, <1>6, <1>7
  <2>2. view' \in [Subs -> Views]
    BY <1>0 DEF AddSub, Views
  <2>3. members' \subseteq All
    BY <1>0 DEF QInv, TypeOK
  <2> QED
    BY <1>4, <1>10, <2>1, <2>2, <2>3 DEF TypeOK, Heap, Record, Views, Pools
<1>16. Clients(raw', pool', view', Live', Target(members')) /\ Counted(raw', pool', Live')
  BY <1>0, <1>10, <1>13, <1>14
<1> QED
  BY <1>10, <1>15, <1>16 DEF QInv


-----------------------------------------------------------------------------
(* The invariant holds, and what follows from it.                          *)

LEMMA InitQInv == Init => QInv
<1> SUFFICES ASSUME Init PROVE QInv
  OBVIOUS
<1>1. PICK s \in Subs : subs = <<s>>
  BY DEF Init
<1>2. /\ subs \in Seq(Subs) /\ subs # << >> /\ Len(subs) = 1 /\ DOMAIN subs = 1 .. 1
      /\ subs[1] = s
  BY <1>1
<1>3. NoDup(subs) /\ Live = {s}
  BY <1>2 DEF NoDup, Live, ToSet
<1>4. ListOk
  BY <1>2, <1>3 DEF ListOk, Init
<1>5. pool = [u \in Subs |-> NewPools] /\ view = [u \in Subs |-> OFF] /\ members = {}
      /\ raw = [r \in Cells |-> [live |-> FALSE, ref |-> 0, ev |-> Data]] /\ nsub = 1
  BY DEF Init
<1>6. TypeOK
  <2>1. raw \in [Cells -> [live : BOOLEAN, ref : Int, ev : Event]]
    BY <1>5 DEF Data, Event
  <2>2. pool \in [Subs -> [low : Chain, high : Chain]]
    BY <1>5, NewPool DEF Pools
  <2> QED
    BY <1>2, <1>5, <2>1, <2>2 DEF TypeOK
<1>7. (\A r : ~In(Sent(NewPools), r)) /\ (\A rw, v : SubOk(rw, NewPools, v, v))
  <2> DEFINE p == NewPools
  <2>1. ChainOk(p.low) /\ ChainOk(p.high) /\ Queue(p.low) = << >> /\ Queue(p.high) = << >>
    BY NewPool
  <2> HIDE DEF p
  <2>2. (\A r : ~In(Sent(p), r)) /\ (\A rw, v : SubOk(rw, p, v, v))
    BY <2>1, EmptyPool
  <2> QED
    BY <2>2 DEF p
<1>8. Target(members) = OFF
  BY <1>5 DEF Target
<1>9. Clients(raw, pool, view, Live, Target(members))
  <2>1. pool[s] = NewPools /\ view[s] = OFF
    BY <1>5
  <2>2. SubOk(raw, pool[s], view[s], Target(members))
    BY <1>7, <1>8, <2>1
  <2> QED
    BY <1>3, <2>2 DEF Clients
<1>10. Counted(raw, pool, Live)
  <2> SUFFICES ASSUME NEW r \in Cells PROVE CountOk(raw[r], Having(pool, Live, r))
    BY DEF Counted
  <2>1. Having(pool, Live, r) = {}
    BY <1>3, <1>5, <1>7 DEF Having
  <2>2. raw[r].live = FALSE
    BY <1>5
  <2> QED
    BY <2>1, <2>2 DEF CountOk
<1> QED
  BY <1>4, <1>6, <1>9, <1>10 DEF QInv

LEMMA NextQInv == QInv /\ [Next]_vars => QInv'
<1> SUFFICES ASSUME QInv, [Next]_vars PROVE QInv'
  OBVIOUS
<1>1. ASSUME NEW o \in Others, OtherJoin(o) \/ OtherLeft(o) PROVE QInv'
  BY <1>1, ChannelStep
<1>2. CASE MeJoin \/ MeLeft
  BY <1>2, MeStep
<1>3. ASSUME NEW s \in Subs, PostOne(s) \/ SendFrom(s) PROVE QInv'
  BY <1>3, DataStep
<1>4. ASSUME NEW s \in Subs, AddSub(s) PROVE QInv'
  BY <1>4, AddStep
<1>5. ASSUME NEW s \in Subs, DelSub(s) PROVE QInv'
  BY <1>5, DelStep
<1>6. ASSUME NEW s \in Subs, send_raws(s) PROVE QInv'
  BY <1>6, SendStep
<1>7. CASE UNCHANGED vars
  <2>1. Live' = Live
    BY <1>7 DEF vars, Live
  <2>2. TypeOK' /\ ListOk'
    BY <1>7 DEF vars, QInv, TypeOK, ListOk
  <2>3. /\ Clients(raw', pool', view', Live', Target(members'))
        /\ Counted(raw', pool', Live')
    BY <1>7, <2>1 DEF vars, QInv
  <2> QED
    BY <2>2, <2>3 DEF QInv
<1> QED
  BY <1>1, <1>2, <1>3, <1>4, <1>5, <1>6, <1>7 DEF Next

(* QInv is an inductive invariant of the queues.                           *)
THEOREM QueueInvariance == Spec => []QInv
<1>1. Init => QInv
  BY InitQInv
<1>2. QInv /\ [Next]_vars => QInv'
  BY NextQInv
<1> QED
  BY <1>1, <1>2, PTL DEF Spec

(* A chain of post_raw_sub() is always ended by a null slot, and the slots *)
(* before it are those in use, whatever the sizes it starts and grows by.  *)
THEOREM QueuesTerminated == Spec => []ChainsTerminated
<1>1. QInv => ChainsTerminated
  BY DEF QInv, Clients, SubOk, PoolOk, Chains, ChainOk, ChainsTerminated
<1> QED
  BY <1>1, QueueInvariance, PTL

(* refcount of raw.c is exact: a raw is allocated exactly while a queue    *)
(* holds it, and free_raw() frees it with the last one, whichever mix of   *)
(* shared and unshared raws is sent or dropped with its subuser.           *)
THEOREM CountsExact == Spec => []RefCountExact
<1>1. QInv => RefCountExact
  <2> SUFFICES ASSUME QInv PROVE RefCountExact
    OBVIOUS
  <2>1. ASSUME NEW s \in Live PROVE PoolOk(pool[s]) /\ Held(s) = Slots(pool[s])
    BY DEF QInv, Clients, SubOk, Held, Slots
  <2>2. ASSUME NEW r \in Cells PROVE Holders(r) = Having(pool, Live, r)
    <3>1. ASSUME NEW s \in Live
          PROVE  (\E i \in DOMAIN Held(s) : Held(s)[i] = r) <=> In(Sent(pool[s]), r)
      BY <2>1, DroppedSlots
    <3> QED
      BY <3>1 DEF Holders, Having
  <2>3. \A r \in Cells : CountOk(raw[r], Having(pool, Live, r))
    BY DEF QInv, Counted
  <2> QED
    BY <2>2, <2>3 DEF RefCountExact, CountOk
<1> QED
  BY <1>1, QueueInvariance, PTL

(* Every client shows the member list once its queue is sent: what         *)
(* addsubuser() copies and what subuser_restor() posts ahead of it never   *)
(* contradict each other in the end.                                       *)
THEOREM EveryClientCatchesUp == Spec => []ClientsCatchUp
<1>1. QInv => ClientsCatchUp
  <2> SUFFICES ASSUME QInv, NEW s \in Live
               PROVE  Told(view[s], Sent(pool[s])) = IF Me \in members THEN members ELSE OFF
    BY DEF ClientsCatchUp
  <2>1. Tell(raw, view[s], Sent(pool[s])) = Target(members)
    BY DEF QInv, Clients, SubOk
  <2>2. Told(view[s], Sent(pool[s])) = Tell(raw, view[s], Sent(pool[s]))
    BY ToldIsTell
  <2> QED
    BY <2>1, <2>2 DEF Target
<1> QED
  BY <1>1, QueueInvariance, PTL

(* Every variable keeps its type, the chains of slots included.             *)
THEOREM QueueTyped == Spec => []TypeOK
<1>1. QInv => TypeOK
  BY DEF QInv
<1> QED
  BY <1>1, QueueInvariance, PTL

=============================================================================
