------------------------- MODULE ScriptSocketProofs -------------------------
(***************************************************************************)
(* Proofs about ScriptSocket, for every number of script objects, every    *)
(* set of calls, every alphabet and every size.  They rest on those about  *)
(* SendBuffer, which come first: what ScriptSocket does to the output of a *)
(* connection is a step of SendBuffer, or a fresh start.                   *)
(***************************************************************************)
EXTENDS ScriptSocket, SequenceTheorems, WellFoundedInduction, TLAPS

-----------------------------------------------------------------------------
(* The output buffer alone: the safety properties of SendBuffer, for every *)
(* set of calls, block size and bound.                                     *)

(* Concatenation of strings is associative.                                 *)
LEMMA Assoc ==
  \A s, t, u \in Seq(Bytes) : (s \o t) \o u = s \o (t \o u)
<1> TAKE s, t, u \in Seq(Bytes)
<1> QED BY ConcatAssociative

(* A string is its first k bytes followed by the others.                    *)
LEMMA SplitString ==
  ASSUME NEW m \in Seq(Bytes), NEW k \in 0 .. Len(m)
  PROVE  /\ Taken(m, k) \in Seq(Bytes)
         /\ Left(m, k) \in Seq(Bytes)
         /\ Taken(m, k) \o Left(m, k) = m
         /\ Len(Left(m, k)) = Len(m) - k
         /\ k = Len(m) => Left(m, k) = << >>
<1>1. k \in Nat /\ Len(m) \in Nat /\ k <= Len(m)
  BY LenProperties
<1>2. \A i \in 1 .. k : m[i] \in Bytes
  BY <1>1, ElementOfSeq
<1>3. \A i \in k + 1 .. Len(m) : m[i] \in Bytes
  BY <1>1, ElementOfSeq
<1>4. Taken(m, k) \in Seq(Bytes)
  BY <1>1, <1>2, SubSeqProperties DEF Taken
<1>5. Left(m, k) \in Seq(Bytes) /\ Len(Left(m, k)) = Len(m) - k
  BY <1>1, <1>3, SubSeqProperties DEF Left
<1>6. Taken(m, k) \o Left(m, k) = SubSeq(m, 1, Len(m))
  <2>1. 1 \in 1 .. Len(m) + 1 /\ k \in 1 - 1 .. Len(m) /\ Len(m) \in k .. Len(m)
    BY <1>1
  <2>2. SubSeq(m, 1, k) \o SubSeq(m, k + 1, Len(m)) = SubSeq(m, 1, Len(m))
    BY <2>1, ConcatAdjacentSubSeq
  <2> QED BY <2>2 DEF Taken, Left
<1>7. SubSeq(m, 1, Len(m)) = m
  BY SubSeqFull
<1>8. k = Len(m) => Left(m, k) = << >>
  BY <1>1, SubSeqEmpty DEF Left
<1> QED BY <1>4, <1>5, <1>6, <1>7, <1>8

(* Rounding up to a multiple of Block never rounds down.                    *)
LEMMA RoundUpCovers ==
  ASSUME NEW n \in Nat
  PROVE  RoundUp(n) \in Nat /\ RoundUp(n) >= n
<1> DEFINE q == (n + Block - 1) \div Block
<1>1. Block \in Nat /\ Block > 0
  BY BlockAssumption
<1>2. q \in Nat /\ n + Block - 1 < (q + 1) * Block
  BY <1>1
<1>3. (q + 1) * Block = q * Block + Block /\ q * Block \in Nat
  BY <1>1, <1>2
<1> QED BY <1>1, <1>2, <1>3 DEF RoundUp

-----------------------------------------------------------------------------
(* What holds together: the buffer is also empty once the server has shut  *)
(* the socket down, which is what makes InOrder say that all was written.  *)
(* It needs callers that do not ask for a shutdown with an empty string.   *)
NoEmptyBurn == << << >>, TRUE >> \notin Calls
ShutEmpty == NoEmptyBurn /\ conn = "shut" => buf = << >>

IInv == TypeOK /\ InOrder /\ ShutEmpty /\ WithinAllocation

LEMMA InitInv == Init => IInv
<1> SUFFICES ASSUME Init PROVE IInv
  OBVIOUS
<1>1. << >> \in Seq(Bytes)
  OBVIOUS
<1>2. wire = << >> /\ buf = << >> /\ sent = << >>
  BY DEF Init
<1>3. wire \o << >> = wire
  BY <1>1, <1>2, ConcatEmptySeq, Zenon
<1>4. InOrder
  BY <1>2, <1>3, Zenon DEF InOrder
<1>5. TypeOK /\ ShutEmpty /\ WithinAllocation
  BY <1>1 DEF Init, TypeOK, ShutEmpty, WithinAllocation
<1> QED BY <1>4, <1>5 DEF IInv

(* Growing for n bytes leaves room for n bytes.                             *)
LEMMA GrownCovers ==
  ASSUME NEW n \in Nat, alloc \in Nat
  PROVE  Grown(n) \in Nat /\ n <= Grown(n)
BY RoundUpCovers DEF Grown

LEMMA EnqueueInv ==
  ASSUME IInv, NEW m \in Seq(Bytes), NEW b \in BOOLEAN,
         conn = "open", sent' = sent \o m, Enqueue(m, b)
  PROVE  IInv'
<1>1. m \in Seq(Bytes)
  OBVIOUS
<1>2. /\ wire \in Seq(Bytes) /\ buf \in Seq(Bytes) /\ sent \in Seq(Bytes)
      /\ alloc \in Nat /\ burn \in BOOLEAN /\ wire \o buf = sent
  BY DEF IInv, TypeOK, InOrder
<1>3. /\ buf' = buf \o m /\ wire' = wire /\ conn' = conn
      /\ alloc' = Grown(Len(buf) + Len(m)) /\ burn' \in BOOLEAN
  BY <1>2 DEF Enqueue
<1>4. buf' \in Seq(Bytes) /\ sent' \in Seq(Bytes) /\ Len(buf') = Len(buf) + Len(m)
  BY <1>1, <1>2, <1>3, ConcatProperties
<1>5. Len(buf) + Len(m) \in Nat
  BY <1>1, <1>2, LenProperties
<1>6. alloc' \in Nat /\ Len(buf') <= alloc'
  BY <1>2, <1>3, <1>4, <1>5, GrownCovers
<1>7. wire' \o buf' = sent'
  <2>1. (wire \o buf) \o m = wire \o (buf \o m)
    BY <1>1, <1>2, Assoc, ZenonT(60)
  <2> QED BY <1>2, <1>3, <2>1, Zenon
<1> QED
  BY <1>2, <1>3, <1>4, <1>6, <1>7
  DEF IInv, TypeOK, InOrder, ShutEmpty, WithinAllocation

LEMMA WriteInv ==
  ASSUME IInv, NEW m \in Seq(Bytes), NEW b \in BOOLEAN, NEW k \in 0 .. Len(m),
         conn = "open", sent' = sent \o m, ~MustQueue, WriteThrough(m, k, b)
  PROVE  IInv'
<1>1. m \in Seq(Bytes) /\ Len(m) \in Nat
  BY LenProperties
<1>2. /\ wire \in Seq(Bytes) /\ buf = << >> /\ sent \in Seq(Bytes)
      /\ alloc \in Nat /\ burn \in BOOLEAN /\ wire \o buf = sent
  BY DEF IInv, TypeOK, InOrder, MustQueue
<1>3. wire = sent
  BY <1>2, ConcatEmptySeq
<1>4. /\ Taken(m, k) \in Seq(Bytes) /\ Left(m, k) \in Seq(Bytes)
      /\ Taken(m, k) \o Left(m, k) = m /\ Len(Left(m, k)) = Len(m) - k
      /\ k = Len(m) => Left(m, k) = << >>
  BY <1>1, SplitString
<1>5. buf' = Left(m, k)
  BY <1>2, <1>4, ConcatEmptySeq DEF WriteThrough
<1>6. wire' = wire \o Taken(m, k) /\ wire' \in Seq(Bytes) /\ sent' \in Seq(Bytes)
  BY <1>1, <1>2, <1>4, ConcatProperties DEF WriteThrough
<1>7. wire' \o buf' = sent'
  <2> DEFINE p == Taken(m, k)
             q == Left(m, k)
  <2>0. wire \in Seq(Bytes) /\ p \in Seq(Bytes) /\ q \in Seq(Bytes)
    BY <1>2, <1>4
  <2> HIDE DEF p, q
  <2>1. (wire \o p) \o q = wire \o (p \o q)
    BY <2>0, Assoc, Zenon
  <2> QED BY <1>3, <1>4, <1>5, <1>6, <2>1, Zenon DEF p, q
<1>8. alloc' \in Nat /\ (buf' # << >> => Len(buf') <= alloc')
  <2>1. CASE k = Len(m)
    BY <1>2, <1>4, <1>5, <2>1 DEF WriteThrough
  <2>2. CASE k # Len(m)
    <3>1. Len(buf) = 0 /\ Len(m) - k \in Nat
      BY <1>1, <1>2, EmptySeq
    <3>2. alloc' = Grown(Len(m) - k)
      BY <1>1, <2>2, <3>1 DEF WriteThrough
    <3> QED BY <1>2, <1>4, <1>5, <3>1, <3>2, GrownCovers
  <2> QED BY <2>1, <2>2
<1>9. conn' \in {"open", "shut"} /\ burn' \in BOOLEAN /\ (conn' = "shut" => buf' = << >>)
  BY <1>2, <1>4, <1>5 DEF WriteThrough
<1> QED
  BY <1>5, <1>4, <1>6, <1>7, <1>8, <1>9
  DEF IInv, TypeOK, InOrder, ShutEmpty, WithinAllocation

LEMMA DrainInv ==
  ASSUME IInv, sendqueue
  PROVE  IInv'
<1>1. /\ wire \in Seq(Bytes) /\ buf \in Seq(Bytes) /\ sent \in Seq(Bytes)
      /\ alloc \in Nat /\ burn \in BOOLEAN /\ wire \o buf = sent
      /\ Len(buf) \in Nat /\ Len(buf) <= alloc
  BY LenProperties DEF IInv, TypeOK, InOrder, WithinAllocation, sendqueue
<1>2. PICK k \in 1 .. Len(buf) :
        /\ wire' = wire \o Taken(buf, k)
        /\ buf' = Rest(k)
        /\ conn' = IF k = Len(buf) /\ burn THEN "shut" ELSE conn
  BY DEF sendqueue
<1>3. k \in 0 .. Len(buf)
  BY <1>1
<1>4. /\ Taken(buf, k) \in Seq(Bytes) /\ Left(buf, k) \in Seq(Bytes)
      /\ Taken(buf, k) \o Left(buf, k) = buf /\ Len(Left(buf, k)) = Len(buf) - k
      /\ k = Len(buf) => Left(buf, k) = << >>
  BY <1>1, <1>3, SplitString
<1>5. buf' = Left(buf, k)
  BY <1>2 DEF Rest
<1>6. UNCHANGED <<sent, alloc, burn>> /\ conn = "open"
  BY DEF sendqueue
<1>7. wire' \in Seq(Bytes)
  BY <1>1, <1>2, <1>4, ConcatProperties
<1>8. wire' \o buf' = sent'
  <2> DEFINE p == Taken(buf, k)
             q == Left(buf, k)
  <2>0. wire \in Seq(Bytes) /\ p \in Seq(Bytes) /\ q \in Seq(Bytes)
    BY <1>1, <1>4
  <2> HIDE DEF p, q
  <2>1. (wire \o p) \o q = wire \o (p \o q)
    BY <2>0, Assoc, Zenon
  <2> QED BY <1>1, <1>2, <1>4, <1>5, <1>6, <2>1, Zenon DEF p, q
<1>9. Len(buf') <= alloc' /\ (conn' = "shut" => buf' = << >>) /\ conn' \in {"open", "shut"}
  BY <1>1, <1>2, <1>3, <1>4, <1>5, <1>6
<1> QED
  BY <1>1, <1>4, <1>5, <1>6, <1>7, <1>8, <1>9
  DEF IInv, TypeOK, InOrder, ShutEmpty, WithinAllocation

LEMMA StepInv == IInv /\ [Next]_vars => IInv'
<1> SUFFICES ASSUME IInv, [Next]_vars PROVE IInv'
  OBVIOUS
<1>1. CASE \E c \in Calls : sendbin(c[1], c[2])
  <2>1. PICK c \in Calls : sendbin(c[1], c[2])
    BY <1>1
  <2>2. c[1] \in Seq(Bytes) /\ c[2] \in BOOLEAN /\ c = <<c[1], c[2]>>
    BY CallAssumption
  <2>3. conn = "open" /\ sent' = sent \o c[1]
    BY <2>1 DEF sendbin
  <2>4. CASE c[1] = << >> /\ SendNothing(c[2])
    <3>1. sent' = sent
      BY <2>3, <2>4, ConcatEmptySeq DEF IInv, TypeOK
    <3>2. UNCHANGED <<wire, buf, alloc, burn>> /\ conn' \in {"open", "shut"}
      BY <2>3, <2>4 DEF SendNothing
    <3>3. NoEmptyBurn => conn' = "open"
      BY <2>2, <2>3, <2>4 DEF SendNothing, NoEmptyBurn
    <3> QED
      BY <3>1, <3>2, <3>3 DEF IInv, TypeOK, InOrder, ShutEmpty, WithinAllocation
  <2>5. CASE Enqueue(c[1], c[2])
    BY <2>2, <2>3, <2>5, EnqueueInv
  <2>6. CASE ~MustQueue /\ \E k \in 0 .. Len(c[1]) : WriteThrough(c[1], k, c[2])
    BY <2>2, <2>3, <2>6, WriteInv
  <2> QED BY <2>1, <2>4, <2>5, <2>6 DEF sendbin
<1>2. CASE safe_shutdown
  BY <1>2 DEF safe_shutdown, IInv, TypeOK, InOrder, ShutEmpty, WithinAllocation
<1>3. CASE sendqueue
  BY <1>3, DrainInv
<1>4. CASE PeerGone
  BY <1>4 DEF PeerGone, IInv, TypeOK, InOrder, ShutEmpty, WithinAllocation
<1>5. CASE UNCHANGED vars
  BY <1>5 DEF vars, IInv, TypeOK, InOrder, ShutEmpty, WithinAllocation
<1> QED BY <1>1, <1>2, <1>3, <1>4, <1>5 DEF Next

THEOREM Invariance == Spec => []IInv
BY InitInv, StepInv, PTL DEF Spec

(* Bytes leave in the order they were sent, none twice, none missing        *)
(* before one that was written (sendbin, sendqueue).                        *)
THEOREM OrderedDelivery == Spec => []InOrder
<1>1. IInv => InOrder
  BY DEF IInv
<1> QED BY <1>1, Invariance, PTL

(* The server shuts a socket down only when all it sent has been written    *)
(* (safe_shutdown, burn_after_writing), provided that no caller asks for    *)
(* the shutdown along with an empty string.                                 *)
THEOREM NoCutOff ==
  ASSUME NoEmptyBurn
  PROVE  Spec => []CompleteBeforeShutdown
<1>1. IInv => CompleteBeforeShutdown
  BY NoEmptyBurn, ConcatEmptySeq
  DEF IInv, TypeOK, InOrder, ShutEmpty, CompleteBeforeShutdown
<1> QED BY <1>1, Invariance, PTL

(* The memcpy() of sendbin() stays within the buffer, for every block size. *)
THEOREM NoOverrun == Spec => []WithinAllocation
<1>1. IInv => WithinAllocation
  BY DEF IInv
<1> QED BY <1>1, Invariance, PTL

-----------------------------------------------------------------------------
(* The sockets of scripts.                                                 *)

(* What a script object says of itself agrees with the descriptor, whose   *)
(* kind is k and whose attach is a, and with the place p of the loop.      *)
(* Only an object that is gone, or whose farewell is being said, has heard *)
(* of a disconnection; one that waits for its connection heard nothing.    *)
InOrderOf(o, i, a, p) ==
  \A n \in 1 .. Len(o.heard) :
     /\ o.heard[n].e = "connect" => n = 1
     /\ o.heard[n].e = "disconnect" =>
          n = Len(o.heard) /\ (o.stage = "gone" \/ (a = i /\ p = "farewell"))
     /\ o.heard[n].e = "read" /\ ~o.state => n <= o.closedAt

ObjectOk(o, i, k, a, p) ==
  /\ o.client <=> k = "online" /\ a = i
  /\ a = i => o.stage = IF k = "progress" THEN "connecting" ELSE "open"
  /\ a # i => o.stage \in {"resolving", "lost", "gone"}
  /\ o.stage = "gone" <=> ~o.private
  /\ o.stage = "gone" => o.heard # << >>
  /\ o.stage = "resolving" \/ (a = i /\ k = "progress" /\ p # "farewell") => o.heard = << >>
  /\ InOrderOf(o, i, a, p)

ObjectsOk(os, k, a, p) == \A i \in 1 .. Len(os) : ObjectOk(os[i], i, k, a, p)

(* The descriptor before it is connected is as close_socket() left it, and *)
(* the loop is in the middle of reading only on a connection.              *)
Untouched == kind # "online" => inbox = << >> /\ ~fin /\ conn = "open" /\ sent = << >>
LoopOk == /\ pc \in {"read", "lines", "called"} => kind = "online"
          /\ pc = "farewell" => kind # "closed"
OwnWords == \A k \in 1 .. Len(sent) : attach # 0 /\ sent[k] \in Letters(attach)

(* The inductive invariant.                                                *)
KInv ==
  /\ IInv /\ SocketTypeOK
  /\ ObjectsOk(objs, kind, attach, pc)
  /\ Untouched /\ LoopOk /\ OwnWords /\ NothingMissed

-----------------------------------------------------------------------------
(* Strings and lists.                                                      *)

LEMMA Least ==
  ASSUME NEW T \in SUBSET Nat, T # {}
  PROVE  \E x \in T : \A y \in T : x <= y
<1> DEFINE R == OpToRel(<, Nat)
<1>1. IsWellFoundedOn(R, Nat)
  BY NatLessThanWellFounded
<1>2. ASSUME NEW x \in Nat, NEW y \in Nat, y < x PROVE <<y, x>> \in R
  BY <1>2 DEF OpToRel
<1> HIDE DEF R
<1>3. PICK x \in T : \A y \in T : ~(<<y, x>> \in R)
  BY <1>1, WFMin
<1>4. ASSUME NEW y \in T PROVE x <= y
  <2>1. x \in Nat /\ y \in Nat
    OBVIOUS
  <2>2. ~(y < x)
    BY <1>2, <1>3, <2>1
  <2> QED
    BY <2>1, <2>2
<1> QED
  BY <1>4

(* The first k letters of what was read, and the others.                   *)
LEMMA Cut ==
  ASSUME NEW m \in Seq(Alphabet), NEW k \in 0 .. Len(m)
  PROVE  /\ Taken(m, k) \in Seq(Alphabet) /\ Len(Taken(m, k)) = k
         /\ Left(m, k) \in Seq(Alphabet) /\ Len(Left(m, k)) = Len(m) - k
<1>1. k \in Nat /\ Len(m) \in Nat /\ k <= Len(m)
  BY LenProperties
<1>2. \A i \in 1 .. k : m[i] \in Alphabet
  BY <1>1, ElementOfSeq
<1>3. \A i \in k + 1 .. Len(m) : m[i] \in Alphabet
  BY <1>1, ElementOfSeq
<1>4. Taken(m, k) \in Seq(Alphabet) /\ Len(Taken(m, k)) = k
  BY <1>1, <1>2, SubSeqProperties DEF Taken
<1>5. Left(m, k) \in Seq(Alphabet) /\ Len(Left(m, k)) = Len(m) - k
  BY <1>1, <1>3, SubSeqProperties DEF Left
<1> QED
  BY <1>4, <1>5

-----------------------------------------------------------------------------
(* Objects.                                                                *)

(* The loop goes on to another place.                                      *)
LEMMA Reloop ==
  ASSUME NEW os, NEW k, NEW a, NEW p, NEW q, ObjectsOk(os, k, a, p),
         p # "farewell", q # "farewell"
  PROVE  ObjectsOk(os, k, a, q)
  BY DEF ObjectsOk, ObjectOk, InOrderOf

(* One object changes.                                                     *)
LEMMA OneChanged ==
  ASSUME NEW os \in Seq(ScriptObject), NEW k, NEW a, NEW p,
         NEW i \in 1 .. Len(os), NEW o \in ScriptObject, ObjectOk(o, i, k, a, p),
         \A j \in 1 .. Len(os) : j # i => ObjectOk(os[j], j, k, a, p)
  PROVE  /\ [os EXCEPT ![i] = o] \in Seq(ScriptObject)
         /\ Len([os EXCEPT ![i] = o]) = Len(os)
         /\ ObjectsOk([os EXCEPT ![i] = o], k, a, p)
<1> DEFINE n == [os EXCEPT ![i] = o]
<1>1. /\ n \in Seq(ScriptObject) /\ Len(n) = Len(os)
      /\ \A j \in 1 .. Len(os) : n[j] = IF j = i THEN o ELSE os[j]
  BY ExceptSeq
<1> HIDE DEF n
<1>2. ObjectsOk(n, k, a, p)
  BY <1>1 DEF ObjectsOk
<1> QED
  BY <1>1, <1>2 DEF n

(* One object more.                                                        *)
LEMMA OneAdded ==
  ASSUME NEW os \in Seq(ScriptObject), NEW k, NEW a, NEW p,
         NEW o \in ScriptObject, ObjectOk(o, Len(os) + 1, k, a, p),
         \A j \in 1 .. Len(os) : ObjectOk(os[j], j, k, a, p)
  PROVE  /\ Append(os, o) \in Seq(ScriptObject)
         /\ Len(Append(os, o)) = Len(os) + 1
         /\ ObjectsOk(Append(os, o), k, a, p)
<1> DEFINE n == Append(os, o)
<1>1. /\ n \in Seq(ScriptObject) /\ Len(n) = Len(os) + 1 /\ n[Len(os) + 1] = o
      /\ \A j \in 1 .. Len(os) : n[j] = os[j]
  BY AppendProperties
<1>2. Len(os) \in Nat
  BY LenProperties
<1> HIDE DEF n
<1>3. ASSUME NEW j \in 1 .. Len(n) PROVE ObjectOk(n[j], j, k, a, p)
  <2>1. CASE j = Len(os) + 1
    BY <1>1, <2>1
  <2>2. CASE j # Len(os) + 1
    <3>1. j \in 1 .. Len(os)
      BY <1>1, <1>2, <2>2
    <3> QED
      BY <1>1, <3>1
  <2> QED
    BY <2>1, <2>2
<1> QED
  BY <1>1, <1>3 DEF ObjectsOk, n

(* New objects, and what they become when nothing comes of them.           *)
LEMMA Made ==
  ASSUME NEW stage \in Stages, NEW lf \in BOOLEAN, NEW client \in BOOLEAN
  PROVE  LET o == Object(stage, lf, client) IN
         /\ o \in ScriptObject /\ o.stage = stage /\ o.lf = lf /\ o.private /\ o.client = client
         /\ o.state /\ o.heard = << >>
  BY EmptySeq DEF Object, ScriptObject

(* An object hears something.                                              *)
LEMMA Hears ==
  ASSUME NEW o \in ScriptObject, NEW e \in {"connect", "read", "disconnect"},
         NEW s \in Seq(Alphabet)
  PROVE  LET h == Append(o.heard, [e |-> e, s |-> s])
         IN  /\ h \in Seq(ScriptCall) /\ Len(h) = Len(o.heard) + 1 /\ Len(o.heard) \in Nat
             /\ h # << >> /\ h[Len(o.heard) + 1].e = e
             /\ \A n \in 1 .. Len(o.heard) : h[n] = o.heard[n]
<1>1. o.heard \in Seq(ScriptCall) /\ [e |-> e, s |-> s] \in ScriptCall
  BY DEF ScriptObject, ScriptCall
<1>2. Len(o.heard) \in Nat
  BY <1>1, LenProperties
<1> QED
  BY <1>1, <1>2, AppendProperties

-----------------------------------------------------------------------------
(* The actions.                                                            *)
Preserved ==
  /\ IInv' /\ SocketTypeOK'
  /\ ObjectsOk(objs', kind', attach', pc')
  /\ Untouched' /\ LoopOk' /\ OwnWords' /\ NothingMissed'

(* Nothing is written.                                                     *)
LEMMA SameOutput ==
  ASSUME IInv, UNCHANGED vars
  PROVE  IInv' /\ TypeOK'
<1>1. IInv'
  BY StepInv
<1> QED
  BY <1>1 DEF IInv

(* Steps that change no object and neither open nor close the descriptor.  *)
LEMMA SameObjects ==
  ASSUME KInv, UNCHANGED <<objs, kind, attach>>,
         pc' = pc \/ (pc # "farewell" /\ pc' # "farewell")
  PROVE  ObjectsOk(objs', kind', attach', pc')
<1>1. CASE pc' = pc
  BY <1>1 DEF KInv
<1>2. CASE pc # "farewell" /\ pc' # "farewell"
  BY <1>2, Reloop DEF KInv
<1> QED
  BY <1>1, <1>2

LEMMA ListenStep ==
  ASSUME KInv, NEW mode \in {"lines", "bytes"}, Listen(mode) \/ ServerClose \/ ServerClosed
  PROVE  Preserved
<1>0. server \in Servers
  BY DEF KInv, SocketTypeOK
<1>1. /\ UNCHANGED <<vars, objs, kind, attach, inbuf, size, text, inbox, fin, edge, pc>>
      /\ server' \in Servers
  <2>1. CASE Listen(mode)
    BY <1>0, <2>1 DEF Listen, ape_listen, Servers, input, loop
  <2>2. CASE ServerClose
    BY <1>0, <2>2 DEF ServerClose, Servers, input, loop
  <2>3. CASE ServerClosed
    BY <1>0, <2>3 DEF ServerClosed, Servers, input, loop
  <2> QED
    BY <2>1, <2>2, <2>3
<1>2. IInv' /\ TypeOK'
  BY <1>1, SameOutput DEF KInv
<1>3. ObjectsOk(objs', kind', attach', pc')
  BY <1>1, SameObjects
<1>4. SocketTypeOK'
  BY <1>1, <1>2 DEF KInv, SocketTypeOK
<1> QED
  BY <1>1, <1>2, <1>3, <1>4 DEF Preserved, KInv, Untouched, LoopOk, OwnWords, NothingMissed, Ended, vars

LEMMA ArriveStep ==
  ASSUME KInv, NEW c \in Alphabet, Arrive(c)
  PROVE  Preserved
<1>1. /\ UNCHANGED <<vars, objs, server, kind, attach, inbuf, size, fin, pc>>
      /\ text' = Append(text, c) /\ inbox' = Append(inbox, c) /\ edge' = TRUE /\ kind = "online"
  BY DEF Arrive, script
<1>2. IInv' /\ TypeOK'
  BY <1>1, SameOutput DEF KInv
<1>3. ObjectsOk(objs', kind', attach', pc')
  BY <1>1, SameObjects
<1>4. text' \in Seq(Alphabet) /\ inbox' \in Seq(Alphabet)
  BY <1>1 DEF KInv, SocketTypeOK
<1>5. SocketTypeOK'
  BY <1>1, <1>2, <1>4 DEF KInv, SocketTypeOK
<1> QED
  BY <1>1, <1>2, <1>3, <1>5 DEF Preserved, KInv, Untouched, LoopOk, OwnWords, NothingMissed, vars

LEMMA FinishStep ==
  ASSUME KInv, Finish
  PROVE  Preserved
<1>1. /\ UNCHANGED <<vars, objs, server, kind, attach, inbuf, size, text, inbox, pc>>
      /\ fin' = TRUE /\ edge' = TRUE /\ kind = "online"
  BY DEF Finish, script
<1>2. IInv' /\ TypeOK'
  BY <1>1, SameOutput DEF KInv
<1>3. ObjectsOk(objs', kind', attach', pc')
  BY <1>1, SameObjects
<1>4. SocketTypeOK'
  BY <1>1, <1>2 DEF KInv, SocketTypeOK
<1> QED
  BY <1>1, <1>2, <1>3, <1>4 DEF Preserved, KInv, Untouched, LoopOk, OwnWords, NothingMissed, vars

(* Cut off by the peer, or by a server object that had the number before.  *)
LEMMA ResetStep ==
  ASSUME KInv, Reset \/ ServerCloseAgain
  PROVE  Preserved
<1>1. /\ UNCHANGED <<objs, server, kind, attach, inbuf, size, text, inbox, fin, pc>>
      /\ edge' = TRUE /\ kind = "online" /\ PeerGone
  BY DEF Reset, ServerCloseAgain, script, input
<1>2. IInv'
  BY <1>1, StepInv DEF KInv, Next
<1>3. ObjectsOk(objs', kind', attach', pc')
  BY <1>1, SameObjects
<1>4. SocketTypeOK'
  BY <1>1, <1>2 DEF KInv, SocketTypeOK, IInv
<1>5. sent' = sent
  BY <1>1 DEF PeerGone
<1> QED
  BY <1>1, <1>2, <1>3, <1>4, <1>5 DEF Preserved, KInv, Untouched, LoopOk, OwnWords, NothingMissed

LEMMA PollStep ==
  ASSUME KInv, Poll
  PROVE  Preserved
<1>1. /\ UNCHANGED <<vars, objs, server, kind, attach, inbuf, size, text, inbox, fin>>
      /\ edge' = FALSE /\ kind = "online" /\ pc = "idle" /\ pc' = "read"
  BY DEF Poll, script, input
<1>2. IInv' /\ TypeOK'
  BY <1>1, SameOutput DEF KInv
<1>3. ObjectsOk(objs', kind', attach', pc')
  BY <1>1, SameObjects
<1>4. SocketTypeOK'
  BY <1>1, <1>2 DEF KInv, SocketTypeOK
<1> QED
  BY <1>1, <1>2, <1>3, <1>4 DEF Preserved, KInv, Untouched, LoopOk, OwnWords, NothingMissed, vars

LEMMA NoMoreLinesStep ==
  ASSUME KInv, NoMoreLines
  PROVE  Preserved
<1>1. /\ UNCHANGED <<vars, objs, server, kind, attach, size, text, inbox, fin, edge>>
      /\ inbuf' = Kept /\ pc = "lines" /\ pc' = "read"
  BY DEF NoMoreLines, script, NextTurn
<1>2. IInv' /\ TypeOK'
  BY <1>1, SameOutput DEF KInv
<1>3. ObjectsOk(objs', kind', attach', pc')
  BY <1>1, SameObjects
<1>4. inbuf' \in Seq(Alphabet) /\ Len(inbuf') < size
  BY <1>1, EmptySeq DEF KInv, SocketTypeOK, Kept
<1>5. SocketTypeOK'
  BY <1>1, <1>2, <1>4 DEF KInv, SocketTypeOK
<1> QED
  BY <1>1, <1>2, <1>3, <1>5 DEF Preserved, KInv, Untouched, LoopOk, OwnWords, NothingMissed, vars

LEMMA ReturnStep ==
  ASSUME KInv, Return
  PROVE  Preserved
<1>1. /\ UNCHANGED <<vars, objs, server, kind, attach, inbuf, size, text, inbox, fin, edge>>
      /\ pc = "called" /\ pc' \in {"lines", "read"}
  BY DEF Return, script, input, NextTurn
<1>2. IInv' /\ TypeOK'
  BY <1>1, SameOutput DEF KInv
<1>3. ObjectsOk(objs', kind', attach', pc')
  BY <1>1, SameObjects
<1>4. SocketTypeOK'
  BY <1>1, <1>2 DEF KInv, SocketTypeOK
<1> QED
  BY <1>1, <1>2, <1>3, <1>4 DEF Preserved, KInv, Untouched, LoopOk, OwnWords, NothingMissed, vars

(* The loop leaves the descriptor only when there is nothing to read.      *)
LEMMA ReadNothingStep ==
  ASSUME KInv, ReadNothing
  PROVE  Preserved
<1>1. /\ UNCHANGED <<vars, objs, server, kind, attach, inbuf, size, text, inbox, fin, edge>>
      /\ pc = "read" /\ pc' = "idle" /\ inbox = << >> /\ ~Ended
  BY DEF ReadNothing, script, input
<1>2. IInv' /\ TypeOK'
  BY <1>1, SameOutput DEF KInv
<1>3. ObjectsOk(objs', kind', attach', pc')
  BY <1>1, SameObjects
<1>4. SocketTypeOK'
  BY <1>1, <1>2 DEF KInv, SocketTypeOK
<1> QED
  BY <1>1, <1>2, <1>3, <1>4
  DEF Preserved, KInv, Untouched, LoopOk, OwnWords, NothingMissed, Ended, vars

(* The object of the connection is called: with data while it listens, or  *)
(* for the last time.                                                      *)
Callable(os, k, a, q, e) ==
  \/ e = "read" /\ os[a].state /\ k # "progress" /\ q # "farewell"
  \/ e = "disconnect" /\ q = "farewell"
Called(os, m, a, e, s) ==
  m = [os EXCEPT ![a].heard = Append(os[a].heard, [e |-> e, s |-> s])]

LEMMA HearOk ==
  ASSUME NEW os \in Seq(ScriptObject), NEW k, NEW a \in 1 .. Len(os), NEW p, NEW q,
         ObjectsOk(os, k, a, p), p # "farewell",
         NEW e, NEW s \in Seq(Alphabet), Callable(os, k, a, q, e),
         NEW m, Called(os, m, a, e, s)
  PROVE  m \in Seq(ScriptObject) /\ Len(m) = Len(os) /\ ObjectsOk(m, k, a, q)
<1> USE DEF Callable, Called
<1> DEFINE h == Append(os[a].heard, [e |-> e, s |-> s])
           o == [os[a] EXCEPT !.heard = h]
<1>1. os[a] \in ScriptObject /\ ObjectOk(os[a], a, k, a, p)
  BY ElementOfSeq DEF ObjectsOk
<1>2. /\ h \in Seq(ScriptCall) /\ Len(h) = Len(os[a].heard) + 1 /\ Len(os[a].heard) \in Nat
      /\ h # << >> /\ h[Len(os[a].heard) + 1].e = e
      /\ \A n \in 1 .. Len(os[a].heard) : h[n] = os[a].heard[n]
  BY <1>1, Hears
<1>3. m = [os EXCEPT ![a] = o]
  OBVIOUS
<1> HIDE DEF h
<1>4. /\ o \in ScriptObject /\ o.heard = h /\ o.stage = os[a].stage /\ o.client = os[a].client
      /\ o.private = os[a].private /\ o.state = os[a].state /\ o.closedAt = os[a].closedAt
  BY <1>1, <1>2 DEF ScriptObject
<1> HIDE DEF o
<1>5. InOrderOf(o, a, a, q)
  <2> SUFFICES ASSUME NEW n \in 1 .. Len(o.heard)
               PROVE  /\ o.heard[n].e = "connect" => n = 1
                      /\ o.heard[n].e = "disconnect" =>
                           n = Len(o.heard) /\ (o.stage = "gone" \/ (a = a /\ q = "farewell"))
                      /\ o.heard[n].e = "read" /\ ~o.state => n <= o.closedAt
    BY DEF InOrderOf
  <2>1. CASE n = Len(os[a].heard) + 1
    BY <1>2, <1>4, <2>1
  <2>2. CASE n # Len(os[a].heard) + 1
    <3>1. n \in 1 .. Len(os[a].heard) /\ o.heard[n] = os[a].heard[n]
      BY <1>2, <1>4, <2>2
    <3>2. os[a].heard[n].e # "disconnect"
      BY <1>1, <3>1 DEF ObjectOk, InOrderOf
    <3> QED
      BY <1>1, <1>4, <3>1, <3>2 DEF ObjectOk, InOrderOf
  <2> QED
    BY <2>1, <2>2
<1>6. ObjectOk(o, a, k, a, q)
  BY <1>1, <1>2, <1>4, <1>5 DEF ObjectOk
<1>7. ASSUME NEW j \in 1 .. Len(os), j # a PROVE ObjectOk(os[j], j, k, a, q)
  BY <1>7 DEF ObjectsOk, ObjectOk, InOrderOf
<1>8. /\ [os EXCEPT ![a] = o] \in Seq(ScriptObject)
      /\ Len([os EXCEPT ![a] = o]) = Len(os)
      /\ ObjectsOk([os EXCEPT ![a] = o], k, a, q)
  <2> HIDE DEF Callable, Called
  <2> QED
    BY <1>4, <1>6, <1>7, OneChanged
<1> QED
  BY <1>3, <1>8

LEMMA ReadSomeStep ==
  ASSUME KInv, ReadSome
  PROVE  Preserved
<1> DEFINE data == inbuf \o Taken(inbox, Chunk)
<1>1. /\ UNCHANGED <<vars, server, kind, attach, text, fin, edge>>
      /\ pc = "read" /\ inbox' = Left(inbox, Chunk) /\ size' = SizeFor(Len(inbuf) + Chunk)
  BY DEF ReadSome
<1>2. \/ inbuf' = data /\ pc' \in {"lines", "read"} /\ objs' = objs
      \/ /\ objs[attach].state /\ inbuf' = << >> /\ pc' = "called"
         /\ objs' = [objs EXCEPT ![attach].heard =
                       Append(objs[attach].heard, [e |-> "read", s |-> data])]
  BY DEF ReadSome, sm_sock_onread, NextTurn, Heard
<1>3. /\ kind = "online" /\ attach \in 1 .. Len(objs) /\ objs \in Seq(ScriptObject)
      /\ ObjectsOk(objs, kind, attach, pc)
  <2>1. kind = "online"
    BY <1>1 DEF KInv, LoopOk
  <2>2. attach \in 0 .. Len(objs) /\ attach # 0 /\ objs \in Seq(ScriptObject)
    BY <2>1 DEF KInv, SocketTypeOK
  <2>3. Len(objs) \in Nat
    BY <2>2, LenProperties
  <2> QED
    BY <2>1, <2>2, <2>3 DEF KInv
<1>4. /\ inbuf \in Seq(Alphabet) /\ inbox \in Seq(Alphabet) /\ size \in Nat /\ Len(inbuf) < size
      /\ Len(inbuf) \in Nat /\ Len(inbox) \in Nat
  BY LenProperties DEF KInv, SocketTypeOK
<1>5. Chunk \in 0 .. Len(inbox) /\ Len(inbuf) + Chunk <= size
  BY <1>4 DEF Chunk
<1>6. Taken(inbox, Chunk) \in Seq(Alphabet) /\ Len(Taken(inbox, Chunk)) = Chunk
      /\ inbox' \in Seq(Alphabet)
  BY <1>1, <1>4, <1>5, Cut
<1>7. data \in Seq(Alphabet) /\ Len(data) = Len(inbuf) + Chunk
  BY <1>4, <1>6, ConcatProperties
<1>8. size' \in Nat /\ Len(inbuf) + Chunk < size' /\ 0 < size'
  BY <1>1, <1>4, <1>5 DEF SizeFor
<1> HIDE DEF data
<1>9. IInv' /\ TypeOK'
  BY <1>1, SameOutput DEF KInv
<1>10. objs' \in Seq(ScriptObject) /\ Len(objs') = Len(objs) /\ ObjectsOk(objs', kind, attach, pc')
  <2>1. CASE objs' = objs /\ pc' \in {"lines", "read"}
    BY <1>1, <1>3, <2>1, Reloop
  <2>2. CASE /\ objs[attach].state /\ pc' = "called"
             /\ objs' = [objs EXCEPT ![attach].heard =
                           Append(objs[attach].heard, [e |-> "read", s |-> data])]
    <3>1. Callable(objs, kind, attach, pc', "read")
      BY <1>3, <2>2 DEF Callable
    <3>2. Called(objs, objs', attach, "read", data) /\ pc # "farewell"
      BY <1>1, <2>2 DEF Called
    <3> QED
      BY <1>3, <1>7, <3>1, <3>2, HearOk
  <2> QED
    BY <1>2, <2>1, <2>2
<1>11. inbuf' \in Seq(Alphabet) /\ Len(inbuf') < size' /\ pc' \in {"lines", "read", "called"}
  BY <1>2, <1>7, <1>8, EmptySeq
<1>12. SocketTypeOK'
  BY <1>1, <1>6, <1>8, <1>9, <1>10, <1>11 DEF KInv, SocketTypeOK
<1>13. Untouched' /\ LoopOk' /\ OwnWords' /\ NothingMissed'
  BY <1>1, <1>3, <1>11 DEF KInv, Untouched, LoopOk, OwnWords, NothingMissed, vars
<1> QED
  BY <1>1, <1>9, <1>10, <1>12, <1>13 DEF Preserved

LEMMA FirstLine ==
  ASSUME inbuf \in Seq(Alphabet), LineEnds # {}
  PROVE  FirstEnd \in 1 .. Len(inbuf)
<1>1. Len(inbuf) \in Nat
  BY LenProperties
<1>2. LineEnds \in SUBSET Nat /\ LineEnds \subseteq 1 .. Len(inbuf)
  BY <1>1 DEF LineEnds
<1>3. \E x \in LineEnds : \A y \in LineEnds : x <= y
  BY <1>2, Least
<1> QED
  BY <1>2, <1>3 DEF FirstEnd

LEMMA ReadLineStep ==
  ASSUME KInv, ReadLine
  PROVE  Preserved
<1> DEFINE line == Taken(inbuf, FirstEnd - 1)
<1>1. /\ UNCHANGED <<vars, server, kind, attach, size, text, inbox, fin, edge>>
      /\ pc = "lines" /\ inbuf' = Left(inbuf, FirstEnd) /\ LineEnds # {}
  BY DEF ReadLine
<1>2. \/ pc' = pc /\ objs' = objs
      \/ /\ objs[attach].state /\ pc' = "called"
         /\ objs' = [objs EXCEPT ![attach].heard =
                       Append(objs[attach].heard, [e |-> "read", s |-> line])]
  BY DEF ReadLine, sm_sock_onread_lf, Listening, Heard
<1>3. /\ kind = "online" /\ attach \in 1 .. Len(objs) /\ objs \in Seq(ScriptObject)
      /\ ObjectsOk(objs, kind, attach, pc)
  <2>1. kind = "online"
    BY <1>1 DEF KInv, LoopOk
  <2>2. attach \in 0 .. Len(objs) /\ attach # 0 /\ objs \in Seq(ScriptObject)
    BY <2>1 DEF KInv, SocketTypeOK
  <2>3. Len(objs) \in Nat
    BY <2>2, LenProperties
  <2> QED
    BY <2>1, <2>2, <2>3 DEF KInv
<1>4. /\ inbuf \in Seq(Alphabet) /\ size \in Nat /\ Len(inbuf) < size /\ Len(inbuf) \in Nat
  BY LenProperties DEF KInv, SocketTypeOK
<1>5. FirstEnd \in 1 .. Len(inbuf)
  BY <1>1, <1>4, FirstLine
<1>6. FirstEnd \in 0 .. Len(inbuf) /\ FirstEnd - 1 \in 0 .. Len(inbuf)
  BY <1>4, <1>5
<1>7. line \in Seq(Alphabet)
  BY <1>4, <1>6, Cut
<1>8. inbuf' \in Seq(Alphabet) /\ Len(inbuf') = Len(inbuf) - FirstEnd
  BY <1>1, <1>4, <1>6, Cut
<1>9. Len(inbuf') < size
  BY <1>4, <1>6, <1>8
<1> HIDE DEF line
<1>10. IInv' /\ TypeOK'
  BY <1>1, SameOutput DEF KInv
<1>11. objs' \in Seq(ScriptObject) /\ Len(objs') = Len(objs) /\ ObjectsOk(objs', kind, attach, pc')
  <2>1. CASE objs' = objs /\ pc' = pc
    BY <1>1, <1>3, <2>1
  <2>2. CASE /\ objs[attach].state /\ pc' = "called"
             /\ objs' = [objs EXCEPT ![attach].heard =
                           Append(objs[attach].heard, [e |-> "read", s |-> line])]
    <3>1. Callable(objs, kind, attach, pc', "read")
      BY <1>3, <2>2 DEF Callable
    <3>2. Called(objs, objs', attach, "read", line) /\ pc # "farewell"
      BY <1>1, <2>2 DEF Called
    <3> QED
      BY <1>3, <1>7, <3>1, <3>2, HearOk
  <2> QED
    BY <1>2, <2>1, <2>2
<1>12. pc' \in {"lines", "called"}
  BY <1>1, <1>2
<1>13. SocketTypeOK'
  BY <1>1, <1>8, <1>9, <1>10, <1>11, <1>12 DEF KInv, SocketTypeOK
<1>14. Untouched' /\ LoopOk' /\ OwnWords' /\ NothingMissed'
  BY <1>1, <1>3, <1>12 DEF KInv, Untouched, LoopOk, OwnWords, NothingMissed, vars
<1> QED
  BY <1>1, <1>10, <1>11, <1>13, <1>14 DEF Preserved

(* The end of a connection, or of an attempt, is told.                     *)
LEMMA FarewellStep ==
  ASSUME KInv, pc # "farewell", kind # "closed", Fails(attach)
  PROVE  Preserved
<1>1. /\ UNCHANGED <<vars, server, kind, attach, inbuf, size, text, inbox, fin, edge>>
      /\ pc' = "farewell"
      /\ objs' = [objs EXCEPT ![attach].heard =
                    Append(objs[attach].heard, [e |-> "disconnect", s |-> << >>])]
  BY DEF Fails, Heard, input
<1>2. attach \in 1 .. Len(objs) /\ objs \in Seq(ScriptObject) /\ ObjectsOk(objs, kind, attach, pc)
  <2>1. attach \in 0 .. Len(objs) /\ attach # 0 /\ objs \in Seq(ScriptObject)
    BY DEF KInv, SocketTypeOK
  <2>2. Len(objs) \in Nat
    BY <2>1, LenProperties
  <2> QED
    BY <2>1, <2>2 DEF KInv
<1>3. IInv' /\ TypeOK'
  BY <1>1, SameOutput DEF KInv
<1>4. << >> \in Seq(Alphabet)
  BY EmptySeq
<1>5. objs' \in Seq(ScriptObject) /\ Len(objs') = Len(objs) /\ ObjectsOk(objs', kind, attach, pc')
  <2>1. Callable(objs, kind, attach, pc', "disconnect")
    BY <1>1 DEF Callable
  <2>2. Called(objs, objs', attach, "disconnect", << >>)
    BY <1>1 DEF Called
  <2> QED
    BY <1>2, <1>4, <2>1, <2>2, HearOk
<1>6. SocketTypeOK'
  BY <1>1, <1>3, <1>5 DEF KInv, SocketTypeOK
<1>7. Untouched' /\ LoopOk' /\ OwnWords' /\ NothingMissed'
  BY <1>1 DEF KInv, Untouched, LoopOk, OwnWords, NothingMissed, vars
<1> QED
  BY <1>1, <1>3, <1>5, <1>6, <1>7 DEF Preserved

LEMMA AtEndStep ==
  ASSUME KInv, AtEnd
  PROVE  Preserved
<1>1. Fails(attach) /\ pc = "read"
  BY DEF AtEnd, Fails
<1>2. pc # "farewell" /\ kind # "closed"
  BY <1>1 DEF KInv, LoopOk
<1> QED
  BY <1>1, <1>2, FarewellStep

LEMMA ConnectDoneStep ==
  ASSUME KInv, ConnectDone
  PROVE  Preserved
<1>1. pc = "idle" /\ kind = "progress"
  BY DEF ConnectDone
<1>2. CASE Fails(attach)
  BY <1>1, <1>2, FarewellStep
<1>3. CASE /\ kind' = "online" /\ objs' = sm_sock_onconnect(attach)
           /\ UNCHANGED <<vars, server, attach, input, loop>>
  <2> DEFINE h == Append(objs[attach].heard, [e |-> "connect", s |-> << >>])
             o == [objs[attach] EXCEPT !.client = TRUE, !.stage = "open", !.heard = h]
  <2>1. UNCHANGED <<vars, server, attach, inbuf, size, text, inbox, fin, edge, pc>>
    BY <1>3 DEF input, loop
  <2>2. objs' = [objs EXCEPT ![attach] = o]
    BY <1>3 DEF sm_sock_onconnect, Heard
  <2>3. attach \in 1 .. Len(objs) /\ objs \in Seq(ScriptObject) /\ ObjectsOk(objs, kind, attach, pc)
    <3>1. attach \in 0 .. Len(objs) /\ attach # 0 /\ objs \in Seq(ScriptObject)
      BY <1>1 DEF KInv, SocketTypeOK
    <3>2. Len(objs) \in Nat
      BY <3>1, LenProperties
    <3> QED
      BY <3>1, <3>2 DEF KInv
  <2>4. objs[attach] \in ScriptObject /\ ObjectOk(objs[attach], attach, kind, attach, pc)
    BY <2>3, ElementOfSeq DEF ObjectsOk
  <2>5. objs[attach].heard = << >> /\ objs[attach].private
    BY <1>1, <2>4 DEF ObjectOk, ScriptObject
  <2>6. << >> \in Seq(Alphabet) /\ Len(objs[attach].heard) = 0
    BY <2>5, EmptySeq
  <2>7. h \in Seq(ScriptCall) /\ h # << >> /\ \A n \in 1 .. Len(h) : n = 1 /\ h[n].e = "connect"
    <3>1. /\ h \in Seq(ScriptCall) /\ Len(h) = Len(objs[attach].heard) + 1 /\ h # << >>
          /\ h[Len(objs[attach].heard) + 1].e = "connect"
      BY <2>4, <2>6, Hears
    <3> HIDE DEF h
    <3>2. Len(h) = 1 /\ h[1].e = "connect"
      BY <2>6, <3>1
    <3> QED
      BY <3>1, <3>2
  <2> HIDE DEF h
  <2>8. /\ o \in ScriptObject /\ o.heard = h /\ o.stage = "open" /\ o.client
        /\ o.private = objs[attach].private
    BY <2>4, <2>7 DEF ScriptObject, Stages
  <2> HIDE DEF o
  <2>9. ObjectOk(o, attach, "online", attach, pc)
    <3>1. InOrderOf(o, attach, attach, pc)
      BY <2>7, <2>8 DEF InOrderOf
    <3> QED
      BY <2>5, <2>7, <2>8, <3>1 DEF ObjectOk
  <2>10. \A j \in 1 .. Len(objs) : j # attach => ObjectOk(objs[j], j, "online", attach, pc)
    BY <2>3 DEF ObjectsOk, ObjectOk
  <2>11. objs' \in Seq(ScriptObject) /\ Len(objs') = Len(objs)
         /\ ObjectsOk(objs', kind', attach', pc')
    <3>1. /\ [objs EXCEPT ![attach] = o] \in Seq(ScriptObject)
          /\ Len([objs EXCEPT ![attach] = o]) = Len(objs)
          /\ ObjectsOk([objs EXCEPT ![attach] = o], "online", attach, pc)
      BY <2>3, <2>8, <2>9, <2>10, OneChanged
    <3> QED
      BY <1>3, <2>1, <2>2, <3>1
  <2>12. IInv' /\ TypeOK'
    BY <2>1, SameOutput DEF KInv
  <2>13. SocketTypeOK'
    BY <1>1, <1>3, <2>1, <2>11, <2>12 DEF KInv, SocketTypeOK
  <2>14. Untouched' /\ LoopOk' /\ OwnWords' /\ NothingMissed'
    BY <1>1, <1>3, <2>1 DEF KInv, Untouched, LoopOk, OwnWords, NothingMissed, Ended, vars
  <2> QED
    BY <2>11, <2>12, <2>13, <2>14 DEF Preserved
<1> QED
  BY <1>2, <1>3 DEF ConnectDone

(* close_socket() leaves what the next connection starts from.             *)
LEMMA FreshOutput ==
  ASSUME Cleared
  PROVE  IInv' /\ TypeOK'
<1>1. << >> \in Seq(Bytes)
  BY EmptySeq
<1>2. /\ sent' = << >> /\ wire' = << >> /\ buf' = << >> /\ alloc' = 0 /\ burn' = FALSE
      /\ conn' = "open"
  BY DEF Cleared
<1>3. TypeOK'
  BY <1>1, <1>2 DEF TypeOK
<1>4. << >> \o << >> = << >>
  BY <1>1, ConcatEmptySeq
<1>5. InOrder'
  BY <1>2, <1>4, Zenon DEF InOrder
<1>6. ShutEmpty' /\ WithinAllocation'
  BY <1>2 DEF ShutEmpty, WithinAllocation
<1> QED
  BY <1>3, <1>5, <1>6 DEF IInv

LEMMA CloseStep ==
  ASSUME KInv, Close
  PROVE  Preserved
<1>1. /\ objs' = [objs EXCEPT ![attach] = Detached] /\ kind' = "closed" /\ pc' = "idle"
      /\ Cleared /\ server' = server /\ pc = "farewell"
  BY DEF Close
<1>2. /\ attach' = 0 /\ inbuf' = << >> /\ size' = BufSize /\ text' = << >> /\ inbox' = << >>
      /\ fin' = FALSE /\ edge' = FALSE /\ sent' = << >> /\ conn' = "open"
  BY <1>1 DEF Cleared
<1>3. attach \in 1 .. Len(objs) /\ objs \in Seq(ScriptObject) /\ ObjectsOk(objs, kind, attach, pc)
      /\ Len(objs) \in Nat
  <2>1. attach \in 0 .. Len(objs) /\ attach # 0 /\ objs \in Seq(ScriptObject)
    BY <1>1 DEF KInv, SocketTypeOK, LoopOk
  <2>2. Len(objs) \in Nat
    BY <2>1, LenProperties
  <2> QED
    BY <2>1, <2>2 DEF KInv
<1> DEFINE h == <<[e |-> "disconnect", s |-> << >>]>>
<1>4. /\ h \in Seq(ScriptCall) /\ Len(h) = 1 /\ h # << >>
      /\ \A n \in 1 .. Len(h) : n = 1 /\ h[n].e = "disconnect"
  <2>1. << >> \in Seq(Alphabet)
    BY EmptySeq
  <2>2. [e |-> "disconnect", s |-> << >>] \in ScriptCall
    BY <2>1 DEF ScriptCall
  <2> QED
    BY <2>2
<1>5. /\ Detached \in ScriptObject /\ Detached.stage = "gone" /\ Detached.private = FALSE
      /\ Detached.client = FALSE /\ Detached.heard = h /\ Detached.state = TRUE
  <2>1. Detached = [stage |-> "gone", lf |-> FALSE, private |-> FALSE, client |-> FALSE,
                    state |-> TRUE, heard |-> h, closedAt |-> 0]
    <3>1. Detached = [Object("gone", FALSE, FALSE) EXCEPT !.private = FALSE, !.heard = h]
      BY DEF Detached, Over
    <3> HIDE DEF h
    <3> QED
      BY <3>1 DEF Object
  <2> HIDE DEF h, Detached
  <2> QED
    BY <1>4, <2>1 DEF ScriptObject, Stages
<1> HIDE DEF h
<1>6. ObjectOk(Detached, attach, "closed", 0, "idle")
  <2> HIDE DEF Detached
  <2>1. InOrderOf(Detached, attach, 0, "idle")
    BY <1>4, <1>5 DEF InOrderOf
  <2> QED
    BY <1>3, <1>4, <1>5, <2>1 DEF ObjectOk
<1>7. \A j \in 1 .. Len(objs) : j # attach => ObjectOk(objs[j], j, "closed", 0, "idle")
  BY <1>3 DEF ObjectsOk, ObjectOk, InOrderOf
<1>8. objs' \in Seq(ScriptObject) /\ Len(objs') = Len(objs)
      /\ ObjectsOk(objs', "closed", 0, "idle")
  <2> HIDE DEF Detached
  <2>1. /\ [objs EXCEPT ![attach] = Detached] \in Seq(ScriptObject)
        /\ Len([objs EXCEPT ![attach] = Detached]) = Len(objs)
        /\ ObjectsOk([objs EXCEPT ![attach] = Detached], "closed", 0, "idle")
    BY <1>3, <1>5, <1>6, <1>7, OneChanged
  <2> QED
    BY <1>1, <2>1
<1>9. IInv' /\ TypeOK'
  BY <1>1, FreshOutput
<1>10. << >> \in Seq(Alphabet) /\ Len(<< >>) = 0
  BY EmptySeq
<1>11. SocketTypeOK'
  <2>1. size' \in Nat /\ Len(inbuf') < size'
    BY <1>2, <1>10, SizeAssumption
  <2>2. Len(objs') <= MaxLives /\ attach' \in 0 .. Len(objs')
    BY <1>2, <1>3, <1>8 DEF KInv, SocketTypeOK
  <2>3. server' \in Servers
    BY <1>1 DEF KInv, SocketTypeOK
  <2> QED
    BY <1>1, <1>2, <1>8, <1>9, <1>10, <2>1, <2>2, <2>3 DEF SocketTypeOK
<1>12. Untouched' /\ LoopOk' /\ OwnWords' /\ NothingMissed'
  BY <1>1, <1>2, <1>10 DEF Untouched, LoopOk, OwnWords, NothingMissed
<1> QED
  BY <1>1, <1>2, <1>8, <1>9, <1>11, <1>12 DEF Preserved

-----------------------------------------------------------------------------
(* An object that has a socket is the one of the present connection.       *)
LEMMA Reaches ==
  ASSUME KInv, NEW i \in Lives, objs[i].client
  PROVE  kind = "online" /\ attach = i /\ i \in 1 .. MaxLives
<1>1. objs \in Seq(ScriptObject) /\ Len(objs) <= MaxLives
  BY DEF KInv, SocketTypeOK
<1>2. Len(objs) \in Nat
  BY <1>1, LenProperties
<1> QED
  BY <1>1, <1>2, MaxLivesAssumption DEF KInv, ObjectsOk, ObjectOk, Lives

LEMMA WriteStep ==
  ASSUME KInv, NEW i \in Lives, NEW c \in Says[i], Write(i, c[1], c[2])
  PROVE  Preserved
<1>1. /\ UNCHANGED <<objs, server, kind, attach, inbuf, size, text, inbox, fin, pc>>
      /\ sendbin(c[1], c[2]) /\ edge' = (edge \/ conn' # conn) /\ objs[i].client
  BY DEF Write, Noticed, script, input
<1>2. kind = "online" /\ attach = i /\ i \in 1 .. MaxLives
  BY <1>1, Reaches
<1>3. c \in Calls /\ c[1] \in Seq(Bytes)
  BY <1>2, SaysAssumption, CallAssumption
<1>4. IInv' /\ TypeOK'
  <2>1. IInv'
    BY <1>1, <1>3, StepInv DEF KInv, Next
  <2> QED
    BY <2>1 DEF IInv
<1>5. ObjectsOk(objs', kind', attach', pc')
  BY <1>1, SameObjects
<1>6. edge' \in BOOLEAN
  BY <1>1
<1>7. SocketTypeOK'
  BY <1>1, <1>4, <1>6 DEF KInv, SocketTypeOK
<1>8. OwnWords'
  <2>1. sent' = sent \o c[1] /\ sent \in Seq(Bytes)
    BY <1>1 DEF sendbin, KInv, SocketTypeOK, TypeOK
  <2>2. /\ Len(sent') = Len(sent) + Len(c[1]) /\ Len(sent) \in Nat /\ Len(c[1]) \in Nat
        /\ DOMAIN c[1] = 1 .. Len(c[1])
        /\ \A k \in 1 .. Len(sent) + Len(c[1]) :
             sent'[k] = IF k <= Len(sent) THEN sent[k] ELSE c[1][k - Len(sent)]
    BY <1>3, <2>1, ConcatProperties, LenProperties
  <2>3. \A k \in 1 .. Len(c[1]) : c[1][k] \in Letters(i)
    BY <2>2 DEF Letters
  <2>4. attach # 0
    BY <1>2
  <2>5. ASSUME NEW k \in 1 .. Len(sent') PROVE sent'[k] \in Letters(i)
    <3>1. CASE k <= Len(sent)
      BY <1>2, <2>2, <3>1 DEF KInv, OwnWords
    <3>2. CASE k > Len(sent)
      <4>1. k - Len(sent) \in 1 .. Len(c[1]) /\ sent'[k] = c[1][k - Len(sent)]
        BY <2>2, <3>2
      <4> QED
        BY <2>3, <4>1
    <3> QED
      BY <2>2, <3>1, <3>2
  <2> QED
    BY <1>1, <1>2, <2>4, <2>5 DEF OwnWords
<1>9. Untouched' /\ LoopOk' /\ NothingMissed'
  BY <1>1, <1>2 DEF KInv, Untouched, LoopOk, NothingMissed, Ended
<1> QED
  BY <1>4, <1>5, <1>7, <1>8, <1>9 DEF Preserved

LEMMA FlushStep ==
  ASSUME KInv, Flush
  PROVE  Preserved
<1>1. /\ UNCHANGED <<objs, server, kind, attach, inbuf, size, text, inbox, fin, pc>>
      /\ sendqueue /\ edge' = (edge \/ conn' # conn) /\ kind = "online"
  BY DEF Flush, Noticed, script, input
<1>2. IInv'
  BY <1>1, StepInv DEF KInv, Next
<1>3. sent' = sent
  BY <1>1 DEF sendqueue
<1>4. ObjectsOk(objs', kind', attach', pc')
  BY <1>1, SameObjects
<1>5. edge' \in BOOLEAN
  BY <1>1
<1>6. SocketTypeOK'
  BY <1>1, <1>2, <1>5 DEF KInv, SocketTypeOK, IInv
<1>7. Untouched' /\ LoopOk' /\ NothingMissed' /\ OwnWords'
  BY <1>1, <1>3 DEF KInv, Untouched, LoopOk, NothingMissed, OwnWords, Ended
<1> QED
  BY <1>2, <1>4, <1>6, <1>7 DEF Preserved

LEMMA CloseCallStep ==
  ASSUME KInv, NEW i \in Lives, NEW cut \in BOOLEAN, CloseCall(i, cut)
  PROVE  Preserved
<1> DEFINE n == Len(objs[i].heard)
           o == [objs[i] EXCEPT !.state = FALSE, !.closedAt = n]
<1>1. /\ UNCHANGED <<server, kind, attach, inbuf, size, text, inbox, fin, pc>>
      /\ PeerGone \/ safe_shutdown \/ UNCHANGED vars
      /\ edge' = (edge \/ conn' # conn) /\ objs[i].client
      /\ objs' = [objs EXCEPT ![i] = o]
  BY DEF CloseCall, Noticed, input
<1>2. kind = "online" /\ attach = i
  BY <1>1, Reaches
<1>3. IInv'
  BY <1>1, StepInv DEF KInv, Next
<1>4. sent' = sent
  BY <1>1 DEF PeerGone, safe_shutdown, vars
<1>5. objs \in Seq(ScriptObject) /\ i \in 1 .. Len(objs) /\ ObjectsOk(objs, kind, attach, pc)
  BY DEF KInv, SocketTypeOK, Lives
<1>6. objs[i] \in ScriptObject /\ ObjectOk(objs[i], i, kind, attach, pc) /\ n \in Nat
  <2>1. objs[i] \in ScriptObject /\ ObjectOk(objs[i], i, kind, attach, pc)
    BY <1>5, ElementOfSeq DEF ObjectsOk
  <2>2. objs[i].heard \in Seq(ScriptCall)
    BY <2>1 DEF ScriptObject
  <2> QED
    BY <2>1, <2>2, LenProperties
<1>7. /\ o \in ScriptObject /\ o.closedAt = Len(o.heard) /\ o.heard = objs[i].heard
      /\ o.stage = objs[i].stage /\ o.client = objs[i].client /\ o.private = objs[i].private
  BY <1>6 DEF ScriptObject
<1> HIDE DEF o, n
<1>8. ObjectOk(o, i, kind, attach, pc)
  <2>1. InOrderOf(o, i, attach, pc)
    BY <1>6, <1>7 DEF ObjectOk, InOrderOf
  <2> QED
    BY <1>6, <1>7, <2>1 DEF ObjectOk
<1>9. \A j \in 1 .. Len(objs) : j # i => ObjectOk(objs[j], j, kind, attach, pc)
  BY <1>5 DEF ObjectsOk
<1>10. objs' \in Seq(ScriptObject) /\ Len(objs') = Len(objs)
       /\ ObjectsOk(objs', kind', attach', pc')
  <2>1. /\ [objs EXCEPT ![i] = o] \in Seq(ScriptObject)
        /\ Len([objs EXCEPT ![i] = o]) = Len(objs)
        /\ ObjectsOk([objs EXCEPT ![i] = o], kind, attach, pc)
    BY <1>5, <1>7, <1>8, <1>9, OneChanged
  <2> QED
    BY <1>1, <2>1
<1>11. edge' \in BOOLEAN
  BY <1>1
<1>12. SocketTypeOK'
  BY <1>1, <1>3, <1>10, <1>11 DEF KInv, SocketTypeOK, IInv
<1>13. Untouched' /\ LoopOk' /\ NothingMissed' /\ OwnWords'
  BY <1>1, <1>2, <1>4 DEF KInv, Untouched, LoopOk, NothingMissed, OwnWords, Ended
<1> QED
  BY <1>3, <1>10, <1>12, <1>13 DEF Preserved

-----------------------------------------------------------------------------
(* A connection begins, or the descriptor is left alone.                   *)
Begins(k, a) ==
  \/ UNCHANGED <<kind, attach>>
  \/ kind = "closed" /\ kind' = k /\ attach' = a

LEMMA BeginStep ==
  ASSUME KInv, UNCHANGED <<vars, server, inbuf, size, text, inbox, fin, edge, pc>>,
         objs' \in Seq(ScriptObject), Len(objs') <= MaxLives, Len(objs) <= Len(objs'),
         NEW k \in {"progress", "online"}, NEW a \in 1 .. Len(objs'), Begins(k, a),
         ObjectsOk(objs', kind', attach', pc)
  PROVE  Preserved
<1>1. IInv' /\ TypeOK'
  BY SameOutput DEF KInv
<1>2. Len(objs) \in Nat /\ Len(objs') \in Nat
  BY LenProperties DEF KInv, SocketTypeOK
<1>3. CASE UNCHANGED <<kind, attach>>
  <2>1. attach' \in 0 .. Len(objs')
    BY <1>2, <1>3 DEF KInv, SocketTypeOK
  <2>2. SocketTypeOK'
    BY <1>1, <1>3, <2>1 DEF KInv, SocketTypeOK
  <2> QED
    BY <1>1, <1>3, <2>2
    DEF Preserved, KInv, Untouched, LoopOk, OwnWords, NothingMissed, Ended, vars
<1>4. CASE kind = "closed" /\ kind' = k /\ attach' = a
  <2>1. attach' \in 0 .. Len(objs') /\ attach' # 0
    BY <1>2, <1>4
  <2>2. SocketTypeOK'
    BY <1>1, <1>4, <2>1 DEF KInv, SocketTypeOK
  <2>3. inbox' = << >> /\ ~fin' /\ conn' = "open" /\ sent' = << >> /\ pc' = "idle"
    BY <1>4 DEF KInv, SocketTypeOK, Untouched, LoopOk, vars
  <2>4. Len(sent') = 0
    BY <2>3, EmptySeq
  <2> QED
    BY <1>1, <2>2, <2>3, <2>4
    DEF Preserved, Untouched, LoopOk, OwnWords, NothingMissed, Ended
<1> QED
  BY <1>3, <1>4 DEF Begins

(* An object that nothing comes of waits for nothing.                      *)
LEMMA LostOk ==
  ASSUME NEW i, NEW k, NEW a, NEW p, a # i
  PROVE  Lost \in ScriptObject /\ ObjectOk(Lost, i, k, a, p)
<1>1. /\ Lost \in ScriptObject /\ Lost.stage = "lost" /\ Lost.private /\ Lost.client = FALSE
      /\ Lost.heard = << >>
  BY Made DEF Lost, Stages
<1>2. Len(Lost.heard) = 0
  BY <1>1, EmptySeq
<1>3. InOrderOf(Lost, i, a, p)
  <2> HIDE DEF Lost
  <2> QED
    BY <1>2 DEF InOrderOf
<1> HIDE DEF Lost
<1> QED
  BY <1>1, <1>3 DEF ObjectOk

Loses(os, m, i) == m = [os EXCEPT ![i] = Lost]

(* ape_connect() for an object that waits for its connection.              *)
LEMMA ape_connectStep ==
  ASSUME KInv, UNCHANGED <<vars, server, inbuf, size, text, inbox, fin, edge, pc>>,
         NEW os \in Seq(ScriptObject), ObjectsOk(os, kind, attach, pc),
         Len(objs) <= Len(os), Len(os) <= MaxLives,
         NEW i \in 1 .. Len(os), os[i].stage = "resolving",
         ape_connect(os, i) \/ (Loses(os, objs', i) /\ UNCHANGED <<kind, attach>>)
  PROVE  Preserved
<1>1. /\ os[i] \in ScriptObject /\ os[i].client = FALSE /\ os[i].private /\ os[i].heard = << >>
      /\ attach # i
  <2>1. os[i] \in ScriptObject /\ ObjectOk(os[i], i, kind, attach, pc)
    BY ElementOfSeq DEF ObjectsOk
  <2>2. attach # i
    BY <2>1 DEF ObjectOk
  <2> QED
    BY <2>1, <2>2 DEF ObjectOk, ScriptObject
<1>2. CASE Loses(os, objs', i) /\ UNCHANGED <<kind, attach>>
  <2>1. Lost \in ScriptObject /\ ObjectOk(Lost, i, kind, attach, pc)
    BY <1>1, LostOk
  <2>2. \A j \in 1 .. Len(os) : j # i => ObjectOk(os[j], j, kind, attach, pc)
    BY DEF ObjectsOk
  <2>3. /\ [os EXCEPT ![i] = Lost] \in Seq(ScriptObject)
        /\ Len([os EXCEPT ![i] = Lost]) = Len(os)
        /\ ObjectsOk([os EXCEPT ![i] = Lost], kind, attach, pc)
    BY <2>1, <2>2, OneChanged
  <2>4. /\ objs' \in Seq(ScriptObject) /\ Len(objs') = Len(os)
        /\ ObjectsOk(objs', kind', attach', pc)
    BY <1>2, <2>3 DEF Loses
  <2>5. Begins("online", i)
    BY <1>2 DEF Begins
  <2> QED
    BY <2>4, <2>5, BeginStep
<1>3. CASE /\ kind = "closed" /\ objs' = [os EXCEPT ![i].stage = "connecting"]
           /\ kind' = "progress" /\ attach' = i
  <2> DEFINE o == [os[i] EXCEPT !.stage = "connecting"]
  <2>1. objs' = [os EXCEPT ![i] = o]
    BY <1>3
  <2>2. /\ o \in ScriptObject /\ o.stage = "connecting" /\ o.client = FALSE /\ o.private
        /\ o.heard = << >>
    BY <1>1 DEF ScriptObject, Stages
  <2> HIDE DEF o
  <2>3. pc # "farewell" /\ attach = 0
    BY <1>3 DEF KInv, LoopOk, SocketTypeOK
  <2>4. ObjectOk(o, i, "progress", i, pc)
    <3>1. Len(o.heard) = 0
      BY <2>2, EmptySeq
    <3>2. InOrderOf(o, i, i, pc)
      BY <3>1 DEF InOrderOf
    <3> QED
      BY <2>2, <3>2 DEF ObjectOk
  <2>5. ASSUME NEW j \in 1 .. Len(os), j # i PROVE ObjectOk(os[j], j, "progress", i, pc)
    <3>1. ObjectOk(os[j], j, "closed", 0, pc) /\ j # 0 /\ i # j
      BY <1>3, <2>3, <2>5 DEF ObjectsOk
    <3> QED
      BY <2>3, <3>1 DEF ObjectOk, InOrderOf
  <2>6. /\ [os EXCEPT ![i] = o] \in Seq(ScriptObject)
        /\ Len([os EXCEPT ![i] = o]) = Len(os)
        /\ ObjectsOk([os EXCEPT ![i] = o], "progress", i, pc)
    BY <2>2, <2>4, <2>5, OneChanged
  <2>7. /\ objs' \in Seq(ScriptObject) /\ Len(objs') = Len(os)
        /\ ObjectsOk(objs', kind', attach', pc)
    BY <1>3, <2>1, <2>6
  <2>8. Begins("progress", i)
    BY <1>3 DEF Begins
  <2> QED
    BY <2>7, <2>8, BeginStep
<1> QED
  BY <1>2, <1>3 DEF ape_connect, Loses

LEMMA NewClientStep ==
  ASSUME KInv, NEW lf \in BOOLEAN, NEW name, NewClient(lf, name)
  PROVE  Preserved
<1> DEFINE o == Object("resolving", lf, FALSE)
           os == Append(objs, o)
           i == Len(objs) + 1
<1>1. /\ UNCHANGED <<vars, server, inbuf, size, text, inbox, fin, edge, pc>>
      /\ Len(objs) < MaxLives /\ ape_gethostbyname(os, i, name)
  BY DEF NewClient, input, loop
<1>2. /\ objs \in Seq(ScriptObject) /\ attach \in 0 .. Len(objs)
      /\ \A j \in 1 .. Len(objs) : ObjectOk(objs[j], j, kind, attach, pc)
  BY DEF KInv, SocketTypeOK, ObjectsOk
<1>3. Len(objs) \in Nat /\ attach # i
  BY <1>2, LenProperties
<1>4. o \in ScriptObject /\ ObjectOk(o, i, kind, attach, pc) /\ o.stage = "resolving"
  <2>1. /\ o \in ScriptObject /\ o.stage = "resolving" /\ o.private /\ o.client = FALSE
        /\ o.heard = << >>
    BY Made, ZenonT(60) DEF Stages
  <2> HIDE DEF o, i
  <2>2. Len(o.heard) = 0
    BY <2>1, EmptySeq
  <2>3. InOrderOf(o, i, attach, pc)
    BY <2>2 DEF InOrderOf
  <2> QED
    BY <1>3, <2>1, <2>3 DEF ObjectOk
<1> HIDE DEF o
<1>5. os \in Seq(ScriptObject) /\ Len(os) = i /\ ObjectsOk(os, kind, attach, pc)
  BY <1>2, <1>4, OneAdded
<1>6. os[i] = o /\ i \in 1 .. Len(os) /\ Len(objs) <= Len(os) /\ Len(os) <= MaxLives
  <2>1. os[i] = o
    BY <1>2, <1>4, AppendProperties
  <2> QED
    BY <1>1, <1>3, <1>5, <2>1, MaxLivesAssumption
<1> HIDE DEF os, i
<1>7. CASE objs' = os /\ UNCHANGED <<kind, attach>>
  <2>1. /\ objs' \in Seq(ScriptObject) /\ Len(objs') = Len(os)
        /\ ObjectsOk(objs', kind', attach', pc)
    BY <1>5, <1>7
  <2>2. Begins("online", i)
    BY <1>7 DEF Begins
  <2> QED
    BY <1>1, <1>6, <2>1, <2>2, BeginStep
<1>8. CASE ape_connect(os, i) \/ (Loses(os, objs', i) /\ UNCHANGED <<kind, attach>>)
  BY <1>1, <1>4, <1>5, <1>6, <1>8, ape_connectStep
<1> QED
  BY <1>1, <1>7, <1>8 DEF ape_gethostbyname, Loses

LEMMA dnscbStep ==
  ASSUME KInv, NEW i \in Lives, NEW answer, dnscb(i, answer)
  PROVE  Preserved
<1>1. /\ UNCHANGED <<vars, server, inbuf, size, text, inbox, fin, edge, pc>>
      /\ objs[i].stage = "resolving" /\ i \in 1 .. Len(objs)
      /\ ape_connect(objs, i) \/ (Loses(objs, objs', i) /\ UNCHANGED <<kind, attach>>)
  BY DEF dnscb, Loses, Lives, input, loop
<1>2. /\ objs \in Seq(ScriptObject) /\ ObjectsOk(objs, kind, attach, pc)
      /\ Len(objs) <= MaxLives
  BY DEF KInv, SocketTypeOK
<1>3. Len(objs) <= Len(objs)
  BY <1>2, LenProperties
<1> QED
  BY <1>1, <1>2, <1>3, ape_connectStep

LEMMA AcceptStep ==
  ASSUME KInv, Accept
  PROVE  Preserved
<1> DEFINE lf == (server.mode = "lines")
           o == Object("open", lf, TRUE)
           os == Append(objs, o)
           i == Len(objs) + 1
<1>1. /\ UNCHANGED <<vars, server, inbuf, size, text, inbox, fin, edge, pc>>
      /\ Len(objs) < MaxLives /\ objs' = os /\ attach' = i
      /\ kind = "closed" /\ kind' = "online" /\ pc = "idle"
  BY DEF Accept, sm_sock_onaccept, input, loop
<1>2. /\ objs \in Seq(ScriptObject) /\ attach = 0 /\ ObjectsOk(objs, kind, attach, pc)
  BY <1>1 DEF KInv, SocketTypeOK
<1>3. Len(objs) \in Nat
  BY <1>2, LenProperties
<1> lf \in BOOLEAN
  OBVIOUS
<1> HIDE DEF lf
<1>4. o \in ScriptObject /\ ObjectOk(o, i, "online", i, pc)
  <2>1. /\ o \in ScriptObject /\ o.stage = "open" /\ o.private /\ o.client = TRUE
        /\ o.heard = << >>
    BY Made DEF Stages
  <2> HIDE DEF o, i
  <2>2. Len(o.heard) = 0
    BY <2>1, EmptySeq
  <2>3. InOrderOf(o, i, i, pc)
    BY <2>2 DEF InOrderOf
  <2> QED
    BY <2>1, <2>3 DEF ObjectOk
<1> HIDE DEF o
<1>5. ASSUME NEW j \in 1 .. Len(objs) PROVE ObjectOk(objs[j], j, "online", i, pc)
  <2>1. ObjectOk(objs[j], j, "closed", 0, pc) /\ j # 0 /\ i # j
    BY <1>1, <1>2, <1>3 DEF ObjectsOk
  <2> QED
    BY <1>1, <2>1 DEF ObjectOk, InOrderOf
<1>6. os \in Seq(ScriptObject) /\ Len(os) = i /\ ObjectsOk(os, "online", i, pc)
  BY <1>2, <1>4, <1>5, OneAdded
<1>7. i \in 1 .. Len(os) /\ Len(objs) <= Len(os) /\ Len(os) <= MaxLives
  BY <1>1, <1>3, <1>6, MaxLivesAssumption
<1>8. Begins("online", i)
  BY <1>1 DEF Begins
<1> HIDE DEF os, i
<1> QED
  BY <1>1, <1>6, <1>7, <1>8, BeginStep


-----------------------------------------------------------------------------
(* The invariant.                                                          *)

LEMMA InitKInv == SocketInit => KInv
<1> SUFFICES ASSUME SocketInit PROVE KInv
  OBVIOUS
<1>1. /\ Init /\ objs = << >> /\ server = [mode |-> "none", stale |-> FALSE] /\ kind = "closed" /\ attach = 0
      /\ inbuf = << >> /\ size = BufSize /\ text = << >> /\ inbox = << >> /\ fin = FALSE
      /\ edge = FALSE /\ pc = "idle"
  BY DEF SocketInit
<1>2. IInv /\ TypeOK
  BY <1>1, InitInv DEF IInv
<1>3. /\ << >> \in Seq(Alphabet) /\ << >> \in Seq(ScriptObject)
      /\ Len(<< >>) = 0 /\ sent = << >> /\ conn = "open"
  BY <1>1, EmptySeq DEF Init
<1>4. ObjectsOk(objs, kind, attach, pc)
  BY <1>1, <1>3 DEF ObjectsOk
<1>5. SocketTypeOK
  <2>1. Len(objs) = 0 /\ Len(inbuf) = 0
    BY <1>1, <1>3
  <2>2. Len(objs) <= MaxLives /\ attach \in 0 .. Len(objs) /\ size \in Nat /\ Len(inbuf) < size
    BY <1>1, <2>1, MaxLivesAssumption, SizeAssumption
  <2> QED
    BY <1>1, <1>2, <1>3, <2>2 DEF SocketTypeOK, Servers
<1>6. Untouched /\ LoopOk /\ OwnWords /\ NothingMissed
  BY <1>1, <1>3 DEF Untouched, LoopOk, OwnWords, NothingMissed
<1> QED
  BY <1>2, <1>4, <1>5, <1>6 DEF KInv

LEMMA KeptWhole ==
  ASSUME Preserved
  PROVE  KInv'
  BY DEF Preserved, KInv, ObjectsOk, ObjectOk, InOrderOf

LEMMA StepKInv == KInv /\ [SocketNext]_all => KInv'
<1> SUFFICES ASSUME KInv, [SocketNext]_all PROVE Preserved
  BY KeptWhole
<1>1. CASE \E lf \in BOOLEAN, name \in {"address", "host", "invalid"} : NewClient(lf, name)
  BY <1>1, NewClientStep
<1>2. CASE ServerClose \/ ServerClosed \/ \E mode \in {"lines", "bytes"} : Listen(mode)
  BY <1>2, ListenStep
<1>3. CASE \E i \in Lives : \E c \in Says[i] : Write(i, c[1], c[2])
  BY <1>3, WriteStep
<1>4. CASE \E i \in Lives, cut \in BOOLEAN : CloseCall(i, cut)
  BY <1>4, CloseCallStep
<1>5. CASE \E i \in Lives, answer \in {"address", "failed", "nodata"} : dnscb(i, answer)
  BY <1>5, dnscbStep
<1>6. CASE Accept
  BY <1>6, AcceptStep
<1>7. CASE \E c \in Alphabet : Arrive(c)
  BY <1>7, ArriveStep
<1>8. CASE Finish
  BY <1>8, FinishStep
<1>9. CASE Reset \/ ServerCloseAgain
  BY <1>9, ResetStep
<1>10. CASE ConnectDone
  BY <1>10, ConnectDoneStep
<1>11. CASE Poll
  BY <1>11, PollStep
<1>12. CASE ReadSome
  BY <1>12, ReadSomeStep
<1>13. CASE ReadLine
  BY <1>13, ReadLineStep
<1>14. CASE NoMoreLines
  BY <1>14, NoMoreLinesStep
<1>15. CASE Return
  BY <1>15, ReturnStep
<1>16. CASE ReadNothing
  BY <1>16, ReadNothingStep
<1>17. CASE AtEnd
  BY <1>17, AtEndStep
<1>18. CASE Close
  BY <1>18, CloseStep
<1>19. CASE Flush
  BY <1>19, FlushStep
<1>20. CASE UNCHANGED all
  <2>1. UNCHANGED <<vars, objs, server, kind, attach, inbuf, size, text, inbox, fin, edge, pc>>
    BY <1>20 DEF all
  <2>2. IInv' /\ TypeOK'
    BY <2>1, SameOutput DEF KInv
  <2>3. ObjectsOk(objs', kind', attach', pc')
    BY <2>1, SameObjects
  <2>4. SocketTypeOK'
    BY <2>1, <2>2 DEF KInv, SocketTypeOK
  <2> QED
    BY <2>1, <2>2, <2>3, <2>4
    DEF Preserved, KInv, Untouched, LoopOk, OwnWords, NothingMissed, Ended, vars
<1> QED
  BY <1>1, <1>2, <1>3, <1>4, <1>5, <1>6, <1>7, <1>8, <1>9, <1>10, <1>11, <1>12, <1>13, <1>14,
     <1>15, <1>16, <1>17, <1>18, <1>19, <1>20
  DEF SocketNext, ScriptCalls, World, Loop

(* Every reachable state satisfies the invariant.                          *)
THEOREM SocketInvariance == SocketSpec => []KInv
BY InitKInv, StepKInv, PTL DEF SocketSpec

-----------------------------------------------------------------------------
(* The state of the descriptor and of the script objects stays in its      *)
(* types; the buffer always has room for another byte, so that read() is   *)
(* never called with a length of 0 (which would look like an end of file). *)
THEOREM SocketTyped == SocketSpec => []SocketTypeOK
<1>1. KInv => SocketTypeOK
  BY DEF KInv
<1> QED
  BY <1>1, SocketInvariance, PTL

(* The natives of a connection's object (apesocket_write, apesocket_close) *)
(* follow its pointers to its own connection or nowhere, and what goes out *)
(* on a connection was said by its own object, however the descriptor      *)
(* passed from connection to connection, also when a server object that    *)
(* had the number before cuts a connection off.                            *)
THEOREM HandlesReachTheirOwn == SocketSpec => []HandlesLive
<1>1. KInv => HandlesLive
  <2> SUFFICES ASSUME KInv PROVE HandlesLive
    OBVIOUS
  <2>1. ASSUME NEW i \in Lives, objs[i].private, objs[i].client
        PROVE  kind = "online" /\ attach = i
    BY <2>1, Reaches
  <2>2. ASSUME attach # 0 PROVE objs[attach].private
    <3>1. objs \in Seq(ScriptObject) /\ attach \in 0 .. Len(objs)
      BY DEF KInv, SocketTypeOK
    <3>2. attach \in 1 .. Len(objs)
      BY <2>2, <3>1, LenProperties
    <3>3. objs[attach] \in ScriptObject /\ ObjectOk(objs[attach], attach, kind, attach, pc)
      BY <3>1, <3>2, ElementOfSeq DEF KInv, ObjectsOk
    <3> QED
      BY <3>3 DEF ObjectOk, ScriptObject
  <2>3. DOMAIN sent = 1 .. Len(sent)
    BY LenProperties DEF KInv, SocketTypeOK, TypeOK
  <2> QED
    BY <2>1, <2>2, <2>3 DEF HandlesLive, KInv, OwnWords
<1> QED
  BY <1>1, SocketInvariance, PTL

(* The functions of a script are called in order: onConnect first,         *)
(* onDisconnect last and never left out, and no onRead once the script has *)
(* closed the socket (sm_sock_onconnect, sm_sock_onread, sm_sock_onread_lf,*)
(* sm_sock_ondisconnect).                                                  *)
THEOREM CallsInOrder == SocketSpec => []HeardInOrder
<1>1. KInv => HeardInOrder
  <2> SUFFICES ASSUME KInv, NEW i \in Lives
               PROVE  /\ objs[i].stage = "gone" => objs[i].heard # << >>
                      /\ \A k \in DOMAIN objs[i].heard :
                           /\ objs[i].heard[k].e = "connect" => k = 1
                           /\ objs[i].heard[k].e = "disconnect" => k = Len(objs[i].heard)
                           /\ objs[i].heard[k].e = "read" /\ ~objs[i].state =>
                                k <= objs[i].closedAt
    BY DEF HeardInOrder
  <2>1. objs[i] \in ScriptObject /\ ObjectOk(objs[i], i, kind, attach, pc)
    BY ElementOfSeq DEF KInv, SocketTypeOK, ObjectsOk, Lives
  <2>2. objs[i].heard \in Seq(ScriptCall)
    BY <2>1 DEF ScriptObject
  <2>3. DOMAIN objs[i].heard = 1 .. Len(objs[i].heard)
    BY <2>2, LenProperties
  <2> QED
    BY <2>1, <2>3 DEF ObjectOk, InOrderOf
<1> QED
  BY <1>1, SocketInvariance, PTL

(* The loop never goes to sleep with something unread and no notification  *)
(* due, although the notifications are edge-triggered (sockroutine reads   *)
(* until read() would block).                                              *)
THEOREM NoLostWakeup == SocketSpec => []NothingMissed
<1>1. KInv => NothingMissed
  BY DEF KInv
<1> QED
  BY <1>1, SocketInvariance, PTL

(* What scripts write leaves in order on every connection that has the     *)
(* descriptor in turn: nothing of one is left over for the next.           *)
THEOREM ScriptOutputInOrder == SocketSpec => []InOrder
<1>1. KInv => InOrder
  BY DEF KInv, IInv
<1> QED
  BY <1>1, SocketInvariance, PTL

-----------------------------------------------------------------------------
(* What the onRead calls brought, one call after the other.                *)
Bring(v, c, end) == IF c.e = "read" THEN v \o c.s \o end ELSE v

Brings(f, h, end, n) ==
  f = [i \in 0 .. n |-> IF i = 0 THEN << >> ELSE Bring(f[i - 1], h[i], end)]
Bringing(h, end) == CHOOSE f : Brings(f, h, end, Len(h))

LEMMA BroughtIs ==
  ASSUME NEW h, NEW end
  PROVE  Brought(h, end) = Bringing(h, end)[Len(h)]
BY DEF Brought, Bringing, Brings, Bring

LEMMA BringsExist ==
  ASSUME NEW h \in Seq(ScriptCall), NEW end, NEW n \in 0 .. Len(h)
  PROVE  \E f : Brings(f, h, end, n)
<1> DEFINE T == {m \in 0 .. Len(h) : ~ \E f : Brings(f, h, end, m)}
<1>0. Len(h) \in Nat
  OBVIOUS
<1> SUFFICES ASSUME T # {} PROVE FALSE
  OBVIOUS
<1>1. PICK m \in T : \A y \in T : m <= y
  <2>1. T \in SUBSET Nat
    BY <1>0
  <2> HIDE DEF T
  <2> QED
    BY <2>1, Least
<1>2. m \in 0 .. Len(h) /\ ~ \E f : Brings(f, h, end, m)
  BY <1>1
<1>3. CASE m = 0
  <2>1. Brings([i \in 0 .. 0 |-> << >>], h, end, 0)
    BY DEF Brings
  <2> QED
    BY <1>2, <1>3, <2>1
<1>4. CASE m # 0
  <2>1. m - 1 \in 0 .. Len(h) /\ m - 1 \notin T /\ m \in Nat
    BY <1>0, <1>1, <1>2, <1>4
  <2>2. PICK f : Brings(f, h, end, m - 1)
    BY <2>1
  <2> DEFINE g == [i \in 0 .. m |-> IF i = m THEN Bring(f[m - 1], h[m], end) ELSE f[i]]
  <2>3. ASSUME NEW i \in 0 .. m
        PROVE  g[i] = IF i = 0 THEN << >> ELSE Bring(g[i - 1], h[i], end)
    <3>1. CASE i = m
      <4>1. g[i] = Bring(f[m - 1], h[m], end) /\ g[i - 1] = f[m - 1] /\ i # 0
        BY <1>4, <2>1, <3>1
      <4> QED
        BY <3>1, <4>1
    <3>2. CASE i # m
      <4>1. i \in 0 .. m - 1 /\ g[i] = f[i] /\ (i # 0 => g[i - 1] = f[i - 1])
        BY <2>1, <3>2
      <4>2. f[i] = IF i = 0 THEN << >> ELSE Bring(f[i - 1], h[i], end)
        BY <2>2, <4>1 DEF Brings
      <4> QED
        BY <4>1, <4>2
    <3> QED
      BY <3>1, <3>2
  <2>4. g = [i \in 0 .. m |-> g[i]]
    OBVIOUS
  <2> HIDE DEF g
  <2>5. Brings(g, h, end, m)
    BY <2>3, <2>4 DEF Brings
  <2> QED
    BY <1>2, <2>5
<1> QED
  BY <1>3, <1>4

LEMMA BringingIs ==
  ASSUME NEW h \in Seq(ScriptCall), NEW end
  PROVE  /\ Bringing(h, end)[0] = << >>
         /\ \A i \in 1 .. Len(h) : Bringing(h, end)[i] = Bring(Bringing(h, end)[i - 1], h[i], end)
<1>0. Len(h) \in Nat /\ Len(h) \in 0 .. Len(h)
  OBVIOUS
<1>1. \E f : Brings(f, h, end, Len(h))
  BY <1>0, BringsExist
<1> DEFINE f == Bringing(h, end)
<1>2. Brings(f, h, end, Len(h))
  BY <1>1 DEF Bringing
<1> HIDE DEF f
<1>3. f[0] = << >> /\ \A i \in 1 .. Len(h) : f[i] = Bring(f[i - 1], h[i], end)
  BY <1>0, <1>2 DEF Brings
<1> QED
  BY <1>3 DEF f

LEMMA BroughtNothing ==
  ASSUME NEW h \in Seq(ScriptCall), h = << >>, NEW end
  PROVE  Brought(h, end) = << >>
<1>1. Bringing(h, end)[0] = << >>
  BY BringingIs, ZenonT(60)
<1>2. Len(h) = 0
  OBVIOUS
<1>3. Brought(h, end) = Bringing(h, end)[Len(h)]
  BY BroughtIs, ZenonT(60)
<1> QED
  BY <1>1, <1>2, <1>3

(* A string of the peer's, whatever was brought.                           *)
LEMMA BroughtTyped ==
  ASSUME NEW h \in Seq(ScriptCall), NEW end \in Seq(Alphabet)
  PROVE  Brought(h, end) \in Seq(Alphabet)
<1> DEFINE f == Bringing(h, end)
           T == {k \in 0 .. Len(h) : f[k] \notin Seq(Alphabet)}
<1>0. Len(h) \in Nat /\ \A i \in 1 .. Len(h) : h[i] \in ScriptCall
  OBVIOUS
<1>1. f[0] = << >> /\ \A i \in 1 .. Len(h) : f[i] = Bring(f[i - 1], h[i], end)
  BY BringingIs
<1> HIDE DEF f
<1>2. ASSUME T # {} PROVE FALSE
  <2>1. PICK m \in T : \A y \in T : m <= y
    <3>1. T \in SUBSET Nat
      BY <1>0
    <3> HIDE DEF T
    <3> QED
      BY <1>2, <3>1, Least
  <2>2. m \in 0 .. Len(h) /\ f[m] \notin Seq(Alphabet)
    BY <2>1
  <2>3. m # 0
    BY <1>1, <2>2, EmptySeq
  <2>4. m - 1 \in 0 .. Len(h) /\ m - 1 \notin T /\ m \in 1 .. Len(h)
    BY <1>0, <2>1, <2>2, <2>3
  <2>5. f[m - 1] \in Seq(Alphabet)
    BY <2>4
  <2>6. h[m].s \in Seq(Alphabet)
    BY <1>0, <2>4 DEF ScriptCall
  <2> DEFINE v == f[m - 1]
             s == h[m].s
  <2>7. v \o s \in Seq(Alphabet) /\ (v \o s) \o end \in Seq(Alphabet)
    BY <2>5, <2>6, ConcatProperties
  <2>8. f[m] = Bring(v, h[m], end)
    BY <1>1, <2>4
  <2> QED
    BY <2>2, <2>5, <2>7, <2>8 DEF Bring
<1>3. f[Len(h)] \in Seq(Alphabet)
  <2>1. Len(h) \in 0 .. Len(h)
    BY <1>0
  <2> QED
    BY <1>2, <2>1
<1> QED
  BY <1>3, BroughtIs DEF f

(* Another call.                                                           *)
LEMMA BroughtAppend ==
  ASSUME NEW h \in Seq(ScriptCall), NEW c \in ScriptCall, NEW end
  PROVE  Brought(Append(h, c), end) = Bring(Brought(h, end), c, end)
<1> DEFINE q == Append(h, c)
           n == Len(h)
           f == Bringing(q, end)
           g == Bringing(h, end)
           T == {k \in 0 .. n : f[k] # g[k]}
<1>0. n \in Nat /\ q \in Seq(ScriptCall) /\ Len(q) = n + 1 /\ q[n + 1] = c
      /\ \A i \in 1 .. n : q[i] = h[i]
  OBVIOUS
<1>1. Brought(q, end) = f[Len(q)] /\ Brought(h, end) = g[n]
  BY BroughtIs
<1> HIDE DEF q, n
<1>2. /\ f[0] = << >> /\ \A i \in 1 .. Len(q) : f[i] = Bring(f[i - 1], q[i], end)
      /\ g[0] = << >> /\ \A i \in 1 .. n : g[i] = Bring(g[i - 1], h[i], end)
  BY <1>0, BringingIs DEF n
<1> HIDE DEF f, g
<1>3. ASSUME T # {} PROVE FALSE
  <2>1. PICK m \in T : \A y \in T : m <= y
    <3>1. T \in SUBSET Nat
      BY <1>0
    <3> HIDE DEF T
    <3> QED
      BY <1>3, <3>1, Least
  <2>2. m \in 0 .. n /\ f[m] # g[m]
    BY <2>1
  <2>3. m # 0
    BY <1>2, <2>2
  <2>4. m - 1 \in 0 .. n /\ m - 1 \notin T /\ m \in 1 .. n /\ m \in 1 .. Len(q)
    BY <1>0, <2>1, <2>2, <2>3
  <2>5. f[m - 1] = g[m - 1] /\ q[m] = h[m]
    BY <1>0, <2>4
  <2> QED
    BY <1>2, <2>2, <2>4, <2>5
<1>4. f[n] = g[n]
  <2>1. n \in 0 .. n
    BY <1>0
  <2> QED
    BY <1>3, <2>1
<1>5. n + 1 \in 1 .. Len(q) /\ (n + 1) - 1 = n
  BY <1>0
<1>6. f[n + 1] = Bring(f[n], c, end)
  BY <1>0, <1>2, <1>5
<1> QED
  BY <1>0, <1>1, <1>4, <1>6 DEF q

-----------------------------------------------------------------------------
(* Strings of the peer's.                                                  *)
LEMMA Three ==
  ASSUME NEW s \in Seq(Alphabet), NEW t \in Seq(Alphabet), NEW u \in Seq(Alphabet)
  PROVE  /\ s \o t \in Seq(Alphabet) /\ t \o u \in Seq(Alphabet)
         /\ (s \o t) \o u \in Seq(Alphabet) /\ (s \o t) \o u = s \o (t \o u)
<1>1. s \o t \in Seq(Alphabet) /\ t \o u \in Seq(Alphabet)
  BY ConcatProperties
<1>2. (s \o t) \o u \in Seq(Alphabet)
  BY <1>1, ConcatProperties
<1> QED
  BY <1>1, <1>2, ConcatAssociative

Regroups(s, t, u, v) == ((s \o t) \o u) \o v = s \o ((t \o u) \o v)

LEMMA Four ==
  ASSUME NEW s \in Seq(Alphabet), NEW t \in Seq(Alphabet), NEW u \in Seq(Alphabet),
         NEW v \in Seq(Alphabet)
  PROVE  Regroups(s, t, u, v)
<1>1. t \o u \in Seq(Alphabet) /\ (s \o t) \o u = s \o (t \o u)
  BY Three
<1>2. (s \o (t \o u)) \o v = s \o ((t \o u) \o v)
  <2> DEFINE w == t \o u
  <2>1. w \in Seq(Alphabet)
    BY <1>1
  <2> HIDE DEF w
  <2>2. (s \o w) \o v = s \o (w \o v)
    BY <2>1, ConcatAssociative
  <2> QED
    BY <2>2 DEF w
<1> QED
  BY <1>1, <1>2 DEF Regroups

LEMMA CutJoined ==
  ASSUME NEW m \in Seq(Alphabet), NEW k \in 0 .. Len(m)
  PROVE  Taken(m, k) \o Left(m, k) = m
<1>1. k \in Nat /\ Len(m) \in Nat /\ k <= Len(m)
  BY LenProperties
<1>2. 1 \in 1 .. Len(m) + 1 /\ k \in 1 - 1 .. Len(m) /\ Len(m) \in k .. Len(m)
  BY <1>1
<1>3. SubSeq(m, 1, k) \o SubSeq(m, k + 1, Len(m)) = SubSeq(m, 1, Len(m))
  BY <1>2, ConcatAdjacentSubSeq
<1>4. SubSeq(m, 1, Len(m)) = m
  BY SubSeqFull
<1> QED
  BY <1>3, <1>4, ZenonT(60) DEF Taken, Left

(* A line, its end, and what comes after it.                               *)
LEMMA CutLine ==
  ASSUME NEW m \in Seq(Alphabet), NEW k \in 1 .. Len(m), m[k] = NewLine
  PROVE  (Taken(m, k - 1) \o <<NewLine>>) \o Left(m, k) = m
<1>0. k \in Nat /\ Len(m) \in Nat /\ k <= Len(m) /\ k - 1 \in 0 .. Len(m) /\ k \in 0 .. Len(m)
  BY LenProperties
<1> DEFINE s == Taken(m, k - 1)
           e == <<NewLine>>
<1>1. s \in Seq(Alphabet) /\ Len(s) = k - 1 /\ e \in Seq(Alphabet) /\ Len(e) = 1 /\ e[1] = NewLine
  <2>1. s \in Seq(Alphabet) /\ Len(s) = k - 1
    BY <1>0, Cut
  <2>2. e \in Seq(Alphabet) /\ Len(e) = 1 /\ e[1] = NewLine
    BY LineAssumption
  <2> QED
    BY <2>1, <2>2
<1>2. Taken(m, k) \in Seq(Alphabet) /\ Len(Taken(m, k)) = k
  BY <1>0, Cut
<1>3. /\ \A i \in 1 .. k - 1 : s[i] = m[i]
      /\ \A i \in 1 .. k : Taken(m, k)[i] = m[i]
  BY <1>0, SubSeqProperties DEF Taken
<1> HIDE DEF s, e
<1>4. /\ s \o e \in Seq(Alphabet) /\ Len(s \o e) = k
      /\ \A i \in 1 .. k : (s \o e)[i] = IF i <= k - 1 THEN s[i] ELSE e[i - (k - 1)]
  <2>1. /\ s \o e \in Seq(Alphabet) /\ Len(s \o e) = Len(s) + Len(e)
        /\ \A i \in 1 .. Len(s) + Len(e) :
             (s \o e)[i] = IF i <= Len(s) THEN s[i] ELSE e[i - Len(s)]
    BY <1>1, ConcatProperties
  <2>2. Len(s) + Len(e) = k
    BY <1>0, <1>1
  <2> QED
    BY <1>1, <2>1, <2>2
<1>5. ASSUME NEW i \in 1 .. k PROVE (s \o e)[i] = Taken(m, k)[i]
  <2>1. CASE i <= k - 1
    BY <1>0, <1>3, <1>4, <2>1
  <2>2. CASE i = k
    BY <1>0, <1>1, <1>3, <1>4, <2>2
  <2>3. i <= k - 1 \/ i = k
    BY <1>0
  <2> QED
    BY <2>1, <2>2, <2>3
<1>6. s \o e = Taken(m, k)
  BY <1>2, <1>4, <1>5, SeqEqual
<1> QED
  BY <1>0, <1>6, CutJoined DEF s, e

(* What comes before the end of a string.                                  *)
LEMMA Before ==
  ASSUME NEW s \in Seq(Alphabet), NEW x \in Seq(Alphabet), NEW t, t = s \o x
  PROVE  Taken(t, Len(t) - Len(x)) = s
<1>1. Len(s) \in Nat /\ Len(x) \in Nat
  BY LenProperties
<1>2. /\ t \in Seq(Alphabet) /\ Len(t) = Len(s) + Len(x)
      /\ \A i \in 1 .. Len(s) + Len(x) : t[i] = IF i <= Len(s) THEN s[i] ELSE x[i - Len(s)]
  BY ConcatProperties
<1>3. Len(t) - Len(x) = Len(s) /\ Len(s) \in 0 .. Len(t)
  BY <1>1, <1>2
<1>4. Taken(t, Len(s)) \in Seq(Alphabet) /\ Len(Taken(t, Len(s))) = Len(s)
  BY <1>2, <1>3, Cut
<1>5. \A i \in 1 .. Len(s) : t[i] = s[i] /\ t[i] \in Alphabet
  BY <1>1, <1>2, ElementOfSeq
<1>6. \A i \in 1 .. Len(s) : Taken(t, Len(s))[i] = t[i]
  BY <1>1, <1>5, SubSeqProperties DEF Taken
<1>7. Taken(t, Len(s)) = s
  BY <1>4, <1>5, <1>6, SeqEqual
<1> QED
  BY <1>3, <1>7

-----------------------------------------------------------------------------
(* What the object o of a connection has been told agrees with what was    *)
(* read: t is the whole of the text, b is in the buffer, x is not read     *)
(* yet, and the loop is at p.                                              *)
Long(t) ==
  \E a \in 0 .. Len(t) : /\ a + MaxLine < Len(t)
                         /\ \A k \in a + 1 .. a + MaxLine : t[k] # NewLine

WholeLines(h) == \A k \in 1 .. Len(h) : ~HasEnd(h[k].s)

Agree(o, t, b, x, p) ==
  IF o.lf
  THEN ~Long(t) => /\ t = (Brought(o.heard, <<NewLine>>) \o b) \o x
                   /\ WholeLines(o.heard)
                   /\ p \in {"idle", "read"} => ~HasEnd(b)
  ELSE b = << >> /\ t = Brought(o.heard, << >>) \o x

Strings(o, t, b, x) ==
  o \in ScriptObject /\ t \in Seq(Alphabet) /\ b \in Seq(Alphabet) /\ x \in Seq(Alphabet)

LEMMA Pieces ==
  ASSUME NEW o, NEW t, NEW b, NEW x, Strings(o, t, b, x)
  PROVE  /\ o.heard \in Seq(ScriptCall) /\ o.lf \in BOOLEAN
         /\ <<NewLine>> \in Seq(Alphabet) /\ << >> \in Seq(Alphabet)
         /\ Brought(o.heard, <<NewLine>>) \in Seq(Alphabet)
         /\ Brought(o.heard, << >>) \in Seq(Alphabet)
<1>1. o.heard \in Seq(ScriptCall) /\ o.lf \in BOOLEAN
  BY DEF Strings, ScriptObject
<1>2. <<NewLine>> \in Seq(Alphabet) /\ << >> \in Seq(Alphabet)
  BY LineAssumption, EmptySeq
<1>3. Brought(o.heard, <<NewLine>>) \in Seq(Alphabet) /\ Brought(o.heard, << >>) \in Seq(Alphabet)
  BY <1>1, <1>2, BroughtTyped
<1> QED
  BY <1>1, <1>2, <1>3

(* A line that is too long stays it.                                       *)
LEMMA LongStays ==
  ASSUME NEW t \in Seq(Alphabet), NEW c \in Alphabet, Long(t)
  PROVE  Long(Append(t, c))
<1> DEFINE u == Append(t, c)
<1>1. /\ u \in Seq(Alphabet) /\ Len(u) = Len(t) + 1 /\ Len(t) \in Nat
      /\ \A i \in 1 .. Len(t) : u[i] = t[i]
  BY AppendProperties, LenProperties
<1>2. PICK a \in 0 .. Len(t) : /\ a + MaxLine < Len(t)
                               /\ \A k \in a + 1 .. a + MaxLine : t[k] # NewLine
  BY DEF Long
<1> HIDE DEF u
<1>3. a \in 0 .. Len(u) /\ a + MaxLine < Len(u)
  BY <1>1, <1>2, LineAssumption
<1>4. ASSUME NEW k \in a + 1 .. a + MaxLine PROVE u[k] # NewLine
  <2>1. k \in 1 .. Len(t)
    BY <1>1, <1>2, LineAssumption
  <2> QED
    BY <1>1, <1>2, <2>1
<1>5. Long(u)
  BY <1>3, <1>4 DEF Long
<1> QED
  BY <1>5 DEF u

(* Arrive.                                                                 *)
LEMMA AgreeArrive ==
  ASSUME NEW o, NEW t, NEW b, NEW x, NEW p, Strings(o, t, b, x), Agree(o, t, b, x, p),
         NEW c \in Alphabet
  PROVE  Agree(o, Append(t, c), b, Append(x, c), p)
<1>0. /\ o.heard \in Seq(ScriptCall) /\ o.lf \in BOOLEAN
      /\ Brought(o.heard, <<NewLine>>) \in Seq(Alphabet)
      /\ Brought(o.heard, << >>) \in Seq(Alphabet)
      /\ t \in Seq(Alphabet) /\ b \in Seq(Alphabet) /\ x \in Seq(Alphabet)
  BY Pieces DEF Strings
<1> DEFINE e == <<c>>
<1>1. e \in Seq(Alphabet) /\ Append(t, c) = t \o e /\ Append(x, c) = x \o e
  BY <1>0, AppendIsConcat
<1> HIDE DEF e
<1>2. ASSUME NEW y \in Seq(Alphabet), t = y \o x PROVE Append(t, c) = y \o Append(x, c)
  <2>1. x \in Seq(Alphabet) /\ e \in Seq(Alphabet)
    BY <1>0, <1>1
  <2>2. (y \o x) \o e = y \o (x \o e)
    BY <2>1, Three
  <2> QED
    BY <1>1, <1>2, <2>2
<1>3. CASE o.lf
  <2> SUFFICES ASSUME ~Long(Append(t, c))
               PROVE  /\ Append(t, c) = (Brought(o.heard, <<NewLine>>) \o b) \o Append(x, c)
                      /\ WholeLines(o.heard)
                      /\ p \in {"idle", "read"} => ~HasEnd(b)
    BY <1>3 DEF Agree
  <2>1. ~Long(t)
    BY <1>0, LongStays
  <2>2. /\ t = (Brought(o.heard, <<NewLine>>) \o b) \o x /\ WholeLines(o.heard)
        /\ p \in {"idle", "read"} => ~HasEnd(b)
    BY <1>3, <2>1 DEF Agree
  <2>3. Brought(o.heard, <<NewLine>>) \o b \in Seq(Alphabet)
    BY <1>0, ConcatProperties
  <2> QED
    BY <1>2, <2>2, <2>3
<1>4. CASE ~o.lf
  <2>1. b = << >> /\ t = Brought(o.heard, << >>) \o x
    BY <1>4 DEF Agree
  <2>2. Append(t, c) = Brought(o.heard, << >>) \o Append(x, c)
    BY <1>0, <1>2, <2>1
  <2> QED
    BY <1>4, <2>1, <2>2 DEF Agree
<1> QED
  BY <1>3, <1>4

(* ReadSome, with flushlf: a piece goes from the socket to the buffer.     *)
LEMMA AgreeLoad ==
  ASSUME NEW o, NEW t, NEW b, NEW x, NEW p, Strings(o, t, b, x), Agree(o, t, b, x, p), o.lf,
         NEW k \in 0 .. Len(x)
  PROVE  Agree(o, t, b \o Taken(x, k), Left(x, k), "lines")
<1>0. /\ Brought(o.heard, <<NewLine>>) \in Seq(Alphabet)
      /\ t \in Seq(Alphabet) /\ b \in Seq(Alphabet) /\ x \in Seq(Alphabet)
  BY Pieces DEF Strings
<1> DEFINE y == Brought(o.heard, <<NewLine>>)
           u == Taken(x, k)
           v == Left(x, k)
<1>1. u \in Seq(Alphabet) /\ v \in Seq(Alphabet) /\ u \o v = x
  BY <1>0, Cut, CutJoined
<1>2. y \in Seq(Alphabet)
  BY <1>0
<1> HIDE DEF u, v, y
<1>3. (y \o b) \o x = (y \o (b \o u)) \o v
  <2>0. b \in Seq(Alphabet) /\ u \in Seq(Alphabet)
    BY <1>0, <1>1
  <2>1. y \o b \in Seq(Alphabet) /\ (y \o b) \o u = y \o (b \o u)
    BY <1>2, <2>0, Three
  <2>2. (y \o b) \o (u \o v) = ((y \o b) \o u) \o v
    BY <1>1, <2>1, Three
  <2> QED
    BY <1>1, <2>1, <2>2
<1>4. ASSUME ~Long(t) PROVE t = (y \o (b \o u)) \o v /\ WholeLines(o.heard)
  BY <1>3, <1>4 DEF Agree, y
<1>5. Agree(o, t, b \o u, v, "lines")
  BY <1>4 DEF Agree, y
<1> QED
  BY <1>5 DEF u, v

(* The object has become n by being told.                                  *)
HearsRead(o, n, data) ==
  n.lf = o.lf /\ n.heard = Append(o.heard, [e |-> "read", s |-> data])

(* ReadSome, without flushlf: the script gets all that was read.           *)
LEMMA AgreeBytes ==
  ASSUME NEW o, NEW t, NEW b, NEW x, NEW p, Strings(o, t, b, x), Agree(o, t, b, x, p), ~o.lf,
         NEW k \in 0 .. Len(x), NEW n, HearsRead(o, n, b \o Taken(x, k))
  PROVE  Agree(n, t, << >>, Left(x, k), "called")
<1>0. /\ Brought(o.heard, << >>) \in Seq(Alphabet) /\ << >> \in Seq(Alphabet)
      /\ o.heard \in Seq(ScriptCall)
      /\ t \in Seq(Alphabet) /\ b \in Seq(Alphabet) /\ x \in Seq(Alphabet)
  BY Pieces DEF Strings
<1> DEFINE y == Brought(o.heard, << >>)
           u == Taken(x, k)
           v == Left(x, k)
           c == [e |-> "read", s |-> u]
<1>1. u \in Seq(Alphabet) /\ v \in Seq(Alphabet) /\ u \o v = x
  BY <1>0, Cut, CutJoined
<1>2. y \in Seq(Alphabet)
  BY <1>0
<1>3. b = << >> /\ t = y \o x
  BY DEF Agree
<1>4. b \o u = u
  <2> HIDE DEF u
  <2> QED
    BY <1>1, <1>3, ConcatEmptySeq
<1>5. n.heard = Append(o.heard, c) /\ ~n.lf
  BY <1>4 DEF HearsRead
<1> HIDE DEF u, v
<1>6. c \in ScriptCall /\ c.e = "read" /\ c.s = u
  BY <1>1 DEF ScriptCall
<1> HIDE DEF c
<1>7. Brought(n.heard, << >>) = Bring(y, c, << >>)
  BY <1>0, <1>5, <1>6, BroughtAppend
<1> HIDE DEF y
<1>8. Bring(y, c, << >>) = y \o u
  <2>1. Bring(y, c, << >>) = (y \o u) \o << >>
    BY <1>6 DEF Bring
  <2>2. y \o u \in Seq(Alphabet)
    BY <1>1, <1>2, ConcatProperties
  <2> QED
    BY <2>1, <2>2, ConcatEmptySeq
<1>9. (y \o u) \o v = y \o (u \o v)
  BY <1>1, <1>2, Three
<1>10. t = Brought(n.heard, << >>) \o v
  BY <1>1, <1>3, <1>7, <1>8, <1>9
<1> QED
  BY <1>5, <1>10 DEF Agree, v

(* A line of the buffer ends at k, and none ends before.                   *)
FirstLineEnds(b, k) ==
  k \in 1 .. Len(b) /\ b[k] = NewLine /\ \A j \in 1 .. k - 1 : b[j] # NewLine

(* ReadLine: the first line goes from the buffer to the script.            *)
LEMMA AgreeLine ==
  ASSUME NEW o, NEW t, NEW b, NEW x, NEW p, Strings(o, t, b, x), Agree(o, t, b, x, p), o.lf,
         NEW k, FirstLineEnds(b, k), NEW n, HearsRead(o, n, Taken(b, k - 1))
  PROVE  Agree(n, t, Left(b, k), x, "called")
<1>0. /\ Brought(o.heard, <<NewLine>>) \in Seq(Alphabet) /\ <<NewLine>> \in Seq(Alphabet)
      /\ o.heard \in Seq(ScriptCall)
      /\ t \in Seq(Alphabet) /\ b \in Seq(Alphabet) /\ x \in Seq(Alphabet)
  BY Pieces DEF Strings
<1> DEFINE end == <<NewLine>>
           y == Brought(o.heard, end)
           u == Taken(b, k - 1)
           v == Left(b, k)
           c == [e |-> "read", s |-> u]
<1>1. /\ k \in Nat /\ k - 1 \in 0 .. Len(b) /\ k \in 0 .. Len(b) /\ k - 1 \in Nat
      /\ k \in 1 .. Len(b) /\ b[k] = NewLine /\ \A j \in 1 .. k - 1 : b[j] # NewLine
  BY <1>0, LenProperties DEF FirstLineEnds
<1>2. u \in Seq(Alphabet) /\ Len(u) = k - 1 /\ v \in Seq(Alphabet) /\ (u \o end) \o v = b
  <2>1. u \in Seq(Alphabet) /\ Len(u) = k - 1 /\ v \in Seq(Alphabet)
    BY <1>0, <1>1, Cut
  <2>2. (u \o end) \o v = b
    BY <1>0, <1>1, CutLine
  <2> QED
    BY <2>1, <2>2
<1>3. y \in Seq(Alphabet) /\ end \in Seq(Alphabet)
  BY <1>0
<1>4. ~HasEnd(u)
  <2>1. \A j \in 1 .. k - 1 : b[j] \in Alphabet
    BY <1>0, <1>1, ElementOfSeq
  <2>2. \A j \in 1 .. k - 1 : u[j] = b[j]
    BY <1>1, <2>1, SubSeqProperties DEF Taken
  <2> HIDE DEF u
  <2>3. DOMAIN u = 1 .. k - 1
    BY <1>2, LenProperties
  <2> QED
    BY <1>1, <2>2, <2>3 DEF HasEnd
<1>5. n.heard = Append(o.heard, c) /\ n.lf
  BY DEF HearsRead
<1> HIDE DEF u, v, end
<1>6. c \in ScriptCall /\ c.e = "read" /\ c.s = u
  BY <1>2 DEF ScriptCall
<1> HIDE DEF c
<1>7. Brought(n.heard, end) = (y \o u) \o end
  <2>1. Brought(n.heard, end) = Bring(y, c, end)
    BY <1>0, <1>5, <1>6, BroughtAppend
  <2> HIDE DEF y
  <2> QED
    BY <1>6, <2>1 DEF Bring
<1>8. (y \o b) \o x = (((y \o u) \o end) \o v) \o x
  <2> HIDE DEF y
  <2>0. /\ y \in Seq(Alphabet) /\ u \in Seq(Alphabet) /\ end \in Seq(Alphabet)
        /\ v \in Seq(Alphabet)
    BY <1>2, <1>3
  <2>1. Regroups(y, u, end, v)
    BY <2>0, Four
  <2> QED
    BY <1>2, <2>1 DEF Regroups
<1>9. ASSUME WholeLines(o.heard) PROVE WholeLines(n.heard)
  <2>1. /\ Len(n.heard) = Len(o.heard) + 1 /\ Len(o.heard) \in Nat
        /\ n.heard[Len(o.heard) + 1] = c
        /\ \A i \in 1 .. Len(o.heard) : n.heard[i] = o.heard[i]
    BY <1>0, <1>5, <1>6, AppendProperties, LenProperties
  <2> SUFFICES ASSUME NEW i \in 1 .. Len(n.heard) PROVE ~HasEnd(n.heard[i].s)
    BY DEF WholeLines
  <2>2. CASE i = Len(o.heard) + 1
    BY <1>4, <1>6, <2>1, <2>2
  <2>3. CASE i \in 1 .. Len(o.heard)
    BY <1>9, <2>1, <2>3 DEF WholeLines
  <2>4. i = Len(o.heard) + 1 \/ i \in 1 .. Len(o.heard)
    BY <2>1
  <2> QED
    BY <2>2, <2>3, <2>4
<1>10. ASSUME ~Long(t) PROVE t = (Brought(n.heard, end) \o v) \o x /\ WholeLines(n.heard)
  <2>1. t = (y \o b) \o x /\ WholeLines(o.heard)
    BY <1>10 DEF Agree, end
  <2> QED
    BY <1>7, <1>8, <1>9, <2>1
<1>11. Agree(n, t, v, x, "called")
  BY <1>5, <1>10 DEF Agree, end
<1> QED
  BY <1>11 DEF v

(* NoMoreLines: what is left is the beginning of a line.                   *)
LEMMA AgreeKept ==
  ASSUME NEW o, NEW t, NEW b, NEW x, NEW p, NEW q, Strings(o, t, b, x), Agree(o, t, b, x, p),
         o.lf, \A j \in 1 .. Len(b) : j <= MaxLine => b[j] # NewLine
  PROVE  Agree(o, t, IF Len(b) > MaxLine THEN << >> ELSE b, x, q)
<1>0. /\ Brought(o.heard, <<NewLine>>) \in Seq(Alphabet)
      /\ t \in Seq(Alphabet) /\ b \in Seq(Alphabet) /\ x \in Seq(Alphabet)
  BY Pieces DEF Strings
<1>1. Len(b) \in Nat /\ MaxLine \in Nat /\ Len(x) \in Nat /\ DOMAIN b = 1 .. Len(b)
  BY <1>0, LenProperties, LineAssumption
<1>2. CASE Len(b) > MaxLine
  <2> DEFINE y == Brought(o.heard, <<NewLine>>)
             a == Len(y)
  <2>1. ASSUME ~Long(t) PROVE FALSE
    <3>1. t = (y \o b) \o x /\ y \in Seq(Alphabet)
      BY <1>0, <2>1 DEF Agree
    <3>2. a \in Nat
      BY <3>1, LenProperties
    <3> HIDE DEF y
    <3>3. /\ y \o b \in Seq(Alphabet) /\ Len(y \o b) = a + Len(b)
          /\ \A i \in 1 .. a + Len(b) : (y \o b)[i] = IF i <= a THEN y[i] ELSE b[i - a]
      BY <1>0, <3>1, ConcatProperties
    <3> DEFINE z == y \o b
    <3>4. /\ Len(z \o x) = Len(z) + Len(x)
          /\ \A i \in 1 .. Len(z) + Len(x) :
               (z \o x)[i] = IF i <= Len(z) THEN z[i] ELSE x[i - Len(z)]
      BY <1>0, <3>3, ConcatProperties
    <3>5. t = z \o x /\ Len(z) = a + Len(b)
      BY <3>1, <3>3
    <3> HIDE DEF z, a
    <3>6. a \in 0 .. Len(t) /\ a + MaxLine < Len(t)
      BY <1>1, <1>2, <3>2, <3>4, <3>5
    <3>7. ASSUME NEW k \in a + 1 .. a + MaxLine PROVE t[k] # NewLine
      <4>1. /\ k \in 1 .. Len(z) + Len(x) /\ k <= Len(z) /\ k \in 1 .. a + Len(b) /\ ~(k <= a)
            /\ k - a \in 1 .. Len(b) /\ k - a <= MaxLine
        BY <1>1, <1>2, <3>2, <3>5
      <4>2. t[k] = z[k] /\ z[k] = b[k - a]
        BY <3>3, <3>4, <3>5, <4>1 DEF z
      <4> QED
        BY <4>1, <4>2
    <3>8. Long(t)
      BY <3>6, <3>7 DEF Long
    <3> QED
      BY <2>1, <3>8
  <2> QED
    BY <1>2, <2>1 DEF Agree
<1>3. CASE ~(Len(b) > MaxLine)
  <2>1. ~HasEnd(b)
    BY <1>1, <1>3 DEF HasEnd
  <2> QED
    BY <1>3, <2>1 DEF Agree
<1> QED
  BY <1>2, <1>3

(* A connection begins: nothing was sent, read or told.                    *)
LEMMA AgreeFresh ==
  ASSUME NEW o, NEW p, o \in ScriptObject, WholeLines(o.heard),
         \A end \in Seq(Alphabet) : Brought(o.heard, end) = << >>
  PROVE  Agree(o, << >>, << >>, << >>, p)
<1>1. << >> \in Seq(Alphabet) /\ <<NewLine>> \in Seq(Alphabet)
  BY EmptySeq, LineAssumption
<1>2. << >> \o << >> = << >>
  BY <1>1, ConcatEmptySeq
<1>3. ~HasEnd(<< >>)
  BY DEF HasEnd
<1>4. Brought(o.heard, <<NewLine>>) = << >> /\ Brought(o.heard, << >>) = << >>
  BY <1>1
<1> QED
  BY <1>2, <1>3, <1>4 DEF Agree

-----------------------------------------------------------------------------
(* While an object listens, what it was told agrees with what was read;    *)
(* before the connection nothing was sent and nothing is in the buffer.    *)
WholeOf(os, k, a, t, b, x, p) ==
  /\ k # "online" => t = << >> /\ b = << >>
  /\ (k = "online" /\ p # "farewell" /\ os[a].state) => Agree(os[a], t, b, x, p)

Whole     == WholeOf(objs, kind, attach, text, inbuf, inbox, pc)
WholeNext == WholeOf(objs', kind', attach', text', inbuf', inbox', pc')

LEMMA Attached ==
  ASSUME KInv, kind = "online"
  PROVE  /\ attach \in 1 .. Len(objs) /\ objs \in Seq(ScriptObject)
         /\ Strings(objs[attach], text, inbuf, inbox)
<1>1. attach \in 0 .. Len(objs) /\ attach # 0 /\ objs \in Seq(ScriptObject)
  BY DEF KInv, SocketTypeOK
<1>2. Len(objs) \in Nat
  BY <1>1, LenProperties
<1>3. attach \in 1 .. Len(objs)
  BY <1>1, <1>2
<1>4. objs[attach] \in ScriptObject
  BY <1>1, <1>3, ElementOfSeq
<1> QED
  BY <1>1, <1>3, <1>4 DEF Strings, KInv, SocketTypeOK

(* The loop goes on: only at a place where a rest waits must it be one.    *)
LEMMA QuietWhole ==
  ASSUME KInv, Whole, UNCHANGED <<kind, attach, text, inbuf, inbox>>,
         kind = "online" => objs'[attach] = objs[attach],
         \/ pc' = pc
         \/ pc \in {"idle", "read"} /\ pc' \in {"idle", "read"}
         \/ pc = "called" /\ (pc' = "lines" \/ ~objs[attach].lf)
  PROVE  WholeNext
<1>1. kind # "online" => text' = << >> /\ inbuf' = << >>
  BY DEF Whole, WholeOf
<1>2. ASSUME kind = "online", pc' # "farewell", objs'[attach].state
      PROVE  Agree(objs'[attach], text', inbuf', inbox', pc')
  <2> DEFINE o == objs[attach]
  <2>1. pc # "farewell" /\ o.state /\ objs'[attach] = o
    BY <1>2
  <2>2. Agree(o, text, inbuf, inbox, pc)
    BY <1>2, <2>1 DEF Whole, WholeOf
  <2>3. Agree(o, text, inbuf, inbox, pc')
    BY <2>2 DEF Agree
  <2> QED
    BY <2>1, <2>3
<1> QED
  BY <1>1, <1>2 DEF WholeNext, WholeOf

LEMMA LoopWhole ==
  ASSUME KInv, Whole, Poll \/ Return \/ ReadNothing \/ Finish \/ Reset \/ Flush
         \/ ServerClose \/ ServerClosed \/ ServerCloseAgain
  PROVE  WholeNext
<1>1. UNCHANGED <<kind, attach, text, inbuf, inbox, objs>>
  BY DEF Poll, Return, ReadNothing, Finish, Reset, Flush, ServerClose,
         ServerClosed, ServerCloseAgain, script, input
<1>2. \/ pc' = pc
      \/ pc \in {"idle", "read"} /\ pc' \in {"idle", "read"}
      \/ pc = "called" /\ (pc' = "lines" \/ ~objs[attach].lf)
  BY DEF Poll, Return, ReadNothing, Finish, Reset, Flush, ServerClose,
         ServerClosed, ServerCloseAgain, NextTurn, loop
<1> QED
  BY <1>1, <1>2, QuietWhole

LEMMA CloseCallWhole ==
  ASSUME KInv, Whole, NEW i \in Lives, NEW cut \in BOOLEAN, CloseCall(i, cut)
  PROVE  WholeNext
<1> DEFINE o == [objs[i] EXCEPT !.state = FALSE, !.closedAt = Len(objs[i].heard)]
<1>1. /\ UNCHANGED <<kind, attach, text, inbuf, inbox>> /\ objs[i].client
      /\ objs' = [objs EXCEPT ![i] = o]
  BY DEF CloseCall, input
<1>2. kind = "online" /\ attach = i
  BY <1>1, Reaches
<1>3. attach \in 1 .. Len(objs) /\ objs \in Seq(ScriptObject) /\ objs[attach] \in ScriptObject
  BY <1>2, Attached DEF Strings
<1>4. o.state = FALSE
  BY <1>2, <1>3 DEF ScriptObject
<1> HIDE DEF o
<1>5. objs'[attach] = o
  BY <1>1, <1>2, <1>3
<1> QED
  BY <1>1, <1>2, <1>4, <1>5 DEF WholeNext, WholeOf

LEMMA ConnectWhole ==
  ASSUME KInv, Whole, UNCHANGED <<text, inbuf, inbox, pc>>,
         NEW os \in Seq(ScriptObject), NEW i \in 1 .. Len(os),
         kind = "online" => i # attach /\ attach \in 1 .. Len(os) /\ os[attach] = objs[attach],
         \/ ape_connect(os, i)
         \/ objs' = os /\ UNCHANGED <<kind, attach>>
         \/ objs' = [os EXCEPT ![i] = Lost] /\ UNCHANGED <<kind, attach>>
  PROVE  WholeNext
<1>1. CASE /\ kind = "closed" /\ kind' = "progress"
  BY <1>1 DEF Whole, WholeNext, WholeOf
<1>2. CASE objs' \in {os, [os EXCEPT ![i] = Lost]} /\ UNCHANGED <<kind, attach>>
  <2>1. kind = "online" => objs'[attach] = objs[attach]
    BY <1>2
  <2> QED
    BY <1>2, <2>1, QuietWhole
<1> QED
  BY <1>1, <1>2 DEF ape_connect

LEMMA NewClientWhole ==
  ASSUME KInv, Whole, NEW lf \in BOOLEAN, NEW name, NewClient(lf, name)
  PROVE  WholeNext
<1> DEFINE o == Object("resolving", lf, FALSE)
           os == Append(objs, o)
           i == Len(objs) + 1
<1>1. UNCHANGED <<text, inbuf, inbox, pc>> /\ ape_gethostbyname(os, i, name)
  BY DEF NewClient, input, loop
<1>2. objs \in Seq(ScriptObject) /\ Len(objs) \in Nat
  BY LenProperties DEF KInv, SocketTypeOK
<1>3. o \in ScriptObject
  BY Made, ZenonT(60) DEF Stages
<1> HIDE DEF o
<1>4. os \in Seq(ScriptObject) /\ Len(os) = Len(objs) + 1 /\ \A j \in 1 .. Len(objs) : os[j] = objs[j]
  BY <1>2, <1>3, AppendProperties
<1> HIDE DEF os
<1>5. i \in 1 .. Len(os)
  BY <1>2, <1>4
<1>6. ASSUME kind = "online"
      PROVE  i # attach /\ attach \in 1 .. Len(os) /\ os[attach] = objs[attach]
  <2>1. attach \in 1 .. Len(objs)
    BY <1>6, Attached
  <2> QED
    BY <1>2, <1>4, <2>1
<1> HIDE DEF i
<1>7. \/ ape_connect(os, i)
      \/ objs' = os /\ UNCHANGED <<kind, attach>>
      \/ objs' = [os EXCEPT ![i] = Lost] /\ UNCHANGED <<kind, attach>>
  BY <1>1 DEF ape_gethostbyname
<1> QED
  BY <1>1, <1>4, <1>5, <1>6, <1>7, ConnectWhole

LEMMA dnscbWhole ==
  ASSUME KInv, Whole, NEW i \in Lives, NEW answer, dnscb(i, answer)
  PROVE  WholeNext
<1>1. /\ UNCHANGED <<text, inbuf, inbox, pc>> /\ objs[i].stage = "resolving" /\ i \in 1 .. Len(objs)
      /\ \/ ape_connect(objs, i)
         \/ objs' = [objs EXCEPT ![i] = Lost] /\ UNCHANGED <<kind, attach>>
  BY DEF dnscb, Lives, input, loop
<1>2. objs \in Seq(ScriptObject) /\ ObjectOk(objs[i], i, kind, attach, pc)
  BY <1>1 DEF KInv, SocketTypeOK, ObjectsOk
<1>3. attach # i
  BY <1>1, <1>2 DEF ObjectOk
<1>4. kind = "online" => i # attach /\ attach \in 1 .. Len(objs) /\ objs[attach] = objs[attach]
  BY <1>3, Attached
<1> QED
  BY <1>1, <1>2, <1>4, ConnectWhole

(* A connection begins.                                                    *)
LEMMA AcceptWhole ==
  ASSUME KInv, Whole, Accept
  PROVE  WholeNext
<1> DEFINE lf == (server.mode = "lines")
           o == Object("open", lf, TRUE)
<1>1. /\ UNCHANGED <<text, inbuf, inbox, pc>> /\ objs' = Append(objs, o) /\ attach' = Len(objs) + 1
      /\ kind = "closed" /\ kind' = "online"
  BY DEF Accept, sm_sock_onaccept, input, loop
<1>2. objs \in Seq(ScriptObject)
  BY DEF KInv, SocketTypeOK
<1>3. text = << >> /\ inbuf = << >> /\ inbox = << >>
  BY <1>1 DEF Whole, WholeOf, KInv, Untouched
<1> lf \in BOOLEAN
  OBVIOUS
<1> HIDE DEF lf
<1>4. o \in ScriptObject /\ o.heard = << >>
  BY Made, ZenonT(60) DEF Stages
<1> HIDE DEF o
<1>5. objs'[attach'] = o
  BY <1>1, <1>2, <1>4, AppendProperties
<1>6. o.heard \in Seq(ScriptCall)
  BY <1>4 DEF ScriptObject
<1>7. \A end \in Seq(Alphabet) : Brought(o.heard, end) = << >>
  BY <1>4, <1>6, BroughtNothing
<1>8. WholeLines(o.heard)
  BY <1>4, EmptySeq DEF WholeLines
<1>9. Agree(o, << >>, << >>, << >>, pc)
  BY <1>4, <1>7, <1>8, AgreeFresh
<1> QED
  BY <1>1, <1>3, <1>5, <1>9 DEF WholeNext, WholeOf

(* A connection ends, or an attempt.                                       *)
LEMMA EndWhole ==
  ASSUME KInv, Whole, Fails(attach) \/ AtEnd \/ Close
  PROVE  WholeNext
<1>1. CASE Fails(attach) \/ AtEnd
  BY <1>1 DEF Fails, AtEnd, input, Whole, WholeNext, WholeOf
<1>2. CASE Close
  BY <1>2 DEF Close, Cleared, WholeNext, WholeOf
<1> QED
  BY <1>1, <1>2

LEMMA ConnectDoneWhole ==
  ASSUME KInv, Whole, ConnectDone
  PROVE  WholeNext
<1>1. pc = "idle" /\ kind = "progress"
  BY DEF ConnectDone
<1>2. CASE Fails(attach)
  BY <1>2, EndWhole
<1>3. CASE /\ kind' = "online" /\ objs' = sm_sock_onconnect(attach)
           /\ UNCHANGED <<vars, server, attach, input, loop>>
  <2> DEFINE c == [e |-> "connect", s |-> << >>]
             h == Append(objs[attach].heard, c)
             o == [objs[attach] EXCEPT !.client = TRUE, !.stage = "open", !.heard = h]
  <2>1. UNCHANGED <<attach, text, inbuf, inbox, pc>> /\ objs' = [objs EXCEPT ![attach] = o]
    BY <1>3 DEF input, loop, sm_sock_onconnect, Heard
  <2>2. text = << >> /\ inbuf = << >> /\ inbox = << >>
    BY <1>1 DEF Whole, WholeOf, KInv, Untouched
  <2>3. attach \in 1 .. Len(objs) /\ objs \in Seq(ScriptObject) /\ ObjectsOk(objs, kind, attach, pc)
    <3>1. attach \in 0 .. Len(objs) /\ attach # 0 /\ objs \in Seq(ScriptObject)
      BY <1>1 DEF KInv, SocketTypeOK
    <3>2. Len(objs) \in Nat
      BY <3>1, LenProperties
    <3> QED
      BY <3>1, <3>2 DEF KInv
  <2>4. objs[attach] \in ScriptObject /\ ObjectOk(objs[attach], attach, kind, attach, pc)
    BY <2>3, ElementOfSeq DEF ObjectsOk
  <2>5. objs[attach].heard = << >> /\ objs[attach].heard \in Seq(ScriptCall)
    BY <1>1, <2>4 DEF ObjectOk, ScriptObject
  <2>6. c \in ScriptCall /\ c.e = "connect" /\ c.s = << >>
    BY EmptySeq DEF ScriptCall
  <2> HIDE DEF c
  <2>7. /\ h \in Seq(ScriptCall) /\ Len(h) = 1 /\ h[1] = c
    <3>1. Len(objs[attach].heard) = 0
      BY <2>5, EmptySeq
    <3> QED
      BY <2>5, <2>6, <3>1, AppendProperties
  <2>8. \A end \in Seq(Alphabet) : Brought(h, end) = << >>
    <3> SUFFICES ASSUME NEW end \in Seq(Alphabet) PROVE Brought(h, end) = << >>
      OBVIOUS
    <3>1. Brought(h, end) = Bring(Brought(objs[attach].heard, end), c, end)
      BY <2>5, <2>6, BroughtAppend
    <3>2. Brought(objs[attach].heard, end) = << >>
      BY <2>5, BroughtNothing
    <3> QED
      BY <2>6, <3>1, <3>2 DEF Bring
  <2> HIDE DEF h
  <2>9. WholeLines(h)
    BY <2>6, <2>7 DEF WholeLines, HasEnd
  <2>10. o \in ScriptObject /\ o.heard = h
    BY <2>4, <2>7 DEF ScriptObject, Stages
  <2> HIDE DEF o
  <2>11. objs'[attach] = o
    BY <2>1, <2>3
  <2>12. Agree(o, << >>, << >>, << >>, pc)
    BY <2>8, <2>9, <2>10, AgreeFresh
  <2> QED
    BY <1>3, <2>1, <2>2, <2>11, <2>12 DEF WholeNext, WholeOf
<1> QED
  BY <1>2, <1>3 DEF ConnectDone

(* The peer sends.                                                         *)
LEMMA ArriveWhole ==
  ASSUME KInv, Whole, NEW c \in Alphabet, Arrive(c)
  PROVE  WholeNext
<1>1. /\ UNCHANGED <<objs, kind, attach, inbuf, pc>> /\ kind = "online"
      /\ text' = Append(text, c) /\ inbox' = Append(inbox, c)
  BY DEF Arrive, script
<1>2. Strings(objs[attach], text, inbuf, inbox)
  BY <1>1, Attached
<1>3. ASSUME pc # "farewell", objs[attach].state
      PROVE  Agree(objs[attach], Append(text, c), inbuf, Append(inbox, c), pc)
  <2>1. Agree(objs[attach], text, inbuf, inbox, pc)
    BY <1>1, <1>3 DEF Whole, WholeOf
  <2> QED
    BY <1>2, <2>1, AgreeArrive
<1> QED
  BY <1>1, <1>3 DEF WholeNext, WholeOf

(* The object of the connection hears data.                                *)
LEMMA Reader ==
  ASSUME NEW os \in Seq(ScriptObject), NEW a \in 1 .. Len(os), NEW m, NEW data,
         Called(os, m, a, "read", data)
  PROVE  HearsRead(os[a], m[a], data)
<1>1. os[a] \in ScriptObject
  BY ElementOfSeq
<1> DEFINE h == Append(os[a].heard, [e |-> "read", s |-> data])
           n == [os[a] EXCEPT !.heard = h]
<1>2. m = [os EXCEPT ![a] = n]
  BY DEF Called
<1>3. n.lf = os[a].lf /\ n.heard = h
  <2> HIDE DEF h
  <2> QED
    BY <1>1 DEF ScriptObject
<1> HIDE DEF n
<1>4. m[a] = n
  BY <1>2
<1> QED
  BY <1>3, <1>4 DEF HearsRead

LEMMA ReadSomeWhole ==
  ASSUME KInv, Whole, ReadSome
  PROVE  WholeNext
<1> DEFINE o == objs[attach]
           k == Chunk
           data == inbuf \o Taken(inbox, k)
<1>1. UNCHANGED <<kind, attach, text>> /\ pc = "read" /\ inbox' = Left(inbox, k)
  BY DEF ReadSome
<1>2. /\ o.lf => inbuf' = data /\ pc' = "lines" /\ objs' = objs
      /\ ~o.lf /\ o.state => inbuf' = << >> /\ pc' = "called" /\ Called(objs, objs', attach, "read", data)
      /\ ~o.lf /\ ~o.state => objs' = objs
  BY DEF ReadSome, sm_sock_onread, Heard, Called
<1>3. kind = "online"
  BY <1>1 DEF KInv, LoopOk
<1>4. Strings(o, text, inbuf, inbox) /\ attach \in 1 .. Len(objs) /\ objs \in Seq(ScriptObject)
  BY <1>3, Attached
<1>5. k \in 0 .. Len(inbox)
  <2>1. size \in Nat /\ Len(inbuf) \in Nat /\ Len(inbox) \in Nat /\ Len(inbuf) < size
    BY <1>4, LenProperties DEF Strings, KInv, SocketTypeOK
  <2> QED
    BY <2>1 DEF Chunk
<1> HIDE DEF k, data
<1>6. CASE ~o.state
  <2>1. objs' = objs
    BY <1>2, <1>6
  <2> QED
    BY <1>1, <1>3, <1>6, <2>1 DEF WholeNext, WholeOf
<1>7. CASE o.state
  <2>1. Agree(o, text, inbuf, inbox, pc)
    BY <1>1, <1>3, <1>7 DEF Whole, WholeOf
  <2>2. CASE o.lf
    <3>1. Agree(o, text, inbuf \o Taken(inbox, k), Left(inbox, k), "lines")
      BY <1>4, <1>5, <2>1, <2>2, AgreeLoad
    <3> QED
      BY <1>1, <1>2, <1>3, <2>2, <3>1 DEF WholeNext, WholeOf, data
  <2>3. CASE ~o.lf
    <3>1. HearsRead(o, objs'[attach], data)
      BY <1>2, <1>4, <1>7, <2>3, Reader
    <3>2. Agree(objs'[attach], text, << >>, Left(inbox, k), "called")
      BY <1>4, <1>5, <2>1, <2>3, <3>1, AgreeBytes DEF data
    <3> QED
      BY <1>1, <1>2, <1>3, <1>7, <2>3, <3>2 DEF WholeNext, WholeOf
  <2> QED
    BY <2>2, <2>3
<1> QED
  BY <1>6, <1>7

LEMMA FirstLineIs ==
  ASSUME inbuf \in Seq(Alphabet), LineEnds # {}
  PROVE  FirstLineEnds(inbuf, FirstEnd)
<1>1. Len(inbuf) \in Nat /\ MaxLine \in Nat
  BY LenProperties, LineAssumption
<1>2. LineEnds \in SUBSET Nat
  BY <1>1 DEF LineEnds
<1>3. \E y \in LineEnds : \A z \in LineEnds : y <= z
  BY <1>2, Least
<1>4. FirstEnd \in LineEnds /\ \A z \in LineEnds : FirstEnd <= z
  BY <1>3 DEF FirstEnd
<1> DEFINE k == FirstEnd
<1>5. k \in LineEnds /\ \A z \in LineEnds : k <= z
  BY <1>4
<1> HIDE DEF k
<1>6. k \in 1 .. Len(inbuf) /\ k <= MaxLine /\ inbuf[k] = NewLine
  BY <1>5 DEF LineEnds
<1>7. ASSUME NEW j \in 1 .. k - 1 PROVE inbuf[j] # NewLine
  <2>1. j \in 1 .. Len(inbuf) /\ j <= MaxLine /\ ~(k <= j)
    BY <1>1, <1>6
  <2>2. j \notin LineEnds
    BY <1>5, <2>1
  <2> QED
    BY <2>1, <2>2 DEF LineEnds
<1>8. FirstLineEnds(inbuf, k)
  BY <1>6, <1>7 DEF FirstLineEnds
<1> QED
  BY <1>8 DEF k

(* With lines in the buffer the object has flushlf.                        *)
LoadedLines == pc = "lines" => objs[attach].lf

LEMMA ReadLineWhole ==
  ASSUME KInv, Whole, LoadedLines, ReadLine
  PROVE  WholeNext
<1> DEFINE o == objs[attach]
           k == FirstEnd
           line == Taken(inbuf, k - 1)
<1>1. /\ UNCHANGED <<kind, attach, text, inbox>> /\ pc = "lines" /\ LineEnds # {}
      /\ inbuf' = Left(inbuf, k)
  BY DEF ReadLine
<1>2. /\ o.state => pc' = "called" /\ Called(objs, objs', attach, "read", line)
      /\ ~o.state => objs' = objs
  BY DEF ReadLine, sm_sock_onread_lf, Listening, Heard, Called
<1>3. kind = "online"
  BY <1>1 DEF KInv, LoopOk
<1>4. Strings(o, text, inbuf, inbox) /\ attach \in 1 .. Len(objs) /\ objs \in Seq(ScriptObject)
  BY <1>3, Attached
<1>5. FirstLineEnds(inbuf, k)
  BY <1>1, <1>4, FirstLineIs DEF Strings
<1> HIDE DEF k, line
<1>6. CASE ~o.state
  <2>1. objs' = objs
    BY <1>2, <1>6
  <2> QED
    BY <1>1, <1>3, <1>6, <2>1 DEF WholeNext, WholeOf
<1>7. CASE o.state
  <2>1. Agree(o, text, inbuf, inbox, pc) /\ o.lf
    BY <1>1, <1>3, <1>7 DEF Whole, WholeOf, LoadedLines
  <2>2. HearsRead(o, objs'[attach], line)
    BY <1>2, <1>4, <1>7, Reader
  <2>3. Agree(objs'[attach], text, Left(inbuf, k), inbox, "called")
    BY <1>4, <1>5, <2>1, <2>2, AgreeLine DEF line
  <2> QED
    BY <1>1, <1>2, <1>3, <1>7, <2>3 DEF WholeNext, WholeOf
<1> QED
  BY <1>6, <1>7

LEMMA NoMoreLinesWhole ==
  ASSUME KInv, Whole, LoadedLines, NoMoreLines
  PROVE  WholeNext
<1> DEFINE o == objs[attach]
<1>1. /\ UNCHANGED <<kind, attach, text, inbox, objs>> /\ pc = "lines" /\ LineEnds = {}
      /\ inbuf' = IF Len(inbuf) > MaxLine THEN << >> ELSE inbuf
  BY DEF NoMoreLines, script, Kept
<1>2. kind = "online"
  BY <1>1 DEF KInv, LoopOk
<1>3. Strings(o, text, inbuf, inbox)
  BY <1>2, Attached
<1>4. \A j \in 1 .. Len(inbuf) : j <= MaxLine => inbuf[j] # NewLine
  BY <1>1 DEF LineEnds
<1>5. ASSUME o.state PROVE Agree(o, text, inbuf', inbox, pc')
  <2>1. Agree(o, text, inbuf, inbox, pc) /\ o.lf
    BY <1>1, <1>2, <1>5 DEF Whole, WholeOf, LoadedLines
  <2>2. Agree(o, text, IF Len(inbuf) > MaxLine THEN << >> ELSE inbuf, inbox, pc')
    BY <1>3, <1>4, <2>1, AgreeKept
  <2> QED
    BY <1>1, <2>2
<1> QED
  BY <1>1, <1>2, <1>5 DEF WholeNext, WholeOf

LEMMA LoadedStep ==
  ASSUME KInv, LoadedLines, [SocketNext]_all
  PROVE  LoadedLines'
<1> SUFFICES ASSUME pc' = "lines" PROVE objs'[attach'].lf
  BY DEF LoadedLines
<1>1. CASE ScriptCalls
  <2>1. pc' = pc /\ pc # "lines"
    BY <1>1 DEF ScriptCalls, NewClient, Listen, ServerClose, ServerCloseAgain, Write,
            CloseCall, ScriptRuns, loop
  <2> QED
    BY <2>1
<1>2. CASE \/ Accept \/ ServerClosed
           \/ \E i \in Lives, answer \in {"address", "failed", "nodata"} : dnscb(i, answer)
  <2>1. pc' = pc /\ pc # "lines"
    BY <1>2 DEF Accept, ServerClosed, dnscb, loop
  <2> QED
    BY <2>1
<1>3. CASE Finish \/ Reset \/ Flush \/ (\E c \in Alphabet : Arrive(c)) \/ UNCHANGED all
  <2>1. UNCHANGED <<pc, objs, attach>>
    BY <1>3 DEF Finish, Reset, Flush, Arrive, all, script
  <2> QED
    BY <2>1 DEF LoadedLines
<1>4. CASE Loop
  <2>1. CASE ReadSome
    BY <2>1 DEF ReadSome, sm_sock_onread, NextTurn
  <2>2. CASE ReadLine
    BY <2>2 DEF ReadLine, sm_sock_onread_lf, LoadedLines
  <2>3. CASE Return
    BY <2>3 DEF Return, script, NextTurn
  <2>4. CASE ConnectDone \/ Poll \/ NoMoreLines \/ ReadNothing \/ AtEnd \/ Close
    <3>1. pc' # "lines"
      BY <2>4 DEF ConnectDone, Fails, Poll, NoMoreLines, ReadNothing, AtEnd, Close, NextTurn, loop
    <3> QED
      BY <3>1
  <2> QED
    BY <1>4, <2>1, <2>2, <2>3, <2>4 DEF Loop
<1> QED
  BY <1>1, <1>2, <1>3, <1>4 DEF SocketNext, World

LEMMA WholeStep ==
  ASSUME KInv, Whole, LoadedLines, [SocketNext]_all
  PROVE  WholeNext
<1>1. CASE \E lf \in BOOLEAN, name \in {"address", "host", "invalid"} : NewClient(lf, name)
  BY <1>1, NewClientWhole
<1>2. CASE Poll \/ Return \/ ReadNothing \/ Finish \/ Reset \/ Flush
           \/ ServerClose \/ ServerClosed \/ ServerCloseAgain
  BY <1>2, LoopWhole
<1>3. CASE \/ \E i \in Lives : \E c \in Says[i] : Write(i, c[1], c[2])
           \/ \E mode \in {"lines", "bytes"} : Listen(mode)
           \/ UNCHANGED all
  <2>1. UNCHANGED <<objs, kind, attach, text, inbuf, inbox, pc>>
    BY <1>3 DEF Write, Listen, all, script, input, loop
  <2> QED
    BY <2>1, QuietWhole
<1>4. CASE \E i \in Lives, cut \in BOOLEAN : CloseCall(i, cut)
  BY <1>4, CloseCallWhole
<1>5. CASE \E i \in Lives, answer \in {"address", "failed", "nodata"} : dnscb(i, answer)
  BY <1>5, dnscbWhole
<1>6. CASE Accept
  BY <1>6, AcceptWhole
<1>7. CASE \E c \in Alphabet : Arrive(c)
  BY <1>7, ArriveWhole
<1>8. CASE ConnectDone
  BY <1>8, ConnectDoneWhole
<1>9. CASE ReadSome
  BY <1>9, ReadSomeWhole
<1>10. CASE ReadLine
  BY <1>10, ReadLineWhole
<1>11. CASE NoMoreLines
  BY <1>11, NoMoreLinesWhole
<1>12. CASE AtEnd \/ Close
  BY <1>12, EndWhole
<1> QED
  BY <1>1, <1>2, <1>3, <1>4, <1>5, <1>6, <1>7, <1>8, <1>9, <1>10, <1>11, <1>12
  DEF SocketNext, ScriptCalls, World, Loop

(* A script gets what the peer sent, with flushlf in whole lines and       *)
(* without it byte for byte, in order, once, and all of it up to what      *)
(* still waits in the buffer or in the socket, however the kernel cuts it  *)
(* into pieces and however the buffer grows (sockroutine, sneof,           *)
(* sm_sock_onread, sm_sock_onread_lf).                                     *)
THEOREM LinesArriveWhole == SocketSpec => []ReadsWhole
<1>1. SocketInit => Whole /\ LoadedLines
  BY DEF SocketInit, Whole, WholeOf, LoadedLines
<1>2. KInv /\ Whole /\ LoadedLines /\ [SocketNext]_all => (Whole /\ LoadedLines)'
  <2> SUFFICES ASSUME KInv, Whole, LoadedLines, [SocketNext]_all
               PROVE  Whole' /\ LoadedLines'
    OBVIOUS
  <2>1. WholeNext
    BY WholeStep
  <2>2. Whole'
    BY <2>1 DEF Whole, WholeNext, WholeOf, Agree, WholeLines, HasEnd, Long
  <2> QED
    BY <2>2, LoadedStep
<1>3. KInv /\ Whole => ReadsWhole
  <2> SUFFICES ASSUME KInv, Whole, kind = "online", pc \in {"idle", "read"}, objs[attach].state
               PROVE  LET h == objs[attach].heard
                      IN  IF objs[attach].lf
                          THEN ~LongLine => /\ Brought(h, <<NewLine>>) \o inbuf = Consumed
                                            /\ \A k \in DOMAIN h : ~HasEnd(h[k].s)
                                            /\ ~HasEnd(inbuf)
                          ELSE Brought(h, << >>) = Consumed
    BY DEF ReadsWhole
  <2> DEFINE o == objs[attach]
             y == Brought(o.heard, <<NewLine>>)
             z == Brought(o.heard, << >>)
  <2>1. Strings(o, text, inbuf, inbox)
    BY Attached
  <2>2. Agree(o, text, inbuf, inbox, pc)
    BY DEF Whole, WholeOf
  <2>3. /\ o.heard \in Seq(ScriptCall) /\ y \in Seq(Alphabet) /\ z \in Seq(Alphabet)
        /\ inbuf \in Seq(Alphabet) /\ inbox \in Seq(Alphabet)
    BY <2>1, Pieces DEF Strings
  <2>4. DOMAIN o.heard = 1 .. Len(o.heard)
    BY <2>3, LenProperties
  <2>5. CASE ~o.lf
    <3>1. text = z \o inbox
      BY <2>2, <2>5 DEF Agree
    <3> HIDE DEF z
    <3>2. Consumed = z
      BY <2>3, <3>1, Before DEF Consumed
    <3> QED
      BY <2>5, <3>2 DEF z
  <2>6. CASE o.lf
    <3> SUFFICES ASSUME ~LongLine
                 PROVE  y \o inbuf = Consumed /\ WholeLines(o.heard) /\ ~HasEnd(inbuf)
      BY <2>4, <2>6 DEF WholeLines
    <3>1. ~Long(text)
      BY DEF Long, LongLine
    <3>2. text = (y \o inbuf) \o inbox /\ WholeLines(o.heard) /\ ~HasEnd(inbuf)
      BY <2>2, <2>6, <3>1 DEF Agree
    <3>3. y \o inbuf \in Seq(Alphabet)
      BY <2>3, ConcatProperties
    <3> HIDE DEF y
    <3>4. Consumed = y \o inbuf
      BY <2>3, <3>2, <3>3, Before DEF Consumed
    <3> QED
      BY <3>2, <3>4
  <2> QED
    BY <2>5, <2>6
<1> QED
  BY <1>1, <1>2, <1>3, SocketInvariance, PTL DEF SocketSpec

=============================================================================
