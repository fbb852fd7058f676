-------------------------- MODULE HttpParserProofs --------------------------
(***************************************************************************)
(* Proofs about HttpParser, for every set of line-oriented streams, every  *)
(* first size of the buffer and every limit on the length of a body.       *)
(***************************************************************************)
EXTENDS HttpParser, WellFoundedInduction, TLAPS

USE SizeAssumption, ContentAssumption, NullAssumption

(* Every non-empty set of naturals has a least element, and every one that *)
(* is bounded a greatest: Min and Max choose them.                          *)
LEMMA Least ==
  ASSUME NEW T \in SUBSET Nat, T # {}
  PROVE  \E x \in T : \A y \in T : x <= y
<1> DEFINE R == OpToRel(<, Nat)
<1>1. IsWellFoundedOn(R, Nat)
  BY NatLessThanWellFounded
<1>2. ASSUME NEW x \in Nat, NEW y \in Nat, y < x PROVE <<y, x>> \in R
  BY <1>2 DEF OpToRel
<1> HIDE DEF R
<1>3. PICK x \in T : \A y \in T : ~(<<y, x>> \in R)
  BY <1>1, WFMin
<1>4. ASSUME NEW y \in T PROVE x <= y
  <2>1. x \in Nat /\ y \in Nat
    OBVIOUS
  <2>2. ~(y < x)
    BY <1>2, <1>3, <2>1
  <2> QED
    BY <2>1, <2>2
<1> QED
  BY <1>4

LEMMA MinIsLeast ==
  ASSUME NEW T \in SUBSET Nat, T # {}
  PROVE  Min(T) \in T /\ \A y \in T : Min(T) <= y
  BY Least DEF Min

(* When the greatest element is known, Max is that element.                 *)
LEMMA MaxIsGreatest ==
  ASSUME NEW T \in SUBSET Nat, NEW x \in T, \A y \in T : y <= x
  PROVE  Max(T) = x
<1>1. Max(T) \in T /\ \A y \in T : Max(T) >= y
  BY DEF Max
<1>2. Max(T) \in Nat /\ x \in Nat
  BY <1>1
<1>3. Max(T) <= x /\ Max(T) >= x
  BY <1>1
<1> QED
  BY <1>2, <1>3

LEMMA MinIsKnown ==
  ASSUME NEW T \in SUBSET Nat, NEW x \in T, \A y \in T : x <= y
  PROVE  Min(T) = x
<1>1. Min(T) \in T /\ \A y \in T : Min(T) <= y
  BY MinIsLeast
<1>2. Min(T) \in Nat /\ x \in Nat
  BY <1>1
<1>3. Min(T) <= x /\ x <= Min(T)
  BY <1>1
<1> QED
  BY <1>2, <1>3

-----------------------------------------------------------------------------
(* The ends of lines that seof() finds are in the buffer, behind pos.       *)
LEMMA NextLineFound ==
  ASSUME TypeOK, Ends # {}
  PROVE  /\ NextLine \in http.pos + 1 .. got
         /\ stream[NextLine] = LineEnd
         /\ \A i \in http.pos + 1 .. NextLine - 1 : stream[i] # LineEnd
<1>1. http.pos \in Nat /\ got \in Nat
  BY DEF TypeOK
<1>2. Ends \in SUBSET Nat
  BY <1>1 DEF Ends
<1>3. NextLine \in Ends /\ \A i \in Ends : NextLine <= i
  BY <1>2, MinIsLeast DEF NextLine
<1>4. NextLine \in http.pos + 1 .. got /\ stream[NextLine] = LineEnd
  BY <1>3 DEF Ends
<1>5. ASSUME NEW i \in http.pos + 1 .. NextLine - 1 PROVE stream[i] # LineEnd
  <2>1. i \in http.pos + 1 .. got
    BY <1>1, <1>4
  <2>2. i < NextLine
    BY <1>1, <1>4
  <2> QED
    BY <1>1, <1>3, <1>4, <2>1, <2>2 DEF Ends
<1> QED
  BY <1>4, <1>5

(* What is left to show of a pointer that process_http() keeps: while it   *)
(* is not NULL, buffer_addr says which buffer it points into.               *)
PointerInv ==
  /\ http.pos <= got
  /\ http.uri # NULL => http.addr # NULL /\ http.uri.base = http.addr
  /\ http.data # NULL => http.addr # NULL /\ http.data.base = http.addr
  /\ http.step > 0 => http.uri # NULL
  /\ handed # NULL => ~busy
  /\ RoomToRead
  /\ PointersFresh

(* After the pointers followed the buffer they are NULL or point into it,  *)
(* and nothing else has changed.                                            *)
LEMMA HereRebased ==
  ASSUME TypeOK, PointerInv
  PROVE  /\ Here \in [pos : {http.pos}, step : {http.step}, type : {http.type},
                      clen : {http.clen}, read : {http.read}, uri : Pointers, data : Pointers,
                      addr : {base, http.addr}, hlines : {http.hlines}]
         /\ Here.uri # NULL => Here.uri.base = base /\ Here.addr = base
         /\ Here.data # NULL => Here.data.base = base /\ Here.addr = base
         /\ Here.uri = NULL <=> http.uri = NULL
         /\ Here.data = NULL <=> http.data = NULL
         /\ Here.data # NULL => Here.data.off = http.data.off
<1>1. CASE ~Moved
  BY <1>1 DEF TypeOK, PointerInv, Here, Moved
<1>2. CASE Moved
  <2>1. Here = [http EXCEPT !.uri = Rebased(http.uri), !.data = Rebased(http.data), !.addr = base]
    BY <1>2 DEF Here, TypeOK
  <2>2. \A p \in Pointers : /\ Rebased(p) \in Pointers
                            /\ Rebased(p) = NULL <=> p = NULL
                            /\ p # NULL => Rebased(p).base = base /\ Rebased(p).off = p.off
    BY DEF TypeOK, Rebased, Pointers
  <2> QED
    BY <2>1, <2>2 DEF TypeOK
<1> QED
  BY <1>1, <1>2

HttpType ==
  [pos : 0 .. Len(stream), step : 0 .. 2, type : Types, clen : BodyLengths \ {0},
   read : Nat, uri : Pointers, data : Pointers, addr : Nat \cup {NULL},
   hlines : SUBSET HLines]

(* The parser state h is in order when it refers to the buffer at base.     *)
InOrder(h) ==
  /\ h \in HttpType
  /\ h.pos <= got
  /\ h.uri # NULL => h.addr = base /\ h.uri.base = base
  /\ h.data # NULL => h.addr = base /\ h.data.base = base
  /\ h.step > 0 => h.uri # NULL

LEMMA HereInOrder ==
  ASSUME TypeOK, PointerInv
  PROVE  InOrder(Here)
<1>1. Here \in HttpType
  BY HereRebased DEF HttpType, TypeOK
<1> QED
  BY <1>1, HereRebased DEF InOrder, PointerInv

(* Ranges that every change of the parser state stays in.                   *)
LEMMA Ranges ==
  ASSUME TypeOK
  PROVE  /\ Len(stream) \in Nat /\ 0 \in 0 .. Len(stream) /\ got \in 0 .. Len(stream)
         /\ base \in Nat /\ base \in Nat \cup {NULL}
         /\ http.clen \in BodyLengths \ {0} /\ KeyBytes \in BodyLengths \ {0}
         /\ 1 \in 0 .. 2 /\ 2 \in 0 .. 2
  BY DEF TypeOK, BodyLengths

(* The three ways a call of process_http() ends or goes on.                 *)
LEMMA AdvanceInv ==
  ASSUME TypeOK, PointerInv, busy, NEW h, InOrder(h), Advance(h)
  PROVE  TypeOK' /\ PointerInv'
<1>1. TypeOK'
  BY DEF TypeOK, Advance, InOrder, HttpType
<1>2. PointerInv'
  BY DEF TypeOK, Advance, InOrder, PointerInv, HttpType, PointersFresh, RoomToRead
<1> QED
  BY <1>1, <1>2

LEMMA PauseInv ==
  ASSUME TypeOK, PointerInv, busy, NEW h, InOrder(h), http' = h, busy' = FALSE,
         conn' \in {"open", "shut"}, UNCHANGED <<stream, got, size, base, handed>>
  PROVE  TypeOK' /\ PointerInv'
<1>1. TypeOK'
  BY DEF TypeOK, InOrder, HttpType
<1>2. PointerInv'
  BY DEF TypeOK, InOrder, PointerInv, HttpType, PointersFresh, RoomToRead
<1> QED
  BY <1>1, <1>2

LEMMA HandInv ==
  ASSUME TypeOK, PointerInv, busy, NEW h, InOrder(h), h.step > 0,
         NEW len \in BodyLengths, Hand(h, len)
  PROVE  TypeOK' /\ PointerInv'
<1>0. checkrecv(h) \in {"shutdown", "websocket", "notfound", "command"}
  BY DEF checkrecv
<1>1. TypeOK'
  <2>1. handed' \in Requests
    BY <1>0 DEF Hand, InOrder, HttpType, Requests
  <2> QED
    BY <2>1 DEF TypeOK, Hand, InOrder, HttpType
<1>2. PointersFresh'
  BY DEF Hand, InOrder, PointersFresh
<1>3. PointerInv'
  BY <1>2 DEF TypeOK, Hand, InOrder, PointerInv, HttpType, RoomToRead
<1> QED
  BY <1>1, <1>3

LEMMA FirstTyped ==
  ASSUME TypeOK, Unread
  PROVE  First \in Symbols /\ http.pos + 1 \in 1 .. got /\ got \in 0 .. Len(stream)
  BY DEF TypeOK, Unread, First

LEMMA PointerStep == TypeOK /\ PointerInv /\ [Next]_vars => TypeOK' /\ PointerInv'
<1> SUFFICES ASSUME TypeOK, PointerInv, [Next]_vars PROVE TypeOK' /\ PointerInv'
  OBVIOUS
<1>1. CASE UNCHANGED vars
  BY <1>1 DEF vars, TypeOK, PointerInv, RoomToRead, PointersFresh, Pointers
<1>2. ASSUME NEW k \in 1 .. Len(stream) - got, Read(k) PROVE TypeOK' /\ PointerInv'
  <2>1. got \in Nat /\ size \in Nat /\ got' = got + k /\ Len(stream) \in Nat
    BY <1>2 DEF Read, TypeOK
  <2>2. TypeOK'
    BY <1>2, <2>1 DEF Read, TypeOK, Full
  <2>3. RoomToRead'
    BY <1>2, <2>1 DEF Read, PointerInv, RoomToRead, Full
  <2> QED
    BY <1>2, <2>1, <2>2, <2>3 DEF Read, PointerInv, PointersFresh, TypeOK
<1>3. CASE RequestLine
  <2>1. CASE First.k \in {"GET", "GETQ", "POST"}
    <3> DEFINE h == [Here EXCEPT !.type = MethodOf(First), !.pos = NextLine, !.step = 1,
                                 !.uri = At(http.pos), !.addr = base,
                                 !.data = IF First.k = "GETQ" THEN At(http.pos) ELSE @]
    <3>1. busy /\ Advance(h)
      BY <1>3, <2>1 DEF RequestLine
    <3>2. NextLine \in 0 .. Len(stream) /\ NextLine <= got
      BY <1>3, NextLineFound DEF RequestLine, TypeOK
    <3>3. At(http.pos) \in Pointers /\ At(http.pos) # NULL /\ At(http.pos).base = base
      BY DEF TypeOK, At, Pointers
    <3>4. MethodOf(First) \in Types
      BY DEF MethodOf, Types
    <3>5. InOrder(h)
      <4>1. h \in HttpType
        BY <3>2, <3>3, <3>4, HereInOrder, Ranges DEF InOrder, HttpType
      <4> QED
        BY <3>2, <3>3, <4>1, HereInOrder DEF InOrder, HttpType
    <3> HIDE DEF h
    <3> QED
      BY <3>1, <3>5, AdvanceInv
  <2>2. CASE First.k \notin {"GET", "GETQ", "POST"}
    BY <1>3, <2>2, HereInOrder, PauseInv DEF RequestLine, Refuse
  <2> QED
    BY <2>1, <2>2
<1>4. CASE HeaderLine
  <2>1. busy
    BY <1>4 DEF HeaderLine
  <2>2. NextLine \in 0 .. Len(stream) /\ NextLine <= got
    BY <1>4, NextLineFound DEF HeaderLine, TypeOK
  <2>3. CASE Refuse
    BY <2>1, <2>3, HereInOrder, PauseInv DEF Refuse
  <2>4. CASE http.type = "POST" /\ First.k = "length" /\ ~BadLength(First.n)
    <3> DEFINE h == [Here EXCEPT !.clen = First.n, !.pos = NextLine]
    <3>1. Advance(h)
      BY <1>4, <2>4 DEF HeaderLine
    <3>2. First.n \in 1 .. MaxContent
      <4>1. First \in Symbols
        BY <1>4, FirstTyped DEF HeaderLine
      <4>2. First.n \in Nat
        BY <4>1 DEF Symbols, RequestLines, HeaderLines, LengthLines, LineEnd, Byte, Zero
      <4> QED
        BY <2>4, <4>2 DEF BadLength
    <3>3. InOrder(h)
      <4>1. First.n \in BodyLengths \ {0}
        BY <3>2 DEF BodyLengths
      <4> QED
        BY <2>2, <4>1, HereInOrder DEF InOrder, HttpType
    <3> HIDE DEF h
    <3> QED
      BY <2>1, <3>1, <3>3, AdvanceInv
  <2>5. CASE ~(http.type = "POST" /\ First.k = "length")
    <3> DEFINE h == [Here EXCEPT
                       !.hlines = @ \cup ({First.k} \cap HLines),
                       !.type = IF @ = "GET" /\ First.k = "key1" THEN "GET_WS" ELSE @,
                       !.pos = NextLine]
    <3>1. Advance(h)
      BY <1>4, <2>5 DEF HeaderLine
    <3>2. InOrder(h)
      BY <2>2, HereInOrder DEF InOrder, HttpType, Types, HLines
    <3> HIDE DEF h
    <3> QED
      BY <2>1, <3>1, <3>2, AdvanceInv
  <2> QED
    BY <1>4, <2>3, <2>4, <2>5 DEF HeaderLine
<1>5. CASE BlankLine
  <2>1. busy /\ Unread /\ http.step = 1 /\ First = LineEnd
    BY <1>5 DEF BlankLine
  <2>2. NextLine \in 0 .. Len(stream) /\ NextLine <= got
    <3>1. http.pos + 1 \in Ends
      BY <2>1, FirstTyped DEF Ends, First, TypeOK
    <3> QED
      BY <3>1, NextLineFound DEF TypeOK
  <2>3. At(NextLine) \in Pointers /\ At(NextLine) # NULL /\ At(NextLine).base = base
    BY <2>2 DEF TypeOK, At, Pointers
  <2>4. CASE Hand([Here EXCEPT !.pos = 0], 0)
    <3>0. 0 \in BodyLengths
      BY DEF BodyLengths
    <3>1. InOrder([Here EXCEPT !.pos = 0]) /\ [Here EXCEPT !.pos = 0].step > 0
      <4>1. [Here EXCEPT !.pos = 0] \in HttpType
        BY HereInOrder, Ranges DEF InOrder, HttpType
      <4>2. Here.step = 1 /\ 0 <= got
        BY <2>1, HereRebased, Ranges
      <4> QED
        BY <4>1, <4>2, HereInOrder DEF InOrder, HttpType
    <3> QED
      BY <2>1, <2>4, <3>0, <3>1, HandInv
  <2>5. CASE Refuse
    BY <2>1, <2>5, HereInOrder, PauseInv DEF Refuse
  <2>6. ASSUME NEW n \in {http.clen, KeyBytes},
               Advance([Here EXCEPT !.clen = n, !.data = At(NextLine), !.addr = base,
                                    !.pos = NextLine, !.step = 2])
        PROVE  TypeOK' /\ PointerInv'
    <3> DEFINE h == [Here EXCEPT !.clen = n, !.data = At(NextLine), !.addr = base,
                                 !.pos = NextLine, !.step = 2]
    <3>1. h \in HttpType
      BY <2>2, <2>3, HereInOrder, Ranges DEF InOrder, HttpType
    <3>2. InOrder(h)
      BY <2>1, <2>2, <2>3, <3>1, HereInOrder, HereRebased DEF InOrder, HttpType, PointerInv
    <3> HIDE DEF h
    <3> QED
      BY <2>1, <2>6, <3>2, AdvanceInv DEF h
  <2>7. CASE Advance([Here EXCEPT !.data = At(NextLine), !.addr = base,
                                  !.pos = NextLine, !.step = 2])
    <3> DEFINE h == [Here EXCEPT !.data = At(NextLine), !.addr = base,
                                 !.pos = NextLine, !.step = 2]
    <3>1. h \in HttpType
      BY <2>2, <2>3, HereInOrder, Ranges DEF InOrder, HttpType
    <3>2. InOrder(h)
      BY <2>1, <2>2, <2>3, <3>1, HereInOrder, HereRebased DEF InOrder, HttpType, PointerInv
    <3> HIDE DEF h
    <3> QED
      BY <2>1, <2>7, <3>2, AdvanceInv DEF h
  <2> QED
    BY <1>5, <2>4, <2>5, <2>6, <2>7 DEF BlankLine
<1>6. CASE Body
  <2> DEFINE h == [Here EXCEPT !.pos = got, !.read = @ + (got - http.pos)]
  <2>1. busy /\ Unread /\ http.step = 2
    BY <1>6 DEF Body
  <2>2. got \in Nat /\ http.pos \in Nat /\ http.pos < got /\ got \in 0 .. Len(stream)
    BY <2>1 DEF Unread, TypeOK
  <2>3. h \in HttpType
    <3>1. Here.read + (got - http.pos) \in Nat
      BY <2>2, HereInOrder DEF InOrder, HttpType
    <3> QED
      BY <2>2, <3>1, HereInOrder DEF InOrder, HttpType
  <2>4. InOrder(h) /\ h.step > 0
    BY <2>1, <2>2, <2>3, HereInOrder, HereRebased DEF InOrder, HttpType
  <2>5. h.clen \in BodyLengths
    BY <2>3 DEF HttpType
  <2>6. \/ Hand(h, BodyLength(h))
        \/ http' = h /\ busy' = FALSE /\ UNCHANGED <<stream, got, size, base, handed, conn>>
    BY <1>6 DEF Body
  <2> HIDE DEF h
  <2> QED
    BY <2>1, <2>4, <2>5, <2>6, HandInv, PauseInv DEF BodyLength, TypeOK
<1>7. CASE Waits
  <2>1. CASE http' = Here
    BY <1>7, <2>1, HereInOrder, PauseInv DEF Waits, TypeOK
  <2>2. CASE UNCHANGED http
    BY <1>7, <2>2 DEF Waits, TypeOK, PointerInv, RoomToRead, PointersFresh, Pointers
  <2> QED
    BY <1>7, <2>1, <2>2 DEF Waits
<1> QED
  BY <1>1, <1>2, <1>3, <1>4, <1>5, <1>6, <1>7 DEF Next

LEMMA PointerInvariance == Spec => [](TypeOK /\ PointerInv)
<1>1. Init => TypeOK /\ PointerInv
  <2> SUFFICES ASSUME Init PROVE TypeOK /\ PointerInv
    OBVIOUS
  <2>1. stream \in Seq(Symbols) /\ Len(stream) \in Nat
    BY StreamAssumption DEF Init
  <2>2. http \in HttpType
    BY <2>1 DEF Init, HttpType, Pointers, BodyLengths, Types, HLines
  <2>3. TypeOK
    BY <2>1, <2>2 DEF Init, TypeOK, HttpType
  <2> QED
    BY <2>3 DEF Init, PointerInv, RoomToRead, PointersFresh
<1> QED
  BY <1>1, PointerStep, PTL DEF Spec

(* The types of the parser's state, the buffer and what is handed over.     *)
THEOREM ParserTyped == Spec => []TypeOK
  BY PointerInvariance, PTL

(* There is room for the next read() and for the terminating byte in every *)
(* state: the buffer is doubled in the step that fills it.                  *)
THEOREM AlwaysRoom == Spec => []RoomToRead
  BY PointerInvariance, PTL DEF PointerInv

(* What is handed over never points into a buffer that realloc() has moved *)
(* away, at whichever of its calls process_http() found the pointers.       *)
THEOREM NoStalePointer == Spec => []PointersFresh
  BY PointerInvariance, PTL DEF PointerInv

-----------------------------------------------------------------------------
(* What the parser knows after the first n symbols of the stream.           *)
NoBlank(n)   == \A j \in 2 .. n : ~BlankEndsAt(stream, j)
IsPost       == stream[1].k = "POST"
LengthsTo(n) == {i \in 2 .. n : stream[i].k = "length"}
HLinesTo(n)  == {stream[i].k : i \in 2 .. n} \cap HLines
LastLength(n, len) ==
  \/ LengthsTo(n) = {} /\ len = -1
  \/ \E i \in LengthsTo(n) : len = stream[i].n /\ \A j \in LengthsTo(n) : j <= i
TypeTo(n) == IF IsPost THEN "POST" ELSE IF "key1" \in HLinesTo(n) THEN "GET_WS" ELSE "GET"
LengthsGood(n) == \A i \in LengthsTo(n) : ~BadLength(stream[i].n)

HeaderRead(h, n) ==
  /\ stream[1].k \in {"GET", "GETQ", "POST"}
  /\ h.hlines = HLinesTo(n)
  /\ h.type = TypeTo(n)
  /\ IsPost => LengthsGood(n)

Announced(n) == IsPost => LengthsTo(n) # {}

(* In the header: the lines up to pos have been taken, none of them blank. *)
InHeader(h) ==
  /\ h.pos >= 2 /\ h.pos <= got /\ h.read = 0
  /\ stream[h.pos] = LineEnd
  /\ NoBlank(h.pos)
  /\ HeaderRead(h, h.pos)
  /\ IsPost => LastLength(h.pos, h.clen)

(* In the body, which begins behind the blank line at b.                    *)
InBody(h, b) ==
  /\ b >= 2 /\ b <= h.pos /\ h.pos <= got
  /\ BlankEndsAt(stream, b) /\ NoBlank(b - 1)
  /\ HeaderRead(h, b)
  /\ h.type # "GET"
  /\ IF IsPost THEN LastLength(b, h.clen) ELSE h.clen = KeyBytes
  /\ h.data # NULL /\ h.data.off = b
  /\ h.read = h.pos - b

Correct ==
  /\ Valid
  /\ handed.hlines = Kinds \cap HLines
  /\ handed.len = Wanted
  /\ Wanted > 0 => handed.data.off = BlankAt

SplitInv ==
  /\ LineOriented(stream)
  /\ handed = NULL /\ http.step = 0 => http.pos = 0 /\ http.read = 0 /\ http.hlines = {} /\ http.clen = -1
  /\ handed = NULL /\ http.step = 1 => InHeader(http)
  /\ handed = NULL /\ http.step = 2 =>
       /\ InBody(http, http.data.off)
       /\ Announced(http.data.off) => http.read < http.clen
  /\ handed # NULL => ((IsPost => Lengths # {}) => Correct)
  /\ conn = "shut" => ~busy /\ (HasHeader => ~Valid)
  /\ ~busy /\ handed = NULL /\ conn = "open" =>
       http.pos = got \/ (http.step < 2 /\ Ends = {}) \/ StopsAtZero

(* What the stream asks for depends on the stream alone.                    *)
LEMMA StreamOnly ==
  ASSUME stream' = stream
  PROVE  /\ BlankAt' = BlankAt /\ HasHeader' = HasHeader
         /\ Lengths' = Lengths /\ Kinds' = Kinds
         /\ Wanted' = Wanted /\ Valid' = Valid /\ IsPost' = IsPost
<1>1. BlankAt' = BlankAt
  BY DEF BlankAt, BlankEndsAt
<1>2. HasHeader' = HasHeader /\ IsPost' = IsPost
  BY DEF HasHeader, BlankEndsAt, IsPost
<1>3. Lengths' = Lengths /\ Kinds' = Kinds
  BY <1>1 DEF Lengths, Kinds, Header
<1>4. Wanted' = Wanted /\ Valid' = Valid
  BY <1>3 DEF Wanted, Valid, BadLength
<1> QED
  BY <1>1, <1>2, <1>3, <1>4

LEMMA SymbolTyped ==
  ASSUME TypeOK, NEW i \in 1 .. Len(stream)
  PROVE  stream[i] \in Symbols /\ stream[i].n \in Nat /\ LineEnd.k = "nl"
<1>1. stream[i] \in Symbols
  BY DEF TypeOK
<1> QED
  BY <1>1 DEF Symbols, RequestLines, HeaderLines, LengthLines, LineEnd, Byte, Zero

(* The first blank line is where the header ends.                           *)
LEMMA BlankFound ==
  ASSUME TypeOK, NEW b \in 2 .. Len(stream), BlankEndsAt(stream, b), NoBlank(b - 1)
  PROVE  /\ HasHeader /\ BlankAt = b
         /\ Lengths = LengthsTo(b)
         /\ Kinds \cap HLines = HLinesTo(b)
<1> DEFINE B == {i \in 2 .. Len(stream) : BlankEndsAt(stream, i)}
<1>1. B \in SUBSET Nat /\ b \in B /\ Len(stream) \in Nat
  BY DEF TypeOK
<1>2. ASSUME NEW y \in B PROVE b <= y
  <2>1. ~(y <= b - 1)
    BY <1>1 DEF NoBlank
  <2> QED
    BY <1>1, <2>1
<1>3. HasHeader
  BY DEF HasHeader
<1>4. BlankAt = b
  <2> HIDE DEF B
  <2>1. Min(B) = b
    BY <1>1, <1>2, MinIsKnown
  <2> QED
    BY <2>1 DEF BlankAt, B
<1>5. Lengths = LengthsTo(b)
  BY <1>4 DEF Lengths, LengthsTo
<1>6. Kinds \cap HLines = HLinesTo(b)
  BY <1>4 DEF Kinds, Header, HLinesTo
<1> QED
  BY <1>3, <1>4, <1>5, <1>6

LEMMA BlankAhead ==
  ASSUME TypeOK, HasHeader, NEW n \in Nat, NoBlank(n)
  PROVE  /\ BlankAt \in 2 .. Len(stream) /\ BlankEndsAt(stream, BlankAt)
         /\ BlankAt > n
<1> DEFINE B == {i \in 2 .. Len(stream) : BlankEndsAt(stream, i)}
<1>1. B \in SUBSET Nat /\ B # {}
  BY DEF HasHeader
<1>2. BlankAt \in B
  <2> HIDE DEF B
  <2>1. Min(B) \in B
    BY <1>1, MinIsLeast
  <2> QED
    BY <2>1 DEF BlankAt, B
<1>3. ~(BlankAt <= n)
  BY <1>2 DEF NoBlank
<1> QED
  BY <1>2, <1>3 DEF TypeOK

(* A line more, and the blank line.                                         *)
LEMMA OneLineMore ==
  ASSUME TypeOK, NEW n \in Nat, n >= 2, n + 2 <= Len(stream), NoBlank(n),
         stream[n + 1] # LineEnd, stream[n + 2] = LineEnd
  PROVE  /\ NoBlank(n + 2)
         /\ HLinesTo(n + 2) = HLinesTo(n) \cup ({stream[n + 1].k} \cap HLines)
         /\ LengthsTo(n + 2) = LengthsTo(n) \cup {i \in {n + 1} : stream[i].k = "length"}
<1>1. \A j \in 2 .. n + 2 : j \in 2 .. n \/ j = n + 1 \/ j = n + 2
  OBVIOUS
<1>2. 2 .. n \subseteq 2 .. n + 2 /\ n + 1 \in 2 .. n + 2 /\ (n + 2) - 1 = n + 1
  OBVIOUS
<1>3. NoBlank(n + 2)
  BY <1>1, <1>2 DEF NoBlank, BlankEndsAt
<1>4. stream[n + 2].k = "nl" /\ "nl" \notin HLines /\ "nl" # "length"
  BY DEF LineEnd, HLines
<1>5. HLinesTo(n + 2) = HLinesTo(n) \cup ({stream[n + 1].k} \cap HLines)
  BY <1>1, <1>2, <1>4 DEF HLinesTo
<1>6. LengthsTo(n + 2) = LengthsTo(n) \cup {i \in {n + 1} : stream[i].k = "length"}
  BY <1>1, <1>2, <1>4 DEF LengthsTo
<1> QED
  BY <1>3, <1>5, <1>6

LEMMA BlankMore ==
  ASSUME TypeOK, NEW n \in Nat, n >= 2, stream[n + 1] = LineEnd
  PROVE  HLinesTo(n + 1) = HLinesTo(n) /\ LengthsTo(n + 1) = LengthsTo(n)
<1>1. \A j \in 2 .. n + 1 : j \in 2 .. n \/ j = n + 1
  OBVIOUS
<1>2. 2 .. n \subseteq 2 .. n + 1
  OBVIOUS
<1>3. stream[n + 1].k = "nl" /\ "nl" \notin HLines /\ "nl" # "length"
  BY DEF LineEnd, HLines
<1> QED
  BY <1>1, <1>2, <1>3 DEF HLinesTo, LengthsTo

(* After the last line of the header, what was read is what is wanted.      *)
LEMMA WantedRead ==
  ASSUME TypeOK, NEW b \in 2 .. Len(stream), BlankEndsAt(stream, b), NoBlank(b - 1),
         NEW h, HeaderRead(h, b), Announced(b),
         h.type # "GET" => (IF IsPost THEN LastLength(b, h.clen) ELSE h.clen = KeyBytes)
  PROVE  /\ Valid /\ BlankAt = b /\ h.hlines = Kinds \cap HLines
         /\ IF h.type = "GET" THEN Wanted = 0 ELSE Wanted = h.clen /\ Wanted \in Nat \ {0}
<1>1. BlankAt = b /\ Lengths = LengthsTo(b) /\ Kinds \cap HLines = HLinesTo(b)
  BY BlankFound
<1>2. Valid
  BY <1>1 DEF Valid, HeaderRead, LengthsGood, IsPost
<1>3. CASE IsPost
  <2>1. PICK i \in LengthsTo(b) : h.clen = stream[i].n /\ \A j \in LengthsTo(b) : j <= i
    BY <1>3 DEF LastLength, Announced, HeaderRead, TypeTo
  <2>2. LengthsTo(b) \in SUBSET Nat /\ i \in 1 .. Len(stream)
    BY DEF LengthsTo, TypeOK
  <2>3. Max(Lengths) = i
    BY <1>1, <2>1, <2>2, MaxIsGreatest
  <2>4. Wanted = h.clen
    BY <1>3, <2>1, <2>3 DEF Wanted, IsPost
  <2>5. h.clen \in Nat \ {0}
    BY <1>3, <2>1, <2>2, SymbolTyped DEF HeaderRead, LengthsGood, BadLength
  <2>6. h.type # "GET"
    BY <1>3 DEF HeaderRead, TypeTo
  <2> QED
    BY <1>1, <1>2, <2>4, <2>5, <2>6 DEF HeaderRead
<1>4. CASE ~IsPost
  <2>1. "key1" \in Kinds <=> "key1" \in HLinesTo(b)
    BY <1>1 DEF HLines
  <2>2. Wanted = IF "key1" \in Kinds THEN KeyBytes ELSE 0
    BY <1>4 DEF Wanted, IsPost
  <2>3. h.type = IF "key1" \in Kinds THEN "GET_WS" ELSE "GET"
    BY <1>4, <2>1 DEF HeaderRead, TypeTo
  <2> QED
    BY <1>1, <1>2, <1>4, <2>2, <2>3 DEF HeaderRead
<1> QED
  BY <1>3, <1>4

(* The two phases carry over to a step that keeps the stream and the       *)
(* parser state h, while more may be read.                                  *)
LEMMA PhaseFrame ==
  ASSUME NEW h, http' = h, stream' = stream, got \in Nat, got' \in Nat, got <= got',
         h.pos \in Nat
  PROVE  /\ InHeader(h) => InHeader(http)'
         /\ InBody(h, h.data.off) => InBody(http, http.data.off)'
         /\ Announced(h.data.off)' <=> Announced(h.data.off)
<1>1. \A n : /\ NoBlank(n)' <=> NoBlank(n)
             /\ LengthsTo(n)' = LengthsTo(n)
             /\ HLinesTo(n)' = HLinesTo(n)
             /\ BlankEndsAt(stream, n)' <=> BlankEndsAt(stream, n)
  BY DEF NoBlank, LengthsTo, HLinesTo, BlankEndsAt
<1>2. IsPost' = IsPost
  BY DEF IsPost
<1>3. \A n : TypeTo(n)' = TypeTo(n) /\ LengthsGood(n)' = LengthsGood(n)
  BY <1>1, <1>2 DEF TypeTo, LengthsGood, BadLength
<1>4. \A n, l : LastLength(n, l)' <=> LastLength(n, l)
  BY <1>1 DEF LastLength
<1>5. \A n : HeaderRead(h, n) => HeaderRead(http, n)'
  BY <1>1, <1>2, <1>3 DEF HeaderRead
<1>6. InHeader(h) => InHeader(http)'
  BY <1>1, <1>2, <1>4, <1>5 DEF InHeader
<1>7. InBody(h, h.data.off) => InBody(http, http.data.off)'
  BY <1>1, <1>2, <1>4, <1>5 DEF InBody
<1>8. Announced(h.data.off)' <=> Announced(h.data.off)
  BY <1>1, <1>2 DEF Announced
<1> QED
  BY <1>6, <1>7, <1>8

(* Following the buffer changes nothing of what was read.                   *)
LEMMA HereSame ==
  ASSUME TypeOK, PointerInv
  PROVE  /\ InHeader(http) => InHeader(Here)
         /\ InBody(http, http.data.off) => InBody(Here, Here.data.off)
         /\ InBody(http, http.data.off) => Here.data.off = http.data.off
  BY HereRebased DEF InHeader, InBody, HeaderRead

(* While process_http() runs, nothing was handed over and the connection   *)
(* is open.                                                                 *)
LEMMA BusyOpen ==
  ASSUME TypeOK, PointerInv, SplitInv, busy
  PROVE  handed = NULL /\ conn = "open"
  BY DEF TypeOK, PointerInv, SplitInv

(* What a step that hands nothing over has to show.                         *)
LEMMA GoesOn ==
  ASSUME TypeOK, PointerInv, SplitInv, NEW h, http' = h, h.pos \in Nat,
         UNCHANGED <<stream, handed>>, handed = NULL, got' \in Nat, got <= got',
         h.step = 0 => h.pos = 0 /\ h.read = 0 /\ h.hlines = {} /\ h.clen = -1,
         h.step = 1 => InHeader(h),
         h.step = 2 => /\ InBody(h, h.data.off)
                       /\ Announced(h.data.off) => h.read < h.clen,
         conn' = "shut" => ~busy' /\ (HasHeader => ~Valid),
         ~busy' /\ conn' = "open" =>
           h.pos = got' \/ (h.step < 2 /\ Ends' = {}) \/ StopsAtZero'
  PROVE  SplitInv'
<1>1. got \in Nat
  BY DEF TypeOK
<1>2. LineOriented(stream)'
  BY DEF SplitInv, LineOriented, BlankEndsAt
<1>3. HasHeader' = HasHeader /\ Valid' = Valid
  BY StreamOnly
<1>4. h.step = 1 => InHeader(http)'
  BY <1>1, PhaseFrame
<1>5. h.step = 2 => /\ InBody(http, http.data.off)'
                    /\ Announced(http.data.off)' => h.read < h.clen
  BY <1>1, PhaseFrame
<1> QED
  BY <1>2, <1>3, <1>4, <1>5 DEF SplitInv

(* A refusal, or a wait, leaves the parser where it was.                    *)
LEMMA Stays ==
  ASSUME TypeOK, PointerInv, SplitInv, busy, http' \in {http, Here}, busy' = FALSE,
         UNCHANGED <<stream, got, size, base, handed>>,
         \/ conn' = "shut" /\ (HasHeader => ~Valid)
         \/ conn' = conn /\ (http.pos = got \/ (http.step < 2 /\ Ends = {}) \/ StopsAtZero)
  PROVE  SplitInv'
<1>1. handed = NULL /\ conn = "open" /\ got \in Nat /\ http.pos \in Nat
  BY BusyOpen DEF TypeOK
<1>2. /\ http'.pos = http.pos /\ http'.step = http.step /\ http'.read = http.read
      /\ http'.hlines = http.hlines /\ http'.clen = http.clen
  BY HereRebased
<1>3. Ends' = Ends /\ StopsAtZero' = StopsAtZero
  BY <1>2 DEF Ends, StopsAtZero, First
<1>4. http.step = 1 => InHeader(http')
  BY <1>1, HereSame DEF SplitInv
<1>5. http.step = 2 => InBody(http', http'.data.off) /\ http'.data.off = http.data.off
  BY <1>1, HereSame DEF SplitInv
<1>6. PICK h : h = http'
  OBVIOUS
<1> QED
  BY <1>1, <1>2, <1>3, <1>4, <1>5, <1>6, GoesOn DEF SplitInv

(* What a call of onready() has to show.                                    *)
LEMMA HandsOver ==
  ASSUME TypeOK, PointerInv, SplitInv, busy, NEW h, h \in HttpType, NEW len \in BodyLengths, Hand(h, len),
         NEW b \in 2 .. Len(stream), BlankEndsAt(stream, b), NoBlank(b - 1),
         HeaderRead(h, b), h.type # "GET" => InBody(h, b),
         len = IF h.type = "GET" THEN 0 ELSE h.clen
  PROVE  SplitInv'
<1>1. handed' # NULL /\ handed' = [type |-> h.type, hlines |-> h.hlines, uri |-> h.uri,
                                   data |-> h.data, len |-> len, answer |-> checkrecv(h)]
  <2>1. checkrecv(h) \in {"shutdown", "websocket", "notfound", "command"}
    BY DEF checkrecv
  <2>2. handed' \in Requests
    BY <2>1 DEF Hand, HttpType, Requests
  <2> QED
    BY <2>2 DEF Hand
<1>2. conn = "open" /\ stream' = stream /\ conn' = conn /\ busy' = FALSE
  BY BusyOpen DEF Hand
<1>3. LineOriented(stream)'
  BY <1>2 DEF SplitInv, LineOriented, BlankEndsAt
<1>4. Lengths = LengthsTo(b)
  BY BlankFound
<1>5. ASSUME IsPost => Lengths # {} PROVE Correct'
  <2>1. Announced(b)
    BY <1>4, <1>5 DEF Announced
  <2>2. /\ Valid /\ BlankAt = b /\ h.hlines = Kinds \cap HLines
        /\ IF h.type = "GET" THEN Wanted = 0 ELSE Wanted = h.clen /\ Wanted \in Nat \ {0}
    BY <2>1, WantedRead DEF InBody
  <2>3. Wanted > 0 => h.data.off = b
    BY <2>2 DEF InBody
  <2> QED
    BY <1>1, <1>2, <2>2, <2>3, StreamOnly DEF Correct
<1> QED
  BY <1>1, <1>2, <1>3, <1>5, StreamOnly DEF SplitInv

LEMMA SplitStep == TypeOK /\ PointerInv /\ SplitInv /\ [Next]_vars => SplitInv'
<1> SUFFICES ASSUME TypeOK, PointerInv, SplitInv, [Next]_vars PROVE SplitInv'
  OBVIOUS
<1>0. got \in Nat /\ http.pos \in Nat /\ Len(stream) \in Nat /\ got <= Len(stream)
  BY DEF TypeOK
<1>1. CASE UNCHANGED vars
  <2>1. CASE handed = NULL
    <3>1. Ends' = Ends /\ StopsAtZero' = StopsAtZero
      BY <1>1 DEF vars, Ends, StopsAtZero, First
    <3>2. PICK h : h = http'
      OBVIOUS
    <3> QED
      BY <1>0, <1>1, <2>1, <3>1, <3>2, GoesOn DEF vars, SplitInv
  <2>2. CASE handed # NULL
    <3>1. LineOriented(stream)'
      BY <1>1 DEF vars, SplitInv, LineOriented, BlankEndsAt
    <3> QED
      BY <1>1, <2>2, <3>1, StreamOnly DEF vars, SplitInv, Correct
  <2> QED
    BY <2>1, <2>2
<1>2. ASSUME NEW k \in 1 .. Len(stream) - got, Read(k) PROVE SplitInv'
  <2>1. got' \in Nat /\ got <= got' /\ handed = NULL /\ conn' = "open" /\ busy' = TRUE
    BY <1>0, <1>2 DEF Read
  <2>2. PICK h : h = http'
    OBVIOUS
  <2> QED
    BY <1>0, <1>2, <2>1, <2>2, GoesOn DEF Read, SplitInv
<1>3. CASE RequestLine
  <2>1. busy /\ Unread /\ http.step = 0 /\ Ends # {} /\ http.pos = 0 /\ handed = NULL
    BY <1>3, BusyOpen DEF RequestLine, SplitInv
  <2>2. http.read = 0 /\ http.hlines = {} /\ http.clen = -1
    BY <2>1 DEF SplitInv
  <2>3. /\ First = stream[1]
        /\ First # LineEnd => stream[2] = LineEnd /\ NextLine = 2
    <3>1. First = stream[1]
      BY <2>1 DEF First
    <3>2. ASSUME First # LineEnd PROVE stream[2] = LineEnd /\ NextLine = 2
      <4>1. NextLine \in 1 .. got /\ stream[NextLine] = LineEnd
            /\ \A j \in 1 .. NextLine - 1 : stream[j] # LineEnd
        BY <2>1, NextLineFound
      <4>2. 1 \in 1 .. Len(stream) - 1 /\ NextLine >= 2
        BY <1>0, <3>1, <3>2, <4>1
      <4>3. stream[2] = LineEnd
        BY <3>1, <3>2, <4>2 DEF SplitInv, LineOriented
      <4> QED
        BY <1>0, <4>1, <4>2, <4>3
    <3> QED
      BY <3>1, <3>2
  <2>4. CASE First.k \in {"GET", "GETQ", "POST"}
    <3> DEFINE h == [Here EXCEPT !.type = MethodOf(First), !.pos = NextLine, !.step = 1,
                                 !.uri = At(http.pos), !.addr = base,
                                 !.data = IF First.k = "GETQ" THEN At(http.pos) ELSE @]
    <3>1. Advance(h)
      BY <1>3, <2>4 DEF RequestLine
    <3>2. First # LineEnd
      BY <2>4 DEF LineEnd
    <3>3. stream[1] = First /\ stream[2] = LineEnd /\ NextLine = 2 /\ 2 <= got
      BY <2>1, <2>3, <3>2, NextLineFound
    <3>4. /\ h.pos = 2 /\ h.step = 1 /\ h.type = MethodOf(First)
          /\ h.read = 0 /\ h.hlines = {} /\ h.clen = -1
      BY <2>2, <3>3, HereRebased
    <3>5. \A j \in 2 .. 2 : j = 2
      OBVIOUS
    <3>6. stream[2].k = "nl" /\ "nl" \notin HLines
      BY <3>3 DEF LineEnd, HLines
    <3>7. NoBlank(2) /\ LengthsTo(2) = {} /\ HLinesTo(2) = {}
      BY <3>2, <3>3, <3>5, <3>6 DEF NoBlank, BlankEndsAt, LengthsTo, HLinesTo
    <3>8. HeaderRead(h, 2)
      BY <2>4, <3>3, <3>4, <3>7 DEF HeaderRead, MethodOf, TypeTo, IsPost, LengthsGood
    <3> HIDE DEF h
    <3>9. InHeader(h)
      BY <3>3, <3>4, <3>7, <3>8 DEF InHeader, LastLength
    <3> QED
      BY <1>0, <2>1, <3>1, <3>4, <3>9, GoesOn, BusyOpen DEF Advance
  <2>5. CASE First.k \notin {"GET", "GETQ", "POST"}
    <3>1. ~Valid
      BY <2>3, <2>5 DEF Valid
    <3> QED
      BY <1>3, <2>1, <2>5, <3>1, Stays DEF RequestLine, Refuse
  <2> QED
    BY <2>4, <2>5
<1>4. CASE HeaderLine
  <2>1. /\ busy /\ Unread /\ http.step = 1 /\ Ends # {} /\ First # LineEnd
        /\ handed = NULL /\ conn = "open"
    BY <1>4, BusyOpen DEF HeaderLine
  <2> DEFINE n == http.pos
  <2>2. InHeader(http) /\ n \in Nat /\ n >= 2 /\ First = stream[n + 1]
    BY <1>0, <2>1 DEF SplitInv, First, InHeader
  <2>3. stream[n + 2] = LineEnd /\ NextLine = n + 2 /\ n + 2 <= got
    <3>1. /\ NextLine \in n + 1 .. got /\ stream[NextLine] = LineEnd
          /\ \A j \in n + 1 .. NextLine - 1 : stream[j] # LineEnd
      BY <2>1, NextLineFound
    <3>2. NextLine >= n + 2 /\ n + 1 \in 1 .. Len(stream) - 1
      BY <1>0, <2>1, <2>2, <3>1
    <3>3. \A j \in 2 .. n + 1 : j \in 2 .. n \/ j = n + 1
      BY <2>2
    <3>4. \A j \in 2 .. n + 1 : ~BlankEndsAt(stream, j)
      BY <2>1, <2>2, <3>3 DEF InHeader, NoBlank, BlankEndsAt
    <3>5. stream[(n + 1) + 1] = LineEnd
      BY <2>1, <2>2, <3>2, <3>4 DEF SplitInv, LineOriented
    <3>6. (n + 1) + 1 = n + 2
      BY <1>0
    <3> QED
      BY <1>0, <3>1, <3>2, <3>5, <3>6
  <2>4. /\ NoBlank(n + 2)
        /\ HLinesTo(n + 2) = HLinesTo(n) \cup ({First.k} \cap HLines)
        /\ LengthsTo(n + 2) = LengthsTo(n) \cup {i \in {n + 1} : stream[i].k = "length"}
    BY <1>0, <2>1, <2>2, <2>3, OneLineMore DEF InHeader
  <2>5. /\ http.hlines = HLinesTo(n) /\ http.type = TypeTo(n) /\ http.read = 0
        /\ stream[1].k \in {"GET", "GETQ", "POST"}
        /\ IsPost => LengthsGood(n) /\ LastLength(n, http.clen)
    BY <2>2 DEF InHeader, HeaderRead
  <2>6. \A i \in LengthsTo(n) : i \in Nat /\ i <= n
    BY <2>2 DEF LengthsTo
  <2>7. http.type = "POST" <=> IsPost
    BY <2>5 DEF TypeTo
  <2>8. CASE http.type = "POST" /\ First.k = "length"
    <3>1. CASE BadLength(First.n)
      <4>1. ASSUME HasHeader, Valid PROVE FALSE
        <5>1. BlankAt \in Nat /\ BlankAt > n + 2
          BY <2>2, <2>4, <4>1, BlankAhead
        <5>2. n + 1 \in Lengths
          BY <2>2, <2>8, <5>1 DEF Lengths
        <5> QED
          BY <2>2, <2>7, <2>8, <3>1, <4>1, <5>2 DEF Valid, IsPost
      <4> QED
        BY <1>4, <2>1, <2>8, <3>1, <4>1, Stays DEF HeaderLine, Refuse
    <3>2. CASE ~BadLength(First.n)
      <4> DEFINE h == [Here EXCEPT !.clen = First.n, !.pos = NextLine]
      <4>1. Advance(h)
        BY <1>4, <2>8, <3>2 DEF HeaderLine
      <4>2. /\ h.pos = n + 2 /\ h.step = 1 /\ h.type = http.type /\ h.read = 0
            /\ h.hlines = http.hlines /\ h.clen = First.n
        BY <2>1, <2>3, <2>5, HereRebased
      <4> HIDE DEF h
      <4>3. HLinesTo(n + 2) = HLinesTo(n)
        BY <2>4, <2>8 DEF HLines
      <4>4. LengthsTo(n + 2) = LengthsTo(n) \cup {n + 1}
        BY <2>2, <2>4, <2>8
      <4>5. HeaderRead(h, n + 2)
        BY <2>2, <2>5, <2>7, <2>8, <3>2, <4>2, <4>3, <4>4 DEF HeaderRead, TypeTo, LengthsGood
      <4>6. LastLength(n + 2, h.clen)
        BY <2>2, <2>6, <4>2, <4>4 DEF LastLength
      <4>7. InHeader(h)
        BY <2>2, <2>3, <2>4, <4>2, <4>5, <4>6 DEF InHeader
      <4> QED
        BY <1>0, <2>1, <2>2, <4>1, <4>2, <4>7, GoesOn DEF Advance
    <3> QED
      BY <3>1, <3>2
  <2>9. CASE ~(http.type = "POST" /\ First.k = "length")
    <3> DEFINE h == [Here EXCEPT
                       !.hlines = @ \cup ({First.k} \cap HLines),
                       !.type = IF @ = "GET" /\ First.k = "key1" THEN "GET_WS" ELSE @,
                       !.pos = NextLine]
    <3>1. Advance(h)
      BY <1>4, <2>9 DEF HeaderLine
    <3>2. /\ h.pos = n + 2 /\ h.step = 1 /\ h.read = 0 /\ h.clen = http.clen
          /\ h.type = (IF http.type = "GET" /\ First.k = "key1" THEN "GET_WS" ELSE http.type)
          /\ h.hlines = http.hlines \cup ({First.k} \cap HLines)
      BY <2>1, <2>3, <2>5, HereRebased
    <3> HIDE DEF h
    <3>3. IsPost => LengthsTo(n + 2) = LengthsTo(n)
      BY <2>2, <2>4, <2>7, <2>9
    <3>4. h.type = TypeTo(n + 2)
      BY <2>4, <2>5, <3>2 DEF TypeTo, HLines
    <3>5. HeaderRead(h, n + 2)
      BY <2>4, <2>5, <3>2, <3>3, <3>4 DEF HeaderRead, LengthsGood
    <3>6. IsPost => LastLength(n + 2, h.clen)
      BY <2>5, <3>2, <3>3 DEF LastLength
    <3>7. InHeader(h)
      BY <2>2, <2>3, <2>4, <3>2, <3>5, <3>6 DEF InHeader
    <3> QED
      BY <1>0, <2>1, <2>2, <3>1, <3>2, <3>7, GoesOn DEF Advance
  <2> QED
    BY <2>8, <2>9
<1>5. CASE BlankLine
  <2>1. /\ busy /\ Unread /\ http.step = 1 /\ First = LineEnd
        /\ handed = NULL /\ conn = "open"
    BY <1>5, BusyOpen DEF BlankLine
  <2> DEFINE n == http.pos
             b == http.pos + 1
  <2>2. InHeader(http) /\ n \in Nat /\ n >= 2 /\ stream[b] = LineEnd
    BY <1>0, <2>1 DEF SplitInv, First, InHeader
  <2>3. b \in 2 .. Len(stream) /\ b <= got /\ b - 1 = n
    BY <1>0, <2>1, <2>2 DEF Unread
  <2>4. BlankEndsAt(stream, b) /\ NoBlank(b - 1)
    BY <2>2, <2>3 DEF InHeader, BlankEndsAt
  <2>5. HLinesTo(b) = HLinesTo(n) /\ LengthsTo(b) = LengthsTo(n)
    BY <2>2, BlankMore
  <2>6. NextLine = b
    <3>1. b \in Ends
      BY <1>0, <2>2, <2>3 DEF Ends
    <3>2. \A i \in Ends : b <= i
      BY <1>0 DEF Ends
    <3>3. Ends \in SUBSET Nat
      BY <1>0 DEF Ends
    <3> QED
      BY <3>1, <3>2, <3>3, MinIsKnown DEF NextLine
  <2>7. HeaderRead(http, b) /\ (IsPost => LastLength(b, http.clen)) /\ http.read = 0
    BY <2>2, <2>5 DEF InHeader, HeaderRead, TypeTo, LengthsGood, LastLength
  <2>8. CASE http.type = "GET"
    <3> DEFINE h == [Here EXCEPT !.pos = 0]
    <3>1. Hand(h, 0)
      BY <1>5, <2>8 DEF BlankLine
    <3>2. h.type = "GET" /\ h.hlines = http.hlines /\ h \in HttpType
      BY <2>8, HereRebased, HereInOrder, Ranges DEF InOrder, HttpType
    <3> HIDE DEF h
    <3>3. HeaderRead(h, b)
      BY <2>7, <2>8, <3>2 DEF HeaderRead
    <3>4. 0 \in BodyLengths
      BY DEF BodyLengths
    <3> HIDE DEF b
    <3> QED
      BY <2>1, <2>3, <2>4, <3>1, <3>2, <3>3, <3>4, HandsOver
  <2>9. ASSUME http.type # "GET", NEW len \in BodyLengths \ {0},
               IF IsPost THEN len = http.clen ELSE len = KeyBytes,
               NEW h \in HttpType, Advance(h),
               /\ h.clen = len /\ h.data = At(NextLine) /\ h.pos = NextLine /\ h.step = 2
               /\ h.type = http.type /\ h.hlines = http.hlines /\ h.read = http.read
        PROVE  SplitInv'
    <3>1. HeaderRead(h, b)
      BY <2>7, <2>9 DEF HeaderRead
    <3>2. At(NextLine) # NULL /\ At(NextLine).off = b
      BY <1>0, <2>6 DEF TypeOK, At
    <3>3. h.data # NULL /\ h.data.off = b /\ h.pos = b /\ h.read = 0
      BY <2>6, <2>7, <2>9, <3>2
    <3>4. InBody(h, b)
      BY <2>3, <2>4, <2>7, <2>9, <3>1, <3>3 DEF InBody
    <3>5. ASSUME Announced(b) PROVE h.read < h.clen
      <4>1. h.clen \in Nat \ {0}
        BY <2>3, <2>4, <3>1, <3>4, <3>5, <2>9, WantedRead DEF InBody
      <4> QED
        BY <3>3, <4>1
    <3> QED
      BY <1>0, <2>1, <2>9, <3>3, <3>4, <3>5, GoesOn DEF Advance
  <2>10. CASE http.type = "GET_WS"
    <3> DEFINE h == [Here EXCEPT !.clen = KeyBytes, !.data = At(NextLine), !.addr = base,
                                 !.pos = NextLine, !.step = 2]
    <3>1. Advance(h)
      BY <1>5, <2>10 DEF BlankLine
    <3>2. At(NextLine) \in Pointers /\ NextLine \in 0 .. Len(stream)
      BY <1>0, <2>3, <2>6 DEF TypeOK, At, Pointers
    <3>3. h \in HttpType
      BY <3>2, HereInOrder, Ranges DEF InOrder, HttpType
    <3>4. /\ h.clen = KeyBytes /\ h.data = At(NextLine) /\ h.pos = NextLine /\ h.step = 2
          /\ h.type = http.type /\ h.hlines = http.hlines /\ h.read = http.read
      BY HereRebased
    <3>5. ~IsPost
      BY <2>7, <2>10 DEF HeaderRead, TypeTo
    <3> HIDE DEF h
    <3> QED
      BY <2>9, <2>10, <3>1, <3>3, <3>4, <3>5, Ranges
  <2>11. CASE http.type = "POST"
    <3> DEFINE h == [Here EXCEPT !.data = At(NextLine), !.addr = base,
                                 !.pos = NextLine, !.step = 2]
    <3>0. http.clen # 0
      BY Ranges
    <3>1. Advance(h)
      BY <1>5, <2>11, <3>0 DEF BlankLine
    <3>2. At(NextLine) \in Pointers /\ NextLine \in 0 .. Len(stream)
      BY <1>0, <2>3, <2>6 DEF TypeOK, At, Pointers
    <3>3. h \in HttpType
      BY <3>2, HereInOrder, Ranges DEF InOrder, HttpType
    <3>4. /\ h.clen = http.clen /\ h.data = At(NextLine) /\ h.pos = NextLine /\ h.step = 2
          /\ h.type = http.type /\ h.hlines = http.hlines /\ h.read = http.read
      BY HereRebased
    <3>5. IsPost
      BY <2>7, <2>11 DEF HeaderRead, TypeTo
    <3> HIDE DEF h
    <3> QED
      BY <2>9, <2>11, <3>1, <3>3, <3>4, <3>5, Ranges
  <2> QED
    BY <1>5, <2>8, <2>10, <2>11 DEF BlankLine
<1>6. CASE Body
  <2> DEFINE h == [Here EXCEPT !.pos = got, !.read = @ + (got - http.pos)]
             b == http.data.off
  <2>1. busy /\ Unread /\ http.step = 2 /\ handed = NULL /\ conn = "open"
    BY <1>6, BusyOpen DEF Body
  <2>2. InBody(http, b) /\ InBody(Here, Here.data.off) /\ Here.data.off = b
    BY <2>1, HereSame DEF SplitInv
  <2>3. /\ h.pos = got /\ h.read = http.read + (got - http.pos) /\ h.clen = http.clen
        /\ h.data = Here.data /\ h.type = http.type /\ h.hlines = http.hlines /\ h.step = 2
    BY <2>1, HereRebased
  <2>4. h \in HttpType
    <3>1. Here.read + (got - http.pos) \in Nat
      BY <1>0, <2>1, HereInOrder DEF InOrder, HttpType, Unread
    <3> QED
      BY <3>1, HereInOrder, Ranges DEF InOrder, HttpType
  <2>5. \/ Complete(h) /\ Hand(h, BodyLength(h))
        \/ ~Complete(h) /\ http' = h /\ busy' = FALSE
           /\ UNCHANGED <<stream, got, size, base, handed, conn>>
    BY <1>6 DEF Body
  <2> HIDE DEF h
  <2>6. b \in Nat /\ b \in 2 .. Len(stream)
    <3>1. b \in Nat
      BY <2>2 DEF TypeOK, Pointers, InBody
    <3> QED
      BY <1>0, <2>2, <3>1 DEF InBody
  <2>7. BlankEndsAt(stream, b) /\ NoBlank(b - 1) /\ HeaderRead(h, b)
    BY <2>2, <2>3 DEF InBody, HeaderRead
  <2>8. InBody(h, b)
    BY <1>0, <2>2, <2>3, <2>6, <2>7 DEF InBody
  <2>9. CASE Complete(h)
    <3>1. h.clen \in BodyLengths /\ h.type # "GET"
      BY <2>4, <2>8 DEF HttpType, InBody
    <3> HIDE DEF b
    <3> QED
      BY <2>1, <2>4, <2>5, <2>6, <2>7, <2>8, <2>9, <3>1, HandsOver DEF BodyLength
  <2>10. CASE ~Complete(h)
    <3>1. h.data.off = b /\ h.read \in Nat
      BY <2>2, <2>3, <2>4 DEF HttpType
    <3>2. h.clen \in Int
      BY <2>4 DEF HttpType, BodyLengths
    <3>3. h.read < h.clen
      BY <2>10, <3>1, <3>2 DEF Complete
    <3> QED
      BY <1>0, <2>1, <2>3, <2>5, <2>8, <2>10, <3>1, <3>3, GoesOn
  <2> QED
    BY <2>9, <2>10
<1>7. CASE Waits
  <2>1. http.pos = got \/ (http.step < 2 /\ Ends = {}) \/ StopsAtZero
    BY <1>0, <1>7 DEF Waits, Unread, PointerInv
  <2>2. busy /\ busy' = FALSE /\ UNCHANGED <<stream, got, size, base, handed, conn>>
        /\ http' \in {http, Here}
    BY <1>7 DEF Waits
  <2> QED
    BY <2>1, <2>2, Stays
<1> QED
  BY <1>1, <1>2, <1>3, <1>4, <1>5, <1>6, <1>7 DEF Next

LEMMA SplitSafe ==
  ASSUME TypeOK, PointerInv, SplitInv
  PROVE  SplitIndependent
<1> SUFFICES ASSUME IsPost => Lengths # {}
             PROVE  /\ handed # NULL => Correct
                    /\ got = Len(stream) /\ ~busy /\ HasHeader =>
                         \/ conn = "shut" /\ ~Valid
                         \/ handed # NULL
                         \/ Len(stream) - BlankAt < Wanted
                         \/ StopsAtZero
  BY DEF SplitIndependent, IsPost, Correct
<1>1. handed # NULL => Correct
  BY DEF SplitInv
<1>2. ASSUME got = Len(stream), ~busy, HasHeader, conn = "open", handed = NULL,
             ~StopsAtZero
      PROVE  Len(stream) - BlankAt < Wanted
  <2>1. http.pos = got \/ (http.step < 2 /\ Ends = {})
    BY <1>2 DEF SplitInv
  <2>2. Len(stream) \in Nat /\ http.pos \in Nat /\ http.step \in 0 .. 2
    BY DEF TypeOK
  <2>3. ASSUME http.step < 2 PROVE FALSE
    <3>1. NoBlank(http.pos)
      <4>1. CASE http.step = 0
        BY <1>2, <4>1 DEF SplitInv, NoBlank
      <4>2. CASE http.step = 1
        BY <1>2, <4>2 DEF SplitInv, InHeader
      <4> QED
        BY <2>2, <2>3, <4>1, <4>2
    <3>2. BlankAt \in http.pos + 1 .. got /\ stream[BlankAt] = LineEnd
      BY <1>2, <2>2, <3>1, BlankAhead DEF BlankEndsAt
    <3> QED
      BY <2>1, <2>2, <3>2 DEF Ends
  <2>4. http.step = 2 /\ http.pos = got
    BY <2>1, <2>2, <2>3
  <2> DEFINE b == http.data.off
  <2>5. InBody(http, b) /\ (Announced(b) => http.read < http.clen)
    BY <1>2, <2>4 DEF SplitInv
  <2>6. b \in 2 .. Len(stream)
    <3>1. b \in Nat
      BY <2>5 DEF TypeOK, Pointers, InBody
    <3> QED
      BY <1>2, <2>2, <2>5, <3>1 DEF InBody
  <2> HIDE DEF b
  <2>7. BlankEndsAt(stream, b) /\ NoBlank(b - 1) /\ HeaderRead(http, b) /\ http.type # "GET"
    BY <2>5 DEF InBody
  <2>8. Announced(b)
    BY <2>6, <2>7, BlankFound DEF Announced
  <2>9. BlankAt = b /\ Wanted = http.clen
    BY <2>5, <2>6, <2>7, <2>8, WantedRead DEF InBody
  <2> QED
    BY <1>2, <2>4, <2>5, <2>8, <2>9 DEF InBody
<1>3. conn = "shut" /\ HasHeader => ~Valid
  BY DEF SplitInv
<1> QED
  BY <1>1, <1>2, <1>3 DEF TypeOK

(* A request is understood alike however it is cut into pieces, for        *)
(* streams of any length and any number of header lines: what is handed    *)
(* over is what the whole stream says, and a complete request is left      *)
(* waiting only in front of a zero byte.                                    *)
THEOREM SplitsDoNotMatter == Spec => []SplitIndependent
<1>1. Init => SplitInv
  <2> SUFFICES ASSUME Init PROVE SplitInv
    OBVIOUS
  <2>1. LineOriented(stream)
    BY StreamAssumption DEF Init
  <2> QED
    BY <2>1 DEF Init, SplitInv
<1>2. Spec => [](TypeOK /\ PointerInv /\ SplitInv)
  BY <1>1, SplitStep, PointerInvariance, PTL DEF Spec
<1> QED
  BY <1>2, SplitSafe, PTL

=============================================================================
