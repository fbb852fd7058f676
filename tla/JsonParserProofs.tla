-------------------------- MODULE JsonParserProofs --------------------------
(***************************************************************************)
(* That no assert() of JSON_parser_char() fails, whatever the text, its    *)
(* length, the depth allowed and the first size of the parse buffer.       *)
(*                                                                         *)
(* AssertsHold is not inductive: it says what the next byte will find, and *)
(* that depends on what the table makes of the bytes before it.  PInv adds *)
(* the type of value that each state stands for (TypeFits), which modes    *)
(* the stack holds, and how much of an escape sequence is in the buffer in *)
(* each of the states that read one (EscapeSoFar).                         *)
(***************************************************************************)
EXTENDS JsonParser, TLAPS

Octets   == 0 .. 255
HexBytes == Digits \cup 65 .. 70 \cup 97 .. 102

InString == {"ST", "ES", "U1", "U2", "U3", "U4", "D1", "D2"}
NoValue  == {"GO", "OB", "KE", "CO", "VA", "AR"}

(* The type of the value that is being read in each state.                 *)
TypeFits(st, t) ==
  /\ st \in NoValue => t = "NONE"
  /\ st \in InString <=> t = "STRING"
  /\ st \in {"MI", "ZE", "IT"} => t = "INTEGER"

(* The last n bytes are digits of an escape, behind the backslash and u.   *)
HexTail(b, n) ==
  /\ Len(b) >= n + 2
  /\ \A i \in Len(b) - n + 1 .. Len(b) : b[i] \in HexBytes

EscapeSoFar(st, b) ==
  /\ st \in {"ES", "D2"} => Len(b) >= 1
  /\ st = "U1" => HexTail(b, 0)
  /\ st = "U2" => HexTail(b, 1)
  /\ st = "U3" => HexTail(b, 2)
  /\ st = "U4" => HexTail(b, 3)

(* DONE is at the bottom of the stack and nowhere else.                    *)
DoneAtBottom(s) == Len(s) >= 1 /\ \A i \in 1 .. Len(s) : s[i] = "DONE" <=> i = 1

PInv ==
  /\ TypeOK
  /\ DoneAtBottom(stack)
  /\ Len(buf) + 1 <= cap
  /\ verdict = "reading" =>
       /\ TypeFits(state, type)
       /\ escaped <=> state = "ES"
       /\ EscapeSoFar(state, buf)

-----------------------------------------------------------------------------
(* The table.                                                              *)

LEMMA HexClass ==
  ASSUME NEW c \in Bytes, ClassOf(c) \in Hexadecimal
  PROVE  c \in HexBytes
BY BytesAssumption DEF ClassOf, Hexadecimal, HexBytes, Digits, White, Quote, Backslash

(* A byte that goes on with what is being read does not change what that is. *)
LEMMA GoesOn ==
  ASSUME NEW st \in States, NEW k, NEW to, to = Goto(st, k), to \in States,
         NEW t, TypeFits(st, t)
  PROVE  TypeFits(to, t)
<1>1. ASSUME to \in NoValue PROVE st \in NoValue
  BY <1>1, ZenonT(60) DEF States, Goto, NoValue, Blank, ValueStates, NumberEnds
<1>2. ASSUME to \in InString PROVE st \in InString
  BY <1>2, ZenonT(60) DEF States, Goto, InString, Blank, Hexadecimal, ValueStates, NumberEnds
<1>3. ASSUME st \in InString PROVE to \in InString
  <2>1. CASE st \in {"ST", "D1", "D2"}
    BY <2>1, ZenonT(60) DEF States, Goto, InString, Blank, Hexadecimal, ValueStates, NumberEnds
  <2>2. CASE st \in {"ES", "U1", "U2", "U3", "U4"}
    BY <2>2, ZenonT(60) DEF States, Goto, InString, Blank, Hexadecimal, ValueStates, NumberEnds
  <2> QED
    BY <1>3, <2>1, <2>2 DEF InString
<1>4. ASSUME to \in {"MI", "ZE", "IT"} PROVE st \in {"MI", "ZE", "IT"}
  BY <1>4, ZenonT(60) DEF States, Goto, Blank, ValueStates, NumberEnds
<1> QED
  BY <1>1, <1>2, <1>3, <1>4 DEF TypeFits

(* How the states that read an escape are entered.                         *)
LEMMA IntoEscape ==
  ASSUME NEW st \in States, NEW k, NEW to, to = Goto(st, k)
  PROVE  /\ to # "ES"
         /\ to = "D2" => st = "D1" /\ k = "back"
         /\ to = "U1" => st \in {"ES", "D2"} /\ k = "u"
         /\ to = "U2" => st = "U1" /\ k \in Hexadecimal
         /\ to = "U3" => st = "U2" /\ k \in Hexadecimal
         /\ to = "U4" => st = "U3" /\ k \in Hexadecimal
         /\ to = "Unicode" => st = "U4" /\ k \in Hexadecimal
<1> USE DEF States, Goto, Blank, Hexadecimal, ValueStates, NumberEnds
<1>1. to # "ES"
  BY ZenonT(60)
<1>2. ASSUME to = "D2" PROVE st = "D1" /\ k = "back"
  BY <1>2, ZenonT(60)
<1>3. ASSUME to = "U1" PROVE st \in {"ES", "D2"} /\ k = "u"
  BY <1>3, ZenonT(60)
<1>4. ASSUME to = "U2" PROVE st = "U1" /\ k \in Hexadecimal
  BY <1>4, ZenonT(60)
<1>5. ASSUME to = "U3" PROVE st = "U2" /\ k \in Hexadecimal
  BY <1>5, ZenonT(60)
<1>6. ASSUME to = "U4" PROVE st = "U3" /\ k \in Hexadecimal
  BY <1>6, ZenonT(60)
<1>7. ASSUME to = "Unicode" PROVE st = "U4" /\ k \in Hexadecimal
  BY <1>7, ZenonT(60)
<1> HIDE DEF States, Goto, Blank, Hexadecimal, ValueStates, NumberEnds
<1> QED
  BY <1>1, <1>2, <1>3, <1>4, <1>5, <1>6, <1>7

(* Where the actions that begin or end something can happen.               *)
LEMMA WhereFrom ==
  ASSUME NEW st \in States, NEW k, NEW to, to = Goto(st, k)
  PROVE  /\ to \in {"Minus", "Zero", "Integer", "True", "False", "Null", "BeginString",
                    "BeginObject", "BeginArray", "Colon", "EmptyObject"} => st \in NoValue
         /\ to \in {"Fraction", "Exponent"} => st \in {"ZE", "IT"}
         /\ to \in {"EndString", "Escape"} => st = "ST"
         /\ to \in {"Comma", "EndObject", "EndArray"} => st \in NumberEnds \cup {"OK", "AR"}
<1>1. ASSUME to \in {"Minus", "Zero", "Integer", "True", "False", "Null", "BeginString",
                    "BeginObject", "BeginArray", "Colon", "EmptyObject"}
      PROVE  st \in NoValue
  BY <1>1, ZenonT(60) DEF States, Goto, Blank, Hexadecimal, ValueStates, NumberEnds, NoValue
<1>2. ASSUME to \in {"Fraction", "Exponent"} PROVE st \in {"ZE", "IT"}
  BY <1>2, ZenonT(60) DEF States, Goto, Blank, Hexadecimal, ValueStates, NumberEnds
<1>3. ASSUME to \in {"EndString", "Escape"} PROVE st = "ST"
  BY <1>3, ZenonT(60) DEF States, Goto, Blank, Hexadecimal, ValueStates, NumberEnds
<1>4. ASSUME to \in {"Comma", "EndObject", "EndArray"}
      PROVE  st \in NumberEnds \cup {"OK", "AR"}
  BY <1>4, ZenonT(60) DEF States, Goto, Blank, Hexadecimal, ValueStates, NumberEnds
<1> QED
  BY <1>1, <1>2, <1>3, <1>4

(* A blank never makes an action: it stays, ends a number or is refused.   *)
LEMMA BlankGoesOn ==
  ASSUME NEW st \in States, NEW k \in Blank, NEW to, to = Goto(st, k)
  PROVE  to \in States \cup {"error"}
<1>1. CASE k = "space"
  <2>1. to \in {st, "OK", "ST", "error"}
    BY <1>1, ZenonT(60) DEF Goto, Blank, Hexadecimal
  <2> QED
    BY <2>1 DEF States
<1>2. CASE k = "white"
  <2>1. to \in {st, "OK", "ST", "error"}
    BY <1>2, ZenonT(60) DEF Goto, Blank, Hexadecimal
  <2> QED
    BY <2>1 DEF States
<1> QED
  BY <1>1, <1>2 DEF Blank

(* What follows a backslash goes on with the string.                       *)
LEMMA EscapeReturns ==
  ASSUME NEW st, st = "ES", NEW k, NEW to, to = Goto(st, k)
  PROVE  to \in States \cup {"error"}
<1>1. to \in {"ST", "U1", "error"}
  BY ZenonT(60) DEF Goto, Blank, Hexadecimal, ValueStates, NumberEnds
<1> QED
  BY <1>1 DEF States

-----------------------------------------------------------------------------
(* Bytes and code points.                                                  *)

LEMMA ClassOfU ==
  ASSUME NEW c \in Bytes, ClassOf(c) = "u"
  PROVE  c = LetterU
BY BytesAssumption, SMT DEF ClassOf, White, Quote, Backslash, LetterU

LEMMA HexValueRange ==
  ASSUME NEW c \in HexBytes
  PROVE  HexValue(c) \in 0 .. 15
BY SMT DEF HexBytes, HexValue, Digits

LEMMA CodeUnitRange ==
  ASSUME NEW b \in Seq(Octets), Len(b) >= 4,
         \A i \in Len(b) - 3 .. Len(b) : b[i] \in HexBytes
  PROVE  CodeUnit(b) \in Nat /\ CodeUnit(b) < 65536
<1> DEFINE n == Len(b)
           p == HexValue(b[n - 3])   q == HexValue(b[n - 2])
           r == HexValue(b[n - 1])   s == HexValue(b[n])
<1>0. b[n - 3] \in HexBytes /\ b[n - 2] \in HexBytes /\ b[n - 1] \in HexBytes
        /\ b[n] \in HexBytes
  OBVIOUS
<1>1. p \in 0 .. 15 /\ q \in 0 .. 15 /\ r \in 0 .. 15 /\ s \in 0 .. 15
  BY <1>0, HexValueRange
<1>2. CodeUnit(b) = 4096 * p + 256 * q + 16 * r + s
  BY DEF CodeUnit
<1> HIDE DEF n, p, q, r, s
<1> QED
  BY <1>1, <1>2, SMT

LEMMA PairRange ==
  ASSUME NEW hi \in HighSurrogates, NEW lo \in LowSurrogates
  PROVE  PairOf(hi, lo) \in Nat /\ 65536 <= PairOf(hi, lo) /\ PairOf(hi, lo) < 1114112
<1>1. hi % 1024 \in Nat /\ hi % 1024 < 1024 /\ lo % 1024 \in Nat /\ lo % 1024 < 1024
  BY SMT DEF HighSurrogates, LowSurrogates
<1> QED
  BY <1>1, SMT DEF PairOf

LEMMA Utf8Bytes ==
  ASSUME NEW u \in Nat, u < 1114112
  PROVE  Utf8(u) \in Seq(Octets) /\ Len(Utf8(u)) <= 4
<1>1. CASE u < 128
  <2>1. Utf8(u) = <<u>>
    BY <1>1, SMT DEF Utf8
  <2>2. u \in Octets
    BY <1>1, SMT DEF Octets
  <2> QED
    BY <2>1, <2>2
<1>2. CASE 128 <= u /\ u < 2048
  <2>1. 192 + (u \div 64) \in Octets /\ 128 + (u % 64) \in Octets
    BY <1>2, SMT DEF Octets
  <2>2. Utf8(u) = <<192 + (u \div 64), 128 + (u % 64)>>
    BY <1>2, SMT DEF Utf8
  <2> QED
    BY <2>1, <2>2, SMT
<1>3. CASE 2048 <= u /\ u < 65536
  <2>1. /\ 224 + (u \div 4096) \in Octets /\ 128 + ((u \div 64) % 64) \in Octets
        /\ 128 + (u % 64) \in Octets
    BY <1>3, SMT DEF Octets
  <2>2. Utf8(u) = <<224 + (u \div 4096), 128 + ((u \div 64) % 64), 128 + (u % 64)>>
    BY <1>3, SMT DEF Utf8
  <2> QED
    BY <2>1, <2>2, SMT
<1>4. CASE 65536 <= u
  <2>1. /\ 240 + (u \div 262144) \in Octets /\ 128 + ((u \div 4096) % 64) \in Octets
        /\ 128 + ((u \div 64) % 64) \in Octets /\ 128 + (u % 64) \in Octets
    BY <1>4, SMT DEF Octets
  <2>2. Utf8(u) = <<240 + (u \div 262144), 128 + ((u \div 4096) % 64),
                    128 + ((u \div 64) % 64), 128 + (u % 64)>>
    BY <1>4, SMT DEF Utf8
  <2> QED
    BY <2>1, <2>2, SMT
<1> QED
  BY <1>1, <1>2, <1>3, <1>4, SMT

(* What adding a byte does to the buffer.                                  *)
LEMMA AddedByte ==
  ASSUME buf \in Seq(Octets), NEW c \in Bytes, CanAdd(c), escaped \in BOOLEAN,
         escaped => buf # << >>
  PROVE  /\ Added(c) \in Seq(Octets)
         /\ Len(Added(c)) <= Len(buf) + 1
         /\ (escaped => c = LetterU) /\ (type # "NONE" \/ ClassOf(c) \notin Blank)
               => Added(c) = Append(buf, c)
<1>0. c \in Octets
  BY BytesAssumption, SMT DEF Octets
<1>1. CASE escaped /\ c = LetterU
  <2>1. Added(c) = Append(buf, c)
    BY <1>1 DEF Added
  <2> QED
    BY <2>1, <1>0
<1>2. CASE escaped /\ c # LetterU
  <2>1. Added(c) = Append(WithoutLast(buf), Unescaped[c])
    BY <1>2 DEF Added
  <2>2. Unescaped[c] \in Octets
    <3>1. c \in {98, 102, 110, 114, 116, Quote, Backslash, 47}
      BY <1>2 DEF CanAdd, Unescaped
    <3>2. Unescaped[c] \in {8, 12, 10, 13, 9, c}
      BY <3>1 DEF Unescaped
    <3>3. \A x \in {8, 12, 10, 13, 9} : x \in Octets
      BY DEF Octets
    <3> QED
      BY <1>0, <3>2, <3>3
  <2>3. WithoutLast(buf) \in Seq(Octets) /\ Len(WithoutLast(buf)) <= Len(buf)
    BY <1>2 DEF WithoutLast
  <2> QED
    BY <1>2, <2>1, <2>2, <2>3
<1>3. CASE ~escaped /\ (type # "NONE" \/ ClassOf(c) \notin Blank)
  <2>1. Added(c) = Append(buf, c)
    BY <1>3 DEF Added
  <2> QED
    BY <2>1, <1>0
<1>4. CASE ~escaped /\ ~(type # "NONE" \/ ClassOf(c) \notin Blank)
  <2>1. Added(c) = buf
    BY <1>4 DEF Added
  <2> QED
    BY <2>1, <1>4
<1> QED
  BY <1>1, <1>2, <1>3, <1>4

-----------------------------------------------------------------------------
(* The asserts, from the invariant.                                        *)

LEMMA AssertsFromInv ==
  ASSUME PInv
  PROVE  AssertsHold
<1> SUFFICES ASSUME verdict = "reading" PROVE AssertsHold
  BY DEF AssertsHold
<1>1. /\ TypeFits(state, type) /\ (escaped <=> state = "ES") /\ EscapeSoFar(state, buf)
      /\ state \in States /\ buf \in Seq(Octets) /\ cap \in Nat /\ Len(buf) + 1 <= cap
      /\ escaped \in BOOLEAN
  BY DEF PInv, TypeOK, Octets
<1>2. escaped => buf # << >>
  BY <1>1 DEF EscapeSoFar
<1>3. Len(buf) + 1 + 1 <= Reserved
  BY <1>1 DEF Reserved
<1>4. ASSUME NEW c \in Bytes, ~Refused(c), NEW to, to = Goto(state, ClassOf(c))
      PROVE  /\ to \in {"BeginString", "True", "False", "Null", "BeginObject",
                        "BeginArray", "Colon"} => type = "NONE"
             /\ to \in {"Fraction", "Exponent"} =>
                  type \notin {"STRING", "TRUE", "FALSE", "NULL"}
             /\ to = "EndString" => type = "STRING"
             /\ to = "Comma" => type # "STRING"
             /\ to = "Unicode" => Len(Added(c)) >= 6
             /\ to \notin States => Added(c) # << >>
  <2>0. CanAdd(c) /\ to # "error"
    BY <1>4 DEF Refused
  <2> DEFINE k == ClassOf(c)
  <2> HIDE DEF k
  <2>00. to = Goto(state, k)
    BY <1>4 DEF k
  <2>1. to \in {"BeginString", "True", "False", "Null", "BeginObject", "BeginArray", "Colon"}
          => type = "NONE"
    BY <1>1, <2>00, WhereFrom DEF TypeFits
  <2>2. to \in {"Fraction", "Exponent"} => type = "INTEGER"
    BY <1>1, <2>00, WhereFrom DEF TypeFits
  <2>3. to = "EndString" => type = "STRING"
    BY <1>1, <2>00, WhereFrom DEF TypeFits, InString
  <2>4. to = "Comma" => type # "STRING"
    BY <1>1, <2>00, WhereFrom DEF TypeFits, InString, NumberEnds
  <2>5. ASSUME to \notin States PROVE Added(c) = Append(buf, c)
    <3>1. k \notin Blank
      BY <2>5, <2>0, <2>00, <1>1, BlankGoesOn
    <3>2. state # "ES"
      BY <2>5, <2>0, <2>00, <1>1, EscapeReturns
    <3> QED
      BY <3>1, <3>2, <1>1, <1>2, <2>0, AddedByte DEF k
  <2>6. ASSUME to = "Unicode" PROVE Len(Added(c)) >= 6
    <3>1. to \notin States
      BY <2>6 DEF States, ValueStates, NumberEnds
    <3>2. state = "U4"
      BY <2>6, <2>00, <1>1, IntoEscape
    <3>3. Len(buf) >= 5
      BY <3>2, <1>1 DEF EscapeSoFar, HexTail
    <3> QED
      BY <3>1, <3>3, <2>5, <1>1
  <2>7. to \notin States => Added(c) # << >>
    BY <2>5, <1>1
  <2> QED
    BY <2>1, <2>2, <2>3, <2>4, <2>6, <2>7
<1> QED
  BY <1>2, <1>3, <1>4 DEF AssertsHold

-----------------------------------------------------------------------------
(* Every byte keeps the invariant.                                         *)

LEMMA PopKeeps ==
  ASSUME NEW s \in Seq(Modes), Len(s) <= Depth + 1, DoneAtBottom(s), s[Len(s)] # "DONE"
  PROVE  /\ WithoutLast(s) \in Seq(Modes) /\ Len(WithoutLast(s)) \in 1 .. Depth + 1
         /\ DoneAtBottom(WithoutLast(s))
<1>1. Len(s) >= 2
  BY DEF DoneAtBottom
<1>2. WithoutLast(s) \in Seq(Modes) /\ Len(WithoutLast(s)) = Len(s) - 1
        /\ \A i \in 1 .. Len(s) - 1 : WithoutLast(s)[i] = s[i]
  BY <1>1 DEF WithoutLast
<1> QED
  BY <1>1, <1>2, DepthAssumption DEF DoneAtBottom

LEMMA PushKeeps ==
  ASSUME NEW s \in Seq(Modes), DoneAtBottom(s), NEW m \in Modes \ {"DONE"}
  PROVE  /\ Append(s, m) \in Seq(Modes) /\ Len(Append(s, m)) = Len(s) + 1
         /\ DoneAtBottom(Append(s, m))
BY DEF DoneAtBottom

LEMMA ReplaceKeeps ==
  ASSUME NEW s \in Seq(Modes), DoneAtBottom(s), NEW m \in Modes \ {"DONE"},
         s[Len(s)] # "DONE"
  PROVE  /\ [s EXCEPT ![Len(s)] = m] \in Seq(Modes)
         /\ Len([s EXCEPT ![Len(s)] = m]) = Len(s)
         /\ DoneAtBottom([s EXCEPT ![Len(s)] = m])
BY DEF DoneAtBottom

(* What is left when the byte that ends something is taken out again.      *)
LEMMA TakenOut ==
  ASSUME NEW b \in Seq(Octets)
  PROVE  WithoutLast(b) \in Seq(Octets) /\ Len(WithoutLast(b)) <= Len(b)
<1>1. CASE b = << >>
  BY <1>1 DEF WithoutLast
<1>2. CASE b # << >>
  BY <1>2 DEF WithoutLast
<1> QED
  BY <1>1, <1>2

(* What the variables that a byte may change have to satisfy.              *)
Fits(st, sk, t, e, h, b, v) ==
  /\ st \in States
  /\ sk \in Seq(Modes) /\ Len(sk) \in 1 .. Depth + 1 /\ DoneAtBottom(sk)
  /\ t \in Types
  /\ e \in BOOLEAN
  /\ h \in {0} \cup HighSurrogates
  /\ b \in Seq(Octets)
  /\ v \in {"reading", "refused"}
  /\ v = "reading" => TypeFits(st, t) /\ (e <=> st = "ES") /\ EscapeSoFar(st, b)

LEMMA CharStep ==
  ASSUME PInv, NEW c \in Bytes, Char(c)
  PROVE  PInv'
<1>0. /\ verdict = "reading"
      /\ Fits(state, stack, type, escaped, high, buf, verdict)
      /\ text \in Seq(Bytes) /\ cap \in Nat /\ Len(buf) + 1 <= cap
  BY DEF PInv, TypeOK, Fits, Char, Octets
<1>1. /\ state \in States /\ buf \in Seq(Octets) /\ escaped \in BOOLEAN
      /\ stack \in Seq(Modes) /\ Len(stack) \in 1 .. Depth + 1 /\ DoneAtBottom(stack)
      /\ type \in Types /\ high \in {0} \cup HighSurrogates
      /\ TypeFits(state, type) /\ (escaped <=> state = "ES") /\ EscapeSoFar(state, buf)
  BY <1>0, SMT DEF Fits
<1>2. escaped => buf # << >>
  BY <1>1 DEF EscapeSoFar
<1>3. text' \in Seq(Bytes) /\ cap' \in Nat /\ Len(buf) + 2 <= cap'
  BY <1>0, <1>1 DEF Char, Reserved
<1> SUFFICES /\ Fits(state', stack', type', escaped', high', buf', verdict')
             /\ Len(buf') <= Len(buf) + 1
  <2>1. Fits(state', stack', type', escaped', high', buf', verdict') => buf' \in Seq(Octets)
    BY DEF Fits
  <2> QED
    BY <2>1, <1>1, <1>3, SMT DEF PInv, TypeOK, Fits, Octets
<1>4. CASE Refuse(c)
  <2>1. /\ UNCHANGED <<state, stack, type, escaped, high, buf>>
        /\ verdict' = "refused"
    BY <1>4 DEF Refuse
  <2> QED
    BY <2>1, <1>1, SMT DEF Fits
<1>5. CASE ~Refused(c)
  <2> DEFINE k  == ClassOf(c)
             to == Goto(state, k)
  <2>0. CanAdd(c) /\ to # "error"
    BY <1>5 DEF Refused
  <2>1. /\ Added(c) \in Seq(Octets)
        /\ Len(Added(c)) <= Len(buf) + 1
        /\ (escaped => c = LetterU) /\ (type # "NONE" \/ k \notin Blank)
               => Added(c) = Append(buf, c)
    BY <1>1, <1>2, <2>0, AddedByte
  <2>2. WithoutLast(Added(c)) \in Seq(Octets) /\ Len(WithoutLast(Added(c))) <= Len(buf) + 1
    BY <1>1, <2>1, TakenOut
  <2>3. << >> \in Seq(Octets) /\ Len(<< >>) = 0
    OBVIOUS
  <2> HIDE DEF to
  <2>4. to = Goto(state, k)
    BY DEF to
  <2>5. \/ Continue(c, to) \/ Begin(c, to) \/ Escape(c, to) \/ Unicode(c, to)
        \/ BeginContainer(c, to) \/ EmptyObject(c, to) \/ EndContainer(c, to)
        \/ EndString(c, to) \/ Comma(c, to) \/ Colon(c, to)
    BY <1>5, <2>4 DEF Char, Refuse
  <2>6. k = ClassOf(c)
    OBVIOUS
  <2> HIDE DEF k
  <2>11. CASE Continue(c, to)
    <3>1. TypeFits(to, type) /\ to # "ES"
      BY <2>11, <2>4, <1>1, GoesOn, IntoEscape DEF Continue
    <3>2. EscapeSoFar(to, Added(c))
      <4>1. ASSUME to = "D2" PROVE Len(Added(c)) >= 1
        <5>1. state = "D1"
          BY <4>1, <2>4, <1>1, IntoEscape
        <5>2. Added(c) = Append(buf, c)
          BY <5>1, <1>1, <2>1 DEF TypeFits, InString
        <5> QED
          BY <5>2, <1>1
      <4>2. ASSUME to = "U1" PROVE HexTail(Added(c), 0)
        <5>1. state \in {"ES", "D2"} /\ k = "u"
          BY <4>2, <2>4, <1>1, IntoEscape
        <5>2. c = LetterU
          BY <5>1, <2>6, ClassOfU
        <5>3. Added(c) = Append(buf, c)
          BY <5>1, <5>2, <1>1, <2>1 DEF TypeFits, InString
        <5>4. Len(buf) >= 1
          BY <5>1, <1>1 DEF EscapeSoFar
        <5> QED
          BY <5>3, <5>4, <1>1 DEF HexTail
      <4>3. ASSUME NEW n \in 0 .. 2, HexTail(buf, n), state \in {"U1", "U2", "U3"},
                   k \in Hexadecimal
            PROVE  HexTail(Added(c), n + 1)
        <5>1. Added(c) = Append(buf, c)
          BY <4>3, <1>1, <2>1 DEF TypeFits, InString
        <5>2. c \in HexBytes
          BY <4>3, <2>6, HexClass
        <5> QED
          BY <4>3, <5>1, <5>2, <1>1 DEF HexTail
      <4>4. ASSUME to = "U2" PROVE HexTail(Added(c), 1)
        <5>1. state = "U1" /\ k \in Hexadecimal
          BY <4>4, <2>4, <1>1, IntoEscape
        <5> QED
          BY <5>1, <1>1, <4>3 DEF EscapeSoFar
      <4>5. ASSUME to = "U3" PROVE HexTail(Added(c), 2)
        <5>1. state = "U2" /\ k \in Hexadecimal
          BY <4>5, <2>4, <1>1, IntoEscape
        <5> QED
          BY <5>1, <1>1, <4>3 DEF EscapeSoFar
      <4>6. ASSUME to = "U4" PROVE HexTail(Added(c), 3)
        <5>1. state = "U3" /\ k \in Hexadecimal
          BY <4>6, <2>4, <1>1, IntoEscape
        <5> QED
          BY <5>1, <1>1, <4>3 DEF EscapeSoFar
      <4> QED
        BY <3>1, <4>1, <4>2, <4>4, <4>5, <4>6 DEF EscapeSoFar
    <3>3. /\ state' = to /\ to \in States /\ buf' = Added(c) /\ escaped' = FALSE
          /\ UNCHANGED <<stack, type, high, verdict>>
      BY <2>11 DEF Continue
    <3>4. TypeFits(state', type') /\ EscapeSoFar(state', buf')
      BY <3>1, <3>2, <3>3
    <3>5. escaped' \in BOOLEAN /\ (escaped' <=> state' = "ES")
      BY <3>1, <3>3
    <3> QED
      BY <3>3, <3>4, <3>5, <1>0, <1>1, <2>1 DEF Fits
  <2>12. CASE Begin(c, to)
    <3>1. to \in DOMAIN TypeOf /\ state' = StateOf[to] /\ type' = TypeOf[to]
          /\ UNCHANGED <<stack, escaped, high, verdict>>
          /\ buf' \in {<< >>, Added(c)}
      BY <2>12 DEF Begin
    <3>2. state # "ES"
      BY <3>1, <2>0, <2>4, <1>1, WhereFrom DEF TypeOf, NoValue
    <3>3. /\ StateOf[to] \in {"MI", "ZE", "IT", "FX", "E1", "ST", "T1", "F1", "N1"}
          /\ StateOf[to] \in States /\ TypeOf[to] \in Types
          /\ TypeFits(StateOf[to], TypeOf[to])
      BY <3>1 DEF TypeOf, StateOf, States, Types, NumberEnds, ValueStates, TypeFits,
                  NoValue, InString
    <3>4. EscapeSoFar(state', buf')
      BY <3>1, <3>3 DEF EscapeSoFar
    <3>5. buf' \in Seq(Octets) /\ Len(buf') <= Len(buf) + 1
      <4>1. CASE buf' = << >>
        BY <4>1, <2>3, <1>1
      <4>2. CASE buf' = Added(c)
        BY <4>2, <2>1
      <4> QED
        BY <3>1, <4>1, <4>2
    <3> QED
      BY <3>1, <3>2, <3>3, <3>4, <3>5, <1>0, <1>1, SMT DEF Fits
  <2>13. CASE Escape(c, to)
    <3>1. /\ escaped' = TRUE /\ state' = "ES" /\ buf' = Added(c) /\ to = "Escape"
          /\ UNCHANGED <<stack, type, high, verdict>>
      BY <2>13 DEF Escape
    <3>2. state = "ST"
      BY <3>1, <2>4, <1>1, WhereFrom
    <3>3. type = "STRING" /\ ~escaped
      BY <3>2, <1>1 DEF TypeFits, InString
    <3>4. Added(c) = Append(buf, c)
      BY <3>3, <2>1
    <3>5. EscapeSoFar(state', buf')
      BY <3>1, <3>4, <1>1 DEF EscapeSoFar
    <3>6. TypeFits("ES", "STRING") /\ "ES" \in States
      BY DEF TypeFits, InString, NoValue, States
    <3> QED
      BY <3>1, <3>3, <3>5, <3>6, <2>1, <1>0, <1>1, SMT DEF Fits
  <2>14. CASE Unicode(c, to)
    <3> DEFINE unit == CodeUnit(Added(c))
               kept == SubSeq(buf, 1, Len(buf) - 5)
    <3>1. state = "U4" /\ k \in Hexadecimal
      BY <2>14, <2>4, <1>1, IntoEscape DEF Unicode
    <3>2. type = "STRING" /\ ~escaped /\ HexTail(buf, 3) /\ c \in HexBytes
      BY <3>1, <2>6, <1>1, HexClass DEF TypeFits, InString, EscapeSoFar
    <3>3. Added(c) = Append(buf, c)
      BY <3>2, <2>1
    <3>4. Len(buf) >= 5
      BY <3>2 DEF HexTail
    <3>5. unit \in Nat /\ unit < 65536
      <4>1. Len(Added(c)) >= 4
        BY <3>3, <3>4, <1>1
      <4>2. \A i \in Len(Added(c)) - 3 .. Len(Added(c)) : Added(c)[i] \in HexBytes
        BY <3>2, <3>3, <3>4, <1>1 DEF HexTail
      <4> QED
        BY <4>1, <4>2, <2>1, CodeUnitRange
    <3>6. kept \in Seq(Octets) /\ Len(kept) = Len(buf) - 5
      <4> DEFINE n == Len(buf) - 5
      <4>1. n \in Nat /\ n <= Len(buf)
        BY <3>4, <1>1
      <4> HIDE DEF n
      <4>2. SubSeq(buf, 1, n) \in Seq(Octets) /\ Len(SubSeq(buf, 1, n)) = n
        <5>1. CASE n = 0
          BY <5>1, <1>1
        <5>2. CASE n # 0
          BY <5>2, <4>1, <1>1
        <5> QED
          BY <5>1, <5>2
      <4> QED
        BY <4>2 DEF n
    <3>7. ASSUME NEW u \in Nat, u < 1114112
          PROVE  kept \o Utf8(u) \in Seq(Octets) /\ Len(kept \o Utf8(u)) <= Len(buf) + 1
      <4>1. Utf8(u) \in Seq(Octets) /\ Len(Utf8(u)) <= 4
        BY <3>7, Utf8Bytes
      <4> HIDE DEF kept
      <4> QED
        BY <4>1, <3>6, <1>1
    <3>8. \/ /\ buf' = kept \o Utf8(unit)
             /\ state' = "ST" /\ UNCHANGED <<high, verdict>>
          \/ /\ unit \in HighSurrogates /\ high' = unit
             /\ buf' = kept
             /\ state' = "D1" /\ UNCHANGED verdict
          \/ /\ high # 0 /\ unit \in LowSurrogates
             /\ buf' = kept \o Utf8(PairOf(high, unit))
             /\ high' = 0
             /\ state' = "ST" /\ UNCHANGED verdict
          \/ /\ buf' = kept /\ verdict' = "refused" /\ UNCHANGED <<state, high>>
      BY <2>14, Zenon DEF Unicode
    <3>9. UNCHANGED <<stack, type, escaped>>
      BY <2>14 DEF Unicode
    <3> HIDE DEF unit, kept
    <3>10. buf' \in Seq(Octets) /\ Len(buf') <= Len(buf) + 1
      <4>1. CASE buf' = kept
        BY <4>1, <3>6, <1>1
      <4>2. CASE buf' = kept \o Utf8(unit)
        <5>1. unit < 1114112
          BY <3>5, SMT
        <5> QED
          BY <4>2, <5>1, <3>5, <3>7
      <4>3. CASE high # 0 /\ unit \in LowSurrogates /\ buf' = kept \o Utf8(PairOf(high, unit))
        <5>1. PairOf(high, unit) \in Nat /\ PairOf(high, unit) < 1114112
          BY <4>3, <1>1, PairRange
        <5> QED
          BY <4>3, <5>1, <3>7
      <4> QED
        BY <3>8, <4>1, <4>2, <4>3
    <3>11. high' \in {0} \cup HighSurrogates
      BY <3>8, <1>1
    <3>12. /\ state' \in {"ST", "D1", "U4"} /\ verdict' \in {"reading", "refused"}
           /\ state' = "U4" => verdict' = "refused"
      BY <3>8, <3>1, <1>0
    <3>13. /\ verdict' = "reading" => TypeFits(state', type') /\ EscapeSoFar(state', buf')
                                        /\ (escaped' <=> state' = "ES")
           /\ state' \in States
      BY <3>12, <3>9, <3>2 DEF TypeFits, EscapeSoFar, InString, NoValue, States
    <3> QED
      BY <3>9, <3>10, <3>11, <3>12, <3>13, <1>1 DEF Fits
  <2>20. ASSUME verdict' \in {"reading", "refused"}, state' \in States, type' \in Types,
                UNCHANGED <<escaped, high>>,
                stack' \in Seq(Modes), Len(stack') \in 1 .. Depth + 1, DoneAtBottom(stack'),
                buf' \in {<< >>, WithoutLast(Added(c))},
                verdict' = "reading" =>
                  ~escaped /\ state' \in NoValue \cup {"OK"} /\ type' = "NONE"
         PROVE  /\ Fits(state', stack', type', escaped', high', buf', verdict')
                /\ Len(buf') <= Len(buf) + 1
    <3>1. buf' \in Seq(Octets) /\ Len(buf') <= Len(buf) + 1
      <4>1. CASE buf' = << >>
        BY <4>1, <2>3, <1>1
      <4>2. CASE buf' = WithoutLast(Added(c))
        BY <4>2, <2>2
      <4> QED
        BY <2>20, <4>1, <4>2
    <3>2. verdict' = "reading" => TypeFits(state', type') /\ EscapeSoFar(state', buf')
                                    /\ (escaped' <=> state' = "ES")
      BY <2>20 DEF TypeFits, EscapeSoFar, InString, NoValue
    <3> QED
      BY <2>20, <3>1, <3>2, <1>1 DEF Fits
  <2>21. NoValue \cup {"OK"} \subseteq States /\ "NONE" \in Types
    BY DEF NoValue, States, ValueStates, Types
  <2>15. CASE BeginContainer(c, to)
    <3>1. state \in NoValue /\ type = "NONE" /\ ~escaped
      <4>1. to \in {"BeginObject", "BeginArray"}
        BY <2>15 DEF BeginContainer
      <4>2. state \in NoValue
        BY <4>1, <2>4, <1>1, WhereFrom
      <4> QED
        BY <4>2, <1>1 DEF TypeFits, NoValue
    <3>2. /\ buf' = WithoutLast(Added(c)) /\ UNCHANGED <<type, escaped, high>>
          /\ \/ /\ CanPush
                /\ \E m \in {"KEY", "ARRAY"} : stack' = Append(stack, m)
                /\ state' \in {"OB", "AR"} /\ verdict' = "reading"
             \/ verdict' = "refused" /\ UNCHANGED <<stack, state>>
      BY <2>15, <1>0 DEF BeginContainer
    <3>3. stack' \in Seq(Modes) /\ Len(stack') \in 1 .. Depth + 1 /\ DoneAtBottom(stack')
      <4>1. CASE UNCHANGED stack
        BY <4>1, <1>1
      <4>2. ASSUME CanPush, NEW m \in {"KEY", "ARRAY"}, stack' = Append(stack, m)
            PROVE  stack' \in Seq(Modes) /\ Len(stack') \in 1 .. Depth + 1
                     /\ DoneAtBottom(stack')
        <5>1. m \in Modes \ {"DONE"}
          BY DEF Modes
        <5>2. Len(stack) + 1 \in 1 .. Depth + 1
          BY <4>2, <1>1, DepthAssumption DEF CanPush
        <5> QED
          BY <4>2, <5>1, <5>2, <1>1, PushKeeps
      <4> QED
        BY <3>2, <4>1, <4>2
    <3>4. /\ verdict' \in {"reading", "refused"} /\ state' \in States
          /\ verdict' = "reading" => state' \in NoValue
      BY <3>2, <1>1, <2>21 DEF NoValue
    <3> QED
      BY <3>1, <3>2, <3>3, <3>4, <1>1, <2>20
  <2>16. CASE EmptyObject(c, to)
    <3>1. state \in NoValue /\ type = "NONE" /\ ~escaped
      <4>1. state \in NoValue
        BY <2>16, <2>4, <1>1, WhereFrom DEF EmptyObject
      <4> QED
        BY <4>1, <1>1 DEF TypeFits, NoValue
    <3>2. /\ buf' = << >> /\ UNCHANGED <<type, escaped, high>>
          /\ \/ /\ Top = "KEY" /\ stack' = WithoutLast(stack)
                /\ state' = "OK" /\ verdict' = "reading"
             \/ verdict' = "refused" /\ UNCHANGED <<stack, state>>
      BY <2>16, <1>0 DEF EmptyObject
    <3>3. stack' \in Seq(Modes) /\ Len(stack') \in 1 .. Depth + 1 /\ DoneAtBottom(stack')
      BY <3>2, <1>1, PopKeeps DEF Top
    <3>4. /\ verdict' \in {"reading", "refused"} /\ state' \in States
          /\ verdict' = "reading" => state' = "OK"
      BY <3>2, <1>1, <2>21
    <3> QED
      BY <3>1, <3>2, <3>3, <3>4, <1>1, <2>20
  <2>22. ASSUME to \in {"Comma", "EndObject", "EndArray"} PROVE ~escaped
    <3>1. state \in NumberEnds \cup {"OK", "AR"}
      BY <2>22, <2>4, <1>1, WhereFrom
    <3> QED
      BY <3>1, <1>1 DEF NumberEnds
  <2>17. CASE EndContainer(c, to)
    <3>1. ~escaped
      BY <2>17, <2>22 DEF EndContainer
    <3>2. /\ buf' = << >> /\ UNCHANGED <<escaped, high>>
          /\ \/ /\ Ends(to) /\ stack' = WithoutLast(stack) /\ type' = "NONE"
                /\ state' = "OK" /\ verdict' = "reading"
             \/ verdict' = "refused" /\ UNCHANGED <<stack, type, state>>
      BY <2>17, <1>0 DEF EndContainer
    <3>3. stack' \in Seq(Modes) /\ Len(stack') \in 1 .. Depth + 1 /\ DoneAtBottom(stack')
      <4>1. Ends(to) => stack[Len(stack)] # "DONE"
        BY DEF Ends, Top
      <4> QED
        BY <3>2, <4>1, <1>1, PopKeeps
    <3>4. /\ verdict' \in {"reading", "refused"} /\ state' \in States /\ type' \in Types
          /\ verdict' = "reading" => state' = "OK" /\ type' = "NONE"
      BY <3>2, <1>1, <2>21
    <3> QED
      BY <3>1, <3>2, <3>3, <3>4, <1>1, <2>20
  <2>18. CASE EndString(c, to)
    <3>1. state = "ST" /\ ~escaped
      BY <2>18, <2>4, <1>1, WhereFrom DEF EndString
    <3>2. /\ buf' \in {<< >>, WithoutLast(Added(c))} /\ UNCHANGED <<stack, escaped, high>>
          /\ \/ type' = "NONE" /\ state' \in {"CO", "OK"} /\ verdict' = "reading"
             \/ verdict' = "refused" /\ UNCHANGED <<type, state>>
      BY <2>18, <1>0 DEF EndString
    <3>4. /\ verdict' \in {"reading", "refused"} /\ state' \in States /\ type' \in Types
          /\ verdict' = "reading" => state' \in NoValue \cup {"OK"} /\ type' = "NONE"
      BY <3>2, <1>1, <2>21 DEF NoValue
    <3> QED
      BY <3>1, <3>2, <3>4, <1>1, <2>20
  <2>19. CASE Comma(c, to)
    <3>1. ~escaped
      BY <2>19, <2>22 DEF Comma
    <3>2. /\ buf' = << >> /\ UNCHANGED <<escaped, high>>
          /\ \/ /\ Top = "OBJECT" /\ stack' = [stack EXCEPT ![Len(stack)] = "KEY"]
                /\ type' = "NONE" /\ state' = "KE" /\ verdict' = "reading"
             \/ /\ type' = "NONE" /\ state' = "VA" /\ verdict' = "reading"
                /\ UNCHANGED stack
             \/ verdict' = "refused" /\ UNCHANGED <<stack, type, state>>
      <4>1. CASE Top = "OBJECT"
        BY <2>19, <1>0, <4>1 DEF Comma
      <4>2. CASE Top = "ARRAY"
        BY <2>19, <1>0, <4>2 DEF Comma
      <4>3. CASE Top \notin {"OBJECT", "ARRAY"}
        BY <2>19, <1>0, <4>3 DEF Comma
      <4> QED
        BY <4>1, <4>2, <4>3
    <3>3. stack' \in Seq(Modes) /\ Len(stack') \in 1 .. Depth + 1 /\ DoneAtBottom(stack')
      <4>1. CASE UNCHANGED stack
        BY <4>1, <1>1
      <4>2. CASE Top = "OBJECT" /\ stack' = [stack EXCEPT ![Len(stack)] = "KEY"]
        <5>1. "KEY" \in Modes \ {"DONE"}
          BY DEF Modes
        <5> QED
          BY <4>2, <5>1, <1>1, ReplaceKeeps DEF Top
      <4> QED
        BY <3>2, <4>1, <4>2
    <3>4. /\ verdict' \in {"reading", "refused"} /\ state' \in States /\ type' \in Types
          /\ verdict' = "reading" => state' \in NoValue \cup {"OK"} /\ type' = "NONE"
      BY <3>2, <1>1, <2>21 DEF NoValue
    <3> QED
      BY <3>1, <3>2, <3>3, <3>4, <1>1, <2>20
  <2>23. CASE Colon(c, to)
    <3>1. state \in NoValue /\ type = "NONE" /\ ~escaped
      <4>1. state \in NoValue
        BY <2>23, <2>4, <1>1, WhereFrom DEF Colon
      <4> QED
        BY <4>1, <1>1 DEF TypeFits, NoValue
    <3>2. /\ buf' = WithoutLast(Added(c)) /\ UNCHANGED <<type, escaped, high>>
          /\ \/ /\ Top = "KEY" /\ stack' = [stack EXCEPT ![Len(stack)] = "OBJECT"]
                /\ state' = "VA" /\ verdict' = "reading"
             \/ verdict' = "refused" /\ UNCHANGED <<stack, state>>
      BY <2>23, <1>0 DEF Colon
    <3>3. stack' \in Seq(Modes) /\ Len(stack') \in 1 .. Depth + 1 /\ DoneAtBottom(stack')
      <4>1. CASE UNCHANGED stack
        BY <4>1, <1>1
      <4>2. CASE Top = "KEY" /\ stack' = [stack EXCEPT ![Len(stack)] = "OBJECT"]
        <5>1. "OBJECT" \in Modes \ {"DONE"}
          BY DEF Modes
        <5> QED
          BY <4>2, <5>1, <1>1, ReplaceKeeps DEF Top
      <4> QED
        BY <3>2, <4>1, <4>2
    <3>4. /\ verdict' \in {"reading", "refused"} /\ state' \in States
          /\ verdict' = "reading" => state' \in NoValue
      BY <3>2, <1>1, <2>21 DEF NoValue
    <3> QED
      BY <3>1, <3>2, <3>3, <3>4, <1>1, <2>20
  <2> QED
    BY <2>5, <2>11, <2>12, <2>13, <2>14, <2>15, <2>16, <2>17, <2>18, <2>19, <2>23
<1> QED
  BY <1>4, <1>5 DEF Char

LEMMA InitPInv == ParserInit => PInv
<1> SUFFICES ASSUME ParserInit PROVE PInv
  OBVIOUS
<1>1. state = "GO" /\ type = "NONE" /\ stack = <<"DONE">> /\ buf = << >> /\ ~escaped /\ high = 0
      /\ cap = BufSize /\ text = << >> /\ verdict = "reading" /\ escaped \in BOOLEAN
  BY DEF ParserInit
<1>2. TypeOK
  BY <1>1, BufSizeAssumption, DepthAssumption DEF TypeOK, States, Modes, Types
<1>3. DoneAtBottom(stack)
  BY <1>1 DEF DoneAtBottom
<1>4. Len(buf) + 1 <= cap
  BY <1>1, BufSizeAssumption
<1>5. TypeFits(state, type) /\ (escaped <=> state = "ES") /\ EscapeSoFar(state, buf)
  BY <1>1 DEF TypeFits, EscapeSoFar, NoValue, InString
<1> QED
  BY <1>2, <1>3, <1>4, <1>5 DEF PInv

LEMMA StepPInv == PInv /\ [ParserNext]_pvars => PInv'
<1> SUFFICES ASSUME PInv, [ParserNext]_pvars PROVE PInv'
  OBVIOUS
<1>1. ASSUME NEW c \in Bytes, Char(c) PROVE PInv'
  BY <1>1, CharStep
<1>2. CASE Done
  <2>1. /\ verdict' \in {"accepted", "incomplete"}
        /\ UNCHANGED <<text, state, stack, type, escaped, high, buf, cap>>
    BY <1>2 DEF Done
  <2> QED
    BY <2>1 DEF PInv, TypeOK
<1>3. CASE UNCHANGED pvars
  BY <1>3 DEF pvars, PInv, TypeOK
<1> QED
  BY <1>1, <1>2, <1>3 DEF ParserNext

-----------------------------------------------------------------------------
(* The state of the parser stays in its types: the stack never outgrows    *)
(* config.depth nor loses its bottom, and what decode_unicode_char() makes *)
(* of any escape is at most four bytes.                                    *)
THEOREM ParserTyped == ParserSpec => []TypeOK
<1>1. PInv => TypeOK
  BY DEF PInv
<1> QED
  BY <1>1, InitPInv, StepPInv, PTL DEF ParserSpec

(* No assert() of JSON_parser_char() fails and nothing is written beyond   *)
(* the parse buffer, for any text of any bytes, any depth and any first    *)
(* capacity of the buffer.                                                 *)
THEOREM NoAssertFails == ParserSpec => []AssertsHold
BY AssertsFromInv, InitPInv, StepPInv, PTL DEF ParserSpec

=============================================================================
