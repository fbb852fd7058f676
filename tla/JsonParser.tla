----------------------------- MODULE JsonParser -----------------------------
(***************************************************************************)
(* The JSON reader of src/src/json_parser.c, as init_json_parser() in      *)
(* src/src/json.c drives it: one byte at a time, with json_callback() of   *)
(* JsonItem as the callback, comments not allowed and floats handed to     *)
(* strtod().                                                               *)
(*                                                                         *)
(* It is a pushdown automaton.  A byte is put into the parse buffer        *)
(* whether or not it is part of a value, and an action that it was not     *)
(* meant for takes it out again; the type of the value being read is kept  *)
(* apart from the state; both have to fit the mode on the stack.  The code *)
(* says so with assert(), which ends the server when it fails.             *)
(*                                                                         *)
(* Bytes are numbers, the actions of the transition table have names       *)
(* (BeginObject for -6, Comma for -3, ...), and the error codes, which     *)
(* nothing asks for, are left out.  A definition Name_Fault states a       *)
(* plausible slip in the code of Name; no action uses it.                  *)
(***************************************************************************)
EXTENDS JsonItem

CONSTANTS
  Bytes,     \* the bytes that a text may consist of
  Depth,     \* config.depth
  BufSize,   \* first capacity of the parse buffer
  MaxText    \* bound: bytes of a text

ASSUME BytesAssumption == Bytes \subseteq 1 .. 255
ASSUME DepthAssumption == Depth \in Nat \ {0}
ASSUME BufSizeAssumption == BufSize \in Nat \ {0, 1}
ASSUME MaxTextAssumption == MaxText \in Nat

VARIABLES
  text,      \* history: the bytes read
  state,     \* jc->state
  stack,     \* jc->stack up to jc->top
  type,      \* jc->type
  escaped,   \* jc->escaped
  high,      \* jc->utf16_high_surrogate, 0 for none
  buf,       \* jc->parse_buffer
  cap,       \* jc->parse_buffer_capacity
  cx,        \* the tree under construction
  verdict    \* "reading", "accepted", "refused" at a byte, "incomplete" at the end

lexing == <<state, type, escaped, high, buf>>
pvars  == <<text, state, stack, type, escaped, high, buf, cap, cx, verdict>>

-----------------------------------------------------------------------------
(* Bytes and their classes (ascii_class).                                  *)

Quote     == 34
Backslash == 92
LetterU   == 117

White  == {9, 10, 13}
Digits == 48 .. 57

ClassOf(c) ==
  CASE c = 32 -> "space"      [] c \in White -> "white"
    [] c < 32 -> "none"       [] c >= 128 -> "etc"
    [] c = 123 -> "{"         [] c = 125 -> "}"
    [] c = 91 -> "["          [] c = 93 -> "]"
    [] c = 58 -> ":"          [] c = 44 -> ","
    [] c = Quote -> "quote"   [] c = Backslash -> "back"
    [] c = 47 -> "/"          [] c = 43 -> "+"
    [] c = 45 -> "-"          [] c = 46 -> "."
    [] c = 48 -> "0"          [] c \in 49 .. 57 -> "1-9"
    [] c = 69 -> "E"          [] c \in 65 .. 70 -> "ABCDF"
    [] c = 97 -> "a" [] c = 98 -> "b" [] c = 99 -> "c" [] c = 100 -> "d"
    [] c = 101 -> "e" [] c = 102 -> "f" [] c = 108 -> "l" [] c = 110 -> "n"
    [] c = 114 -> "r" [] c = 115 -> "s" [] c = 116 -> "t" [] c = 117 -> "u"
    [] OTHER -> "etc"

Hexadecimal == {"0", "1-9", "a", "b", "c", "d", "e", "f", "ABCDF", "E"}
Blank       == {"space", "white"}

(* Where a value may begin, where a number may end.                        *)
ValueStates == {"VA", "AR"}
NumberEnds  == {"ZE", "IT", "FR", "E3", "FX"}

States ==
  {"GO", "OK", "OB", "KE", "CO", "ST", "ES", "U1", "U2", "U3", "U4", "D1", "D2",
   "MI", "E1", "E2", "T1", "T2", "T3", "F1", "F2", "F3", "F4", "N1", "N2", "N3"}
  \cup ValueStates \cup NumberEnds

(* state_transition_table: a state, an action or an error.                 *)
Goto(st, k) ==
  CASE k \in Blank /\ st \in {"GO", "OK", "OB", "KE", "CO"} \cup ValueStates -> st
    [] k \in Blank /\ st \in NumberEnds -> "OK"
    [] k = "}" /\ st \in NumberEnds \cup {"OK"} -> "EndObject"
    [] k = "]" /\ st \in NumberEnds \cup {"OK", "AR"} -> "EndArray"
    [] k = "," /\ st \in NumberEnds \cup {"OK"} -> "Comma"
    [] k = "}" /\ st = "OB" -> "EmptyObject"
    [] k = "{" /\ st \in ValueStates \cup {"GO"} -> "BeginObject"
    [] k = "[" /\ st \in ValueStates \cup {"GO"} -> "BeginArray"
    [] k = "quote" /\ st \in ValueStates \cup {"OB", "KE"} -> "BeginString"
    [] k = ":" /\ st = "CO" -> "Colon"
    [] st \in ValueStates /\ k = "-" -> "Minus"
    [] st \in ValueStates /\ k = "0" -> "Zero"
    [] st \in ValueStates /\ k = "1-9" -> "Integer"
    [] st \in ValueStates /\ k = "t" -> "True"
    [] st \in ValueStates /\ k = "f" -> "False"
    [] st \in ValueStates /\ k = "n" -> "Null"
    [] st = "ST" /\ k = "quote" -> "EndString"
    [] st = "ST" /\ k = "back" -> "Escape"
    [] st = "ST" /\ k \notin {"quote", "back", "white"} -> "ST"
    [] st = "ES" /\ k \in {"quote", "back", "/", "b", "f", "n", "r", "t"} -> "ST"
    [] st = "ES" /\ k = "u" -> "U1"
    [] st = "D1" /\ k = "back" -> "D2"
    [] st = "D2" /\ k = "u" -> "U1"
    [] st = "U1" /\ k \in Hexadecimal -> "U2"
    [] st = "U2" /\ k \in Hexadecimal -> "U3"
    [] st = "U3" /\ k \in Hexadecimal -> "U4"
    [] st = "U4" /\ k \in Hexadecimal -> "Unicode"
    [] st = "MI" /\ k = "0" -> "ZE"
    [] st = "MI" /\ k = "1-9" -> "IT"
    [] st \in {"ZE", "IT"} /\ k = "." -> "Fraction"
    [] st = "IT" /\ k \in {"0", "1-9"} -> "IT"
    [] st = "IT" /\ k \in {"e", "E"} -> "Exponent"
    [] st \in {"FX", "FR"} /\ k \in {"0", "1-9"} -> "FR"
    [] st \in {"FX", "FR"} /\ k \in {"e", "E"} -> "E1"
    [] st = "E1" /\ k \in {"+", "-"} -> "E2"
    [] st \in {"E1", "E2", "E3"} /\ k \in {"0", "1-9"} -> "E3"
    [] st = "T1" /\ k = "r" -> "T2"   [] st = "T2" /\ k = "u" -> "T3"
    [] st = "T3" /\ k = "e" -> "OK"
    [] st = "F1" /\ k = "a" -> "F2"   [] st = "F2" /\ k = "l" -> "F3"
    [] st = "F3" /\ k = "s" -> "F4"   [] st = "F4" /\ k = "e" -> "OK"
    [] st = "N1" /\ k = "u" -> "N2"   [] st = "N2" /\ k = "l" -> "N3"
    [] st = "N3" /\ k = "l" -> "OK"
    [] OTHER -> "error"

(* A comment, which the table would begin at "/", is refused like an error. *)
TypeOf == [Minus |-> "INTEGER", Zero |-> "INTEGER", Integer |-> "INTEGER",
           Fraction |-> "FLOAT", Exponent |-> "FLOAT", BeginString |-> "STRING",
           True |-> "TRUE", False |-> "FALSE", Null |-> "NULL"]

StateOf == [Minus |-> "MI", Zero |-> "ZE", Integer |-> "IT", Fraction |-> "FX",
            Exponent |-> "E1", BeginString |-> "ST",
            True |-> "T1", False |-> "F1", Null |-> "N1"]

-----------------------------------------------------------------------------
(* The parse buffer.                                                       *)

WithoutLast(s) == SubSeq(s, 1, Len(s) - 1)
Top            == stack[Len(stack)]

(* add_escaped_char_to_parse_buffer(): what an escaped byte stands for.    *)
Unescaped ==
  [c \in {98, 102, 110, 114, 116, Quote, Backslash, 47} |->
     CASE c = 98 -> 8 [] c = 102 -> 12 [] c = 110 -> 10
       [] c = 114 -> 13 [] c = 116 -> 9 [] OTHER -> c]

CanAdd(c) == escaped => c \in DOMAIN Unescaped \cup {LetterU}

(* add_char_to_parse_buffer(): an escape replaces the backslash, \u stays  *)
(* as it is until its digits are there, a blank between values is left out. *)
Added(c) ==
  CASE escaped /\ c = LetterU -> Append(buf, c)
    [] escaped /\ c # LetterU -> Append(WithoutLast(buf), Unescaped[c])
    [] ~escaped /\ (type # "NONE" \/ ClassOf(c) \notin Blank) -> Append(buf, c)
    [] OTHER -> buf

(* parse_buffer_reserve_for() one byte too late.                           *)
Reserved_Late ==
  IF Len(buf) + 1 > cap THEN 2 * cap ELSE cap

(* parse_buffer_reserve_for(), parse_buffer_grow(): room for one more byte  *)
(* and the final zero.                                                     *)
Reserved == IF Len(buf) + 1 + 1 > cap THEN 2 * cap ELSE cap

HexValue(c) ==
  CASE c >= 97 -> c - 87 [] c \in 65 .. 96 -> c - 55 [] OTHER -> c - 48

CodeUnit(b) ==
  LET n == Len(b)
  IN  4096 * HexValue(b[n - 3]) + 256 * HexValue(b[n - 2])
        + 16 * HexValue(b[n - 1]) + HexValue(b[n])

HighSurrogates == 55296 .. 56319
LowSurrogates  == 56320 .. 57343

PairOf(hi, lo) == 1024 * (hi % 1024) + (lo % 1024) + 65536

Utf8(u) ==
  CASE u < 128 -> <<u>>
    [] 128 <= u /\ u < 2048 -> <<192 + (u \div 64), 128 + (u % 64)>>
    [] 2048 <= u /\ u < 65536 ->
         <<224 + (u \div 4096), 128 + ((u \div 64) % 64), 128 + (u % 64)>>
    [] OTHER -> <<240 + (u \div 262144), 128 + ((u \div 4096) % 64),
                  128 + ((u \div 64) % 64), 128 + (u % 64)>>

(* What parse_parse_buffer() hands to the callback: sscanf() and strtod()  *)
(* skip the blanks that may follow a number; a float keeps its text.       *)
IntegerOf(b) ==
  LET value[i \in 0 .. Len(b)] ==
        IF i = 0 THEN 0
        ELSE IF b[i] \in Digits THEN 10 * value[i - 1] + b[i] - 48 ELSE value[i - 1]
  IN  IF b[1] = 45 THEN 0 - value[Len(b)] ELSE value[Len(b)]

FloatOf(b) ==
  LET NotBlank(c) == ClassOf(c) \notin Blank
      isZero == \A i \in DOMAIN b :
                  b[i] \in 49 .. 57 => \E j \in 1 .. i : b[j] \in {69, 101}
  IN  IF isZero THEN << >> ELSE SelectSeq(b, NotBlank)

ValueOf(b, t) ==
  [str |-> IF t = "STRING" THEN Text(b) ELSE NoText,
   int |-> CASE t = "INTEGER" -> IntegerOf(b) [] t = "TRUE" -> 1 [] OTHER -> 0,
   flt |-> IF t = "FLOAT" THEN FloatOf(b) ELSE << >>]

Flushed(b) == IF type = "NONE" THEN cx ELSE OnValue(cx, type, ValueOf(b, type))

-----------------------------------------------------------------------------
(* One byte: JSON_parser_char().                                           *)

(* push(): the first mode, DONE, has the index 0.                          *)
CanPush == Len(stack) - 1 # Depth

(* The byte goes on with the value or the blank that is being read.        *)
Continue(c, to) ==
  /\ to \in States
  /\ state' = to
  /\ buf' = Added(c)
  /\ escaped' = FALSE
  /\ UNCHANGED <<stack, type, high, cx, verdict>>

(* A value begins, or a number turns out to be a float.                    *)
Begin(c, to) ==
  /\ to \in DOMAIN TypeOf
  /\ type' = TypeOf[to]
  /\ state' = StateOf[to]
  /\ buf' = IF to = "BeginString" THEN << >> ELSE Added(c)
  /\ UNCHANGED <<stack, escaped, high, cx, verdict>>

Escape(c, to) ==
  /\ to = "Escape"
  /\ escaped' = TRUE
  /\ state' = "ES"
  /\ buf' = Added(c)
  /\ UNCHANGED <<stack, type, high, cx, verdict>>

(* decode_unicode_char() and what follows it.                              *)
Unicode(c, to) ==
  /\ to = "Unicode"
  /\ LET unit == CodeUnit(Added(c))
         kept == SubSeq(buf, 1, Len(buf) - 5)
     IN  \/ /\ high = 0
            /\ unit \notin HighSurrogates /\ unit \notin LowSurrogates
            /\ buf' = kept \o Utf8(unit)
            /\ state' = "ST"
            /\ UNCHANGED <<high, verdict>>
         \/ /\ high = 0
            /\ unit \in HighSurrogates
            /\ high' = unit
            /\ buf' = kept
            /\ state' = "D1"
            /\ UNCHANGED verdict
         \/ /\ high # 0
            /\ unit \in LowSurrogates
            /\ buf' = kept \o Utf8(PairOf(high, unit))
            /\ high' = 0
            /\ state' = "ST"
            /\ UNCHANGED verdict
         \/ /\ IF high = 0 THEN unit \in LowSurrogates ELSE unit \notin LowSurrogates
            /\ buf' = kept
            /\ verdict' = "refused"
            /\ UNCHANGED <<state, high>>
  /\ UNCHANGED <<stack, type, escaped, cx>>

BeginContainer(c, to) ==
  /\ to \in {"BeginObject", "BeginArray"}
  /\ cx' = OnBegin(cx, IF to = "BeginObject" THEN "OBJ" ELSE "ARR")
  /\ buf' = WithoutLast(Added(c))
  /\ IF CanPush
     THEN /\ stack' = Append(stack, IF to = "BeginObject" THEN "KEY" ELSE "ARRAY")
          /\ state' = IF to = "BeginObject" THEN "OB" ELSE "AR"
          /\ UNCHANGED verdict
     ELSE /\ verdict' = "refused"
          /\ UNCHANGED <<stack, state>>
  /\ UNCHANGED <<type, escaped, high>>

EmptyObject(c, to) ==
  /\ to = "EmptyObject"
  /\ cx' = OnEnd(cx)
  /\ buf' = << >>
  /\ IF Top = "KEY"
     THEN /\ stack' = WithoutLast(stack)
          /\ state' = "OK"
          /\ UNCHANGED verdict
     ELSE /\ verdict' = "refused"
          /\ UNCHANGED <<stack, state>>
  /\ UNCHANGED <<type, escaped, high>>

(* A container ended by the bracket of the other kind.                     *)
Ends_AnyMode(to) == Top \in {"OBJECT", "ARRAY"}

Ends(to) == Top = IF to = "EndObject" THEN "OBJECT" ELSE "ARRAY"

EndContainer(c, to) ==
  /\ to \in {"EndObject", "EndArray"}
  /\ cx' = OnEnd(Flushed(WithoutLast(Added(c))))
  /\ buf' = << >>
  /\ IF Ends(to)
     THEN /\ stack' = WithoutLast(stack)
          /\ type' = "NONE"
          /\ state' = "OK"
          /\ UNCHANGED verdict
     ELSE /\ verdict' = "refused"
          /\ UNCHANGED <<stack, type, state>>
  /\ UNCHANGED <<escaped, high>>

EndString(c, to) ==
  /\ to = "EndString"
  /\ IF Top = "DONE"
     THEN /\ verdict' = "refused"
          /\ buf' = WithoutLast(Added(c))
          /\ UNCHANGED <<cx, type, state>>
     ELSE /\ cx' = IF Top = "KEY" THEN OnKey(cx, buf) ELSE Flushed(buf)
          /\ buf' = << >>
          /\ type' = "NONE"
          /\ state' = IF Top = "KEY" THEN "CO" ELSE "OK"
          /\ UNCHANGED verdict
  /\ UNCHANGED <<stack, escaped, high>>

(* A comma ends a value; in an object a key follows.                       *)
Comma(c, to) ==
  /\ to = "Comma"
  /\ cx' = Flushed(WithoutLast(Added(c)))
  /\ buf' = << >>
  /\ CASE Top = "OBJECT" ->
            /\ stack' = [stack EXCEPT ![Len(stack)] = "KEY"]
            /\ type' = "NONE"
            /\ state' = "KE"
            /\ UNCHANGED verdict
       [] Top = "ARRAY" ->
            /\ type' = "NONE"
            /\ state' = "VA"
            /\ UNCHANGED <<stack, verdict>>
       [] OTHER ->
            /\ verdict' = "refused"
            /\ UNCHANGED <<stack, type, state>>
  /\ UNCHANGED <<escaped, high>>

(* A colon ends a key; the value follows.                                  *)
Colon(c, to) ==
  /\ to = "Colon"
  /\ buf' = WithoutLast(Added(c))
  /\ IF Top = "KEY"
     THEN /\ stack' = [stack EXCEPT ![Len(stack)] = "OBJECT"]
          /\ state' = "VA"
          /\ UNCHANGED verdict
     ELSE /\ verdict' = "refused"
          /\ UNCHANGED <<stack, state>>
  /\ UNCHANGED <<type, escaped, high, cx>>

(* A byte beyond ASCII is a negative char and refused at once, a control   *)
(* byte has no class, the table may say no.                                *)
Refused(c) ==
  \/ c >= 128
  \/ ClassOf(c) = "none"
  \/ ~CanAdd(c)
  \/ Goto(state, ClassOf(c)) = "error"

Refuse(c) ==
  /\ Refused(c)
  /\ verdict' = "refused"
  /\ UNCHANGED <<state, stack, type, escaped, high, buf, cx>>

Char(c) ==
  /\ verdict = "reading"
  /\ text' = Append(text, c)
  /\ cap' = Reserved
  /\ \/ Refuse(c)
     \/ /\ ~Refused(c)
        /\ LET to == Goto(state, ClassOf(c))
           IN  \/ Continue(c, to)
               \/ Begin(c, to)
               \/ Escape(c, to)
               \/ Unicode(c, to)
               \/ BeginContainer(c, to)
               \/ EmptyObject(c, to)
               \/ EndContainer(c, to)
               \/ EndString(c, to)
               \/ Comma(c, to)
               \/ Colon(c, to)

(* JSON_parser_done() at the end of the text.                              *)
Done ==
  /\ verdict = "reading"
  /\ verdict' = IF state \in {"OK", "GO"} /\ Top = "DONE" THEN "accepted" ELSE "incomplete"
  /\ UNCHANGED <<text, state, stack, type, escaped, high, buf, cap, cx>>

(* new_JSON_parser(), JSON_parser_reset().                                 *)
ParserInit ==
  /\ text = << >>
  /\ state = "GO"
  /\ stack = <<"DONE">>
  /\ type = "NONE"
  /\ escaped = FALSE
  /\ high = 0
  /\ buf = << >>
  /\ cap = BufSize
  /\ cx = NewContext
  /\ verdict = "reading"

ParserNext ==
  \/ Len(text) < MaxText /\ \E c \in Bytes : Char(c)
  \/ Done

ParserSpec == ParserInit /\ [][ParserNext]_pvars

-----------------------------------------------------------------------------
Modes == {"DONE", "ARRAY", "KEY", "OBJECT"}
Types == {"NONE", "INTEGER", "FLOAT", "STRING", "TRUE", "FALSE", "NULL"}

TypeOK ==
  /\ text \in Seq(Bytes)
  /\ state \in States
  /\ stack \in Seq(Modes) /\ Len(stack) \in 1 .. Depth + 1
  /\ type \in Types
  /\ escaped \in BOOLEAN
  /\ high \in {0} \cup HighSurrogates
  /\ buf \in Seq(0 .. 255)
  /\ cap \in Nat
  /\ verdict \in {"reading", "accepted", "refused", "incomplete"}

(* The assert()s of JSON_parser_char() hold for whatever byte comes next:  *)
(* the value that an action begins, goes on with or ends is of the type    *)
(* that the action takes for granted, there is a byte to take out of the   *)
(* buffer, and room for one.                                               *)
AssertsHold ==
  verdict = "reading" =>
    /\ escaped => buf # << >>
    /\ Len(buf) + 1 + 1 <= Reserved
    /\ \A c \in {b \in Bytes : ~Refused(b)} :
         LET to == Goto(state, ClassOf(c))
         IN  /\ to \in {"BeginString", "True", "False", "Null", "BeginObject",
                        "BeginArray", "Colon"} => type = "NONE"
             /\ to \in {"Fraction", "Exponent"} =>
                  type \notin {"STRING", "TRUE", "FALSE", "NULL"}
             /\ to = "EndString" => type = "STRING"
             /\ to = "Comma" => type # "STRING"
             /\ to = "Unicode" => Len(Added(c)) >= 6
             /\ to \notin States => Added(c) # << >>
=============================================================================
