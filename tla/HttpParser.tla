----------------------------- MODULE HttpParser -----------------------------
(***************************************************************************)
(* The HTTP request parser of src/src/http.c (process_http), fed by the    *)
(* read loop of src/src/sock.c and followed by checkrecv() in              *)
(* src/src/handle_http.c.                                                  *)
(*                                                                         *)
(* A request arrives in pieces of any size.  process_http() is called      *)
(* after every read(), takes as many complete lines as it finds and keeps  *)
(* its place, and pointers into the buffer, until the next read(), which   *)
(* may move the buffer.                                                    *)
(*                                                                         *)
(* A line is one symbol for its text followed by one for its end, so a     *)
(* piece may end inside a line.  The calls that process_http() makes of    *)
(* itself are steps of their own; nothing is read while it is busy.  A     *)
(* connection carries one request: the server closes it after the answer.  *)
(*                                                                         *)
(* A definition Name_Fault states a plausible slip in the code of Name; no *)
(* action uses it.                                                         *)
(***************************************************************************)
EXTENDS Integers, Sequences, FiniteSetsExt

CONSTANTS
  Streams,     \* the byte streams that peers send, sequences of Symbols
  FirstSize,   \* first size of the buffer (DEFAULT_BUFFER_SIZE)
  MaxContent,  \* MAX_CONTENT_LENGTH
  KeyBytes,    \* what a version 76 handshake sends after its header (8)
  NULL         \* a null pointer

ASSUME SizeAssumption == FirstSize \in Nat \ {0}
ASSUME ContentAssumption == MaxContent \in Nat \ {0} /\ KeyBytes \in Nat \ {0}

(* What a symbol can be: a request line (n = 1: for the WebSocket          *)
(* transport; GETQ: with a query), a header line, the end of a line, a     *)
(* byte of the body, or a zero byte (in the header: a text that holds one). *)
RequestLines == [k : {"GET", "GETQ", "POST", "BAD"}, n : {0, 1}]
LengthLines  == [k : {"length"}, n : 0 .. MaxContent + 1]
HeaderLines  == LengthLines \cup [k : {"host", "origin", "key1", "other"}, n : {0}]
LineEnd      == [k |-> "nl", n |-> 0]
Byte         == [k |-> "byte", n |-> 0]
Zero         == [k |-> "zero", n |-> 0]
Symbols      == RequestLines \cup HeaderLines \cup {LineEnd, Byte, Zero}

(* The text of a line is one symbol: up to the blank line, what is not the *)
(* end of a line is followed by one.                                        *)
BlankEndsAt(s, i) == s[i] = LineEnd /\ s[i - 1] = LineEnd
LineOriented(s) ==
  \A i \in 1 .. Len(s) - 1 :
     s[i] # LineEnd /\ (\A j \in 2 .. i : ~BlankEndsAt(s, j)) => s[i + 1] = LineEnd

ASSUME StreamAssumption == Streams \subseteq Seq(Symbols) /\ \A s \in Streams : LineOriented(s)

Pointers == [base : Nat, off : Nat] \cup {NULL}
BodyLengths == {-1, 0, KeyBytes} \cup 1 .. MaxContent
Types   == {"NULL", "GET", "GET_WS", "POST"}
HLines  == {"host", "origin", "key1"}
Requests == [type : Types, hlines : SUBSET HLines, uri : Pointers, data : Pointers,
             len : BodyLengths, answer : {"shutdown", "websocket", "notfound", "command"}]

ASSUME NullAssumption == NULL \notin Nat \cup [base : Nat, off : Nat] \cup Requests

VARIABLES
  stream,   \* what the peer sends
  got,      \* buffer_in.length: the buffer holds the first got symbols
  size,     \* buffer_in.size
  base,     \* buffer_in.data: the address of the buffer
  http,     \* http_state
  busy,     \* process_http() runs
  handed,   \* what parser->onready() was called with, NULL before
  conn      \* "open", or "shut" when the request was refused

vars == <<stream, got, size, base, http, busy, handed, conn>>

TypeOK ==
  /\ stream \in Seq(Symbols)
  /\ got \in 0 .. Len(stream)
  /\ size \in Nat
  /\ base \in Nat
  /\ http \in [pos : 0 .. Len(stream), step : 0 .. 2, type : Types, clen : BodyLengths \ {0},
               read : Nat, uri : Pointers, data : Pointers, addr : Nat \cup {NULL},
               hlines : SUBSET HLines]
  /\ busy \in BOOLEAN
  /\ handed \in Requests \cup {NULL}
  /\ conn \in {"open", "shut"}

(* parser_init_http().                                                      *)
Init ==
  /\ stream \in Streams
  /\ got = 0
  /\ size = FirstSize
  /\ base = 0
  /\ http = [pos |-> 0, step |-> 0, type |-> "NULL", clen |-> -1, read |-> 0,
             uri |-> NULL, data |-> NULL, addr |-> NULL, hlines |-> {}]
  /\ busy = FALSE
  /\ handed = NULL
  /\ conn = "open"

-----------------------------------------------------------------------------
(* read() of k symbols into the room that is left; a full buffer is        *)
(* doubled at once, and realloc() may move it.                              *)
Full_Beyond(n) == n > size
Full(n) == n = size

Read(k) ==
  /\ conn = "open"
  /\ ~busy
  /\ handed = NULL
  /\ got + k <= size
  /\ got' = got + k
  /\ IF Full(got + k)
     THEN size' = 2 * size /\ base' \in {base, base + 1}
     ELSE UNCHANGED <<size, base>>
  /\ busy' = TRUE
  /\ UNCHANGED <<stream, http, handed, conn>>

-----------------------------------------------------------------------------
(* process_http() first follows the buffer when it has moved since the     *)
(* pointers were taken.                                                     *)
Moved == http.addr # NULL /\ http.addr # base
Rebased(p) == IF p = NULL THEN NULL ELSE [base |-> base, off |-> p.off]
Here_DataOnly ==
  IF Moved THEN [http EXCEPT !.data = Rebased(@), !.addr = base] ELSE http
Here ==
  IF Moved THEN [http EXCEPT !.uri = Rebased(@), !.data = Rebased(@), !.addr = base]
           ELSE http

(* seof(): the ends of lines from http->pos on, and the place after the    *)
(* first of them.  process_http() takes a zero byte at http->pos for the   *)
(* one it put behind the data: it then finds nothing to read, whatever     *)
(* follows.                                                                 *)
Ends      == {i \in http.pos + 1 .. got : stream[i] = LineEnd}
NextLine  == Min(Ends)
First     == stream[http.pos + 1]
StopsAtZero == http.pos < got /\ First = Zero
Unread    == http.pos < got /\ ~StopsAtZero
At(off)   == [base |-> base, off |-> off]

Refuse ==
  /\ conn' = "shut"
  /\ http' = Here
  /\ busy' = FALSE
  /\ UNCHANGED <<stream, got, size, base, handed>>

(* parser->onready() = checkrecv(): a request without a Host is dropped, a *)
(* WebSocket handshake needs an Origin, and everything else needs data.    *)
checkrecv(h) ==
  CASE "host" \notin h.hlines                     -> "shutdown"
    [] "host" \in h.hlines /\ stream[1].n = 1     ->
         IF "origin" \in h.hlines THEN "websocket" ELSE "shutdown"
    [] "host" \in h.hlines /\ stream[1].n # 1     ->
         IF h.data = NULL THEN "notfound" ELSE "command"

Hand(h, len) ==
  /\ handed' = [type |-> h.type, hlines |-> h.hlines, uri |-> h.uri, data |-> h.data,
                len |-> len, answer |-> checkrecv(h)]
  /\ http' = h
  /\ busy' = FALSE
  /\ UNCHANGED <<stream, got, size, base, conn>>

Advance(h) ==
  /\ http' = h
  /\ UNCHANGED <<stream, got, size, base, busy, handed, conn>>

(* Step 0: the request line.                                                *)
MethodOf(s) == IF s.k = "POST" THEN "POST" ELSE "GET"

RequestLine ==
  /\ busy /\ Unread /\ http.step = 0 /\ Ends # {}
  /\ IF First.k \in {"GET", "GETQ", "POST"}
     THEN Advance([Here EXCEPT !.type = MethodOf(First), !.pos = NextLine, !.step = 1,
                               !.uri = At(http.pos), !.addr = base,
                               !.data = IF First.k = "GETQ" THEN At(http.pos) ELSE @])
     ELSE Refuse

(* Step 1: a header line.  A length that cannot be is refused.              *)
BadLength(n) == n < 1 \/ n > MaxContent

HeaderLine ==
  /\ busy /\ Unread /\ http.step = 1 /\ Ends # {} /\ First # LineEnd
  /\ IF http.type = "POST" /\ First.k = "length"
     THEN IF BadLength(First.n)
          THEN Refuse
          ELSE Advance([Here EXCEPT !.clen = First.n, !.pos = NextLine])
     ELSE Advance([Here EXCEPT
            !.hlines = @ \cup ({First.k} \cap HLines),
            !.type = IF @ = "GET" /\ First.k = "key1" THEN "GET_WS" ELSE @,
            !.pos = NextLine])

(* Step 1: the blank line.  A GET is complete; the others have a body.      *)
BlankLine ==
  /\ busy /\ Unread /\ http.step = 1 /\ First = LineEnd
  /\ \/ http.type = "GET" /\ Hand([Here EXCEPT !.pos = 0], 0)
     \/ http.type = "GET_WS"
        /\ Advance([Here EXCEPT !.clen = KeyBytes, !.data = At(NextLine), !.addr = base,
                                !.pos = NextLine, !.step = 2])
     \/ /\ http.type = "POST"
        /\ IF http.clen = 0
           THEN Refuse
           ELSE Advance([Here EXCEPT !.data = At(NextLine), !.addr = base,
                                     !.pos = NextLine, !.step = 2])

(* Step 2: the body.  What follows the length announced is cut off.         *)
BodyLength_All(h) == h.read
BodyLength(h) == h.clen
Complete(h) == h.read >= h.clen

Body ==
  /\ busy /\ Unread /\ http.step = 2
  /\ LET h == [Here EXCEPT !.pos = got, !.read = @ + (got - http.pos)] IN
     IF Complete(h)
     THEN Hand(h, BodyLength(h))
     ELSE /\ http' = h
          /\ busy' = FALSE
          /\ UNCHANGED <<stream, got, size, base, handed, conn>>

(* Nothing more to take: process_http() waits for the next read().         *)
Waits ==
  /\ busy
  /\ \/ ~Unread /\ UNCHANGED http
     \/ Unread /\ http.step < 2 /\ Ends = {} /\ http' = Here
  /\ busy' = FALSE
  /\ UNCHANGED <<stream, got, size, base, handed, conn>>

Next ==
  \/ \E k \in 1 .. Len(stream) - got : Read(k)
  \/ RequestLine
  \/ HeaderLine
  \/ BlankLine
  \/ Body
  \/ Waits

Spec == Init /\ [][Next]_vars

-----------------------------------------------------------------------------
(* What the whole stream asks for, read in one piece.                      *)
BlankAt == Min({i \in 2 .. Len(stream) : BlankEndsAt(stream, i)})
HasHeader == \E i \in 2 .. Len(stream) : BlankEndsAt(stream, i)
Header  == {stream[i] : i \in 2 .. BlankAt}
Kinds   == {s.k : s \in Header}
Lengths == {i \in 2 .. BlankAt : stream[i].k = "length"}
Wanted  ==
  CASE stream[1].k = "POST"                           -> stream[Max(Lengths)].n
    [] stream[1].k # "POST" /\ "key1" \in Kinds       -> KeyBytes
    [] stream[1].k # "POST" /\ "key1" \notin Kinds    -> 0
Valid ==
  /\ stream[1].k \in {"GET", "GETQ", "POST"}
  /\ stream[1].k = "POST" => \A i \in Lengths : ~BadLength(stream[i].n)

-----------------------------------------------------------------------------
(* Properties.                                                             *)

(* However a request is cut into pieces, what is handed over is what the   *)
(* whole of it says: its headers, and as many bytes of body, from the byte *)
(* after the blank line, as it announced (process_http).  And it is not    *)
(* kept waiting: once all of it has been read and process_http() has       *)
(* returned, it was handed over or refused, unless a read() left the       *)
(* parser in front of a zero byte, where it stays for good.  Only this     *)
(* depends on the cuts: a zero byte inside a piece does no harm.  A POST   *)
(* that announces no length is left out here.                              *)
SplitIndependent ==
  (stream[1].k = "POST" => Lengths # {}) =>
    /\ handed # NULL =>
         /\ Valid
         /\ handed.hlines = Kinds \cap HLines
         /\ handed.len = Wanted
         /\ Wanted > 0 => handed.data.off = BlankAt
    /\ got = Len(stream) /\ ~busy /\ HasHeader =>
         \/ conn = "shut" /\ ~Valid
         \/ handed # NULL
         \/ Len(stream) - BlankAt < Wanted
         \/ StopsAtZero

(* The URI and the data that are handed over point into the buffer where   *)
(* it is now, not where it was when they were found (http->buffer_addr).   *)
PointersFresh ==
  handed # NULL =>
    /\ handed.uri # NULL /\ handed.uri.base = base
    /\ handed.data # NULL => handed.data.base = base

(* There is always room for the next read(): read() into no room returns 0 *)
(* and would be taken for the end of the connection (sockroutine), and the *)
(* byte process_http() writes behind the data is within the buffer.         *)
RoomToRead == got < size

=============================================================================
