---------------------------- MODULE ScriptSocket ----------------------------
(***************************************************************************)
(* Connections of server scripts: Ape.sockClient and Ape.sockServer of     *)
(* src/modules/libape-spidermonkey.c over the event loop of                *)
(* src/src/sock.c and the resolver of src/src/dns.c.                       *)
(*                                                                         *)
(* The module follows one descriptor, which the kernel gives to one        *)
(* connection after another, and the script objects of all of them.  What  *)
(* is written goes through SendBuffer, whose variables are those of the    *)
(* descriptor's present connection.  A script object reaches its socket    *)
(* over two pointers, its private record (struct _ape_sock_callbacks) and  *)
(* the record's client; the socket reaches the record by co->attach.       *)
(*                                                                         *)
(* The loop is single-threaded: a script runs inside a callback, or, when  *)
(* the loop is idle, in a timer or in the callback of something else.      *)
(* epoll is edge-triggered: a notification that was consumed comes again   *)
(* only when something more happens.                                       *)
(*                                                                         *)
(* A definition Name_Fault states a plausible slip in the code of Name; no *)
(* action uses it.                                                         *)
(***************************************************************************)
EXTENDS SendBuffer

CONSTANTS
  MaxLives,   \* bound: script objects made
  ListenAgain, \* bound: a script may listen once more after server.stale
  Says,       \* Says[i]: the calls of write() on object i
  Alphabet,   \* what peers send (without the zero byte, see sm_sock_onread_lf)
  NewLine,    \* the byte that ends a line
  MaxText,    \* bound: bytes that a peer sends
  Traffic,    \* bound: bytes over the connection of object i, both ways
  MaxLine,    \* 4096 in the code
  BufSize     \* DEFAULT_BUFFER_SIZE

ASSUME MaxLivesAssumption == MaxLives \in Nat
ASSUME ListenAssumption == ListenAgain \in BOOLEAN
ASSUME SaysAssumption == \A i \in 1 .. MaxLives : Says[i] \subseteq Calls
ASSUME LineAssumption == NewLine \in Alphabet /\ MaxLine \in Nat \ {0}
ASSUME SizeAssumption == BufSize \in Nat \ {0} /\ MaxText \in Nat /\ Traffic \in [1 .. MaxLives -> Nat]

VARIABLES
  objs,       \* the script objects, in the order they were made
  server,     \* the listening socket, and whether a server object leads to co[fd]
  kind,       \* co[fd]: "closed", "progress" or "online"
  attach,     \* co[fd]->attach: an object's index, 0 for NULL
  inbuf,      \* co[fd]->buffer_in.data, from pBuf on
  size,       \* co[fd]->buffer_in.size
  text,       \* history: what the peer of this connection has sent
  inbox,      \* the end of it that nobody has read yet
  fin,        \* the peer will send no more
  edge,       \* an EPOLLIN notification is due
  pc          \* sockroutine(): "idle", "read", "lines", "called", "farewell"

script == <<objs, server>>
input  == <<inbuf, size, text, inbox, fin>>
loop   == <<edge, pc>>
all    == <<vars, objs, server, kind, attach, inbuf, size, text, inbox, fin, edge, pc>>

Lives == 1 .. Len(objs)

(* A listening socket accepts for "lines" or "bytes" (flushlf or not), or  *)
(* is "shut" and about to be closed.  stale: the server object of an older *)
(* one keeps a pointer to co[fd], of which it was the user before.         *)
Servers == [mode : {"none", "lines", "bytes", "shut"}, stale : BOOLEAN]

(* An object: has a private record and, behind it, a client; state of the  *)
(* record; flushlf; what its functions were called with; how many of these *)
(* there were when it closed itself.                                       *)
Object(stage, lf, client) ==
  [stage |-> stage, lf |-> lf, private |-> TRUE, client |-> client, state |-> TRUE,
   heard |-> << >>, closedAt |-> 0]

(* An object that nothing will ever be done for.                           *)
Lost == Object("lost", FALSE, FALSE)

Heard(i, e, s) == Append(objs[i].heard, [e |-> e, s |-> s])

-----------------------------------------------------------------------------
(* The descriptor.                                                         *)

(* close_socket(), and what prepare_ape_socket() clears for the next user. *)
Cleared ==
  /\ attach' = 0
  /\ inbuf' = << >> /\ size' = BufSize
  /\ text' = << >> /\ inbox' = << >> /\ fin' = FALSE /\ edge' = FALSE
  /\ sent' = << >> /\ wire' = << >> /\ buf' = << >> /\ alloc' = 0
  /\ burn' = FALSE /\ conn' = "open"

SocketInit ==
  /\ Init
  /\ objs = << >> /\ server = [mode |-> "none", stale |-> FALSE]
  /\ kind = "closed" /\ attach = 0
  /\ inbuf = << >> /\ size = BufSize
  /\ text = << >> /\ inbox = << >> /\ fin = FALSE /\ edge = FALSE
  /\ pc = "idle"

(* ape_connect(): the attempt is under way, or nothing comes of it (also   *)
(* when connect() succeeds at once).                                       *)
ape_connect(objs0, i) ==
  \/ /\ kind = "closed"
     /\ objs' = [objs0 EXCEPT ![i].stage = "connecting"]
     /\ kind' = "progress"
     /\ attach' = i
  \/ /\ objs' = [objs0 EXCEPT ![i] = Lost]
     /\ UNCHANGED <<kind, attach>>

ScriptRuns == pc \in {"idle", "called", "farewell"}

-----------------------------------------------------------------------------
(* Making connections.                                                     *)

(* ape_gethostbyname(): an address is connected to at once, a name has to  *)
(* be looked up, an invalid one (or a query that cannot be sent) ends here *)
(* without a word.                                                         *)
ape_gethostbyname(made, i, name) ==
  \/ name = "address" /\ ape_connect(made, i)
  \/ /\ name = "host"
     /\ objs' = made
     /\ UNCHANGED <<kind, attach>>
  \/ /\ name \in {"host", "invalid"}
     /\ objs' = [made EXCEPT ![i] = Lost]
     /\ UNCHANGED <<kind, attach>>

(* ape_sm_sockclient_constructor(), ape_connect_name().                    *)
NewClient(lf, name) ==
  /\ ScriptRuns
  /\ Len(objs) < MaxLives
  /\ ape_gethostbyname(Append(objs, Object("resolving", lf, FALSE)), Len(objs) + 1, name)
  /\ UNCHANGED <<vars, server, input, loop>>

(* dnscb(): an answer with an address goes to ape_connect_name_cb(); a     *)
(* failed query goes there too, and one without data does not: the object  *)
(* hears of neither.                                                       *)
dnscb(i, answer) ==
  /\ pc = "idle" /\ i \in Lives /\ objs[i].stage = "resolving"
  /\ \/ answer = "address" /\ ape_connect(objs, i)
     \/ /\ answer \in {"failed", "nodata"}
        /\ objs' = [objs EXCEPT ![i] = Lost]
        /\ UNCHANGED <<kind, attach>>
  /\ UNCHANGED <<vars, server, input, loop>>

(* ape_listen(), when it succeeds.                                         *)
ape_listen(mode) ==
  /\ server.mode = "none"
  /\ server.stale => ListenAgain
  /\ server' = [server EXCEPT !.mode = mode]

(* ape_sm_sockserver_constructor()                                         *)
Listen(mode) ==
  /\ pc = "idle"
  /\ ape_listen(mode)
  /\ UNCHANGED <<vars, objs, kind, attach, input, loop>>

(* apesocketserver_close(): shutdown() of the listening descriptor.        *)
ServerClose ==
  /\ ScriptRuns /\ server.mode \in {"lines", "bytes"}
  /\ server' = [server EXCEPT !.mode = "shut"]
  /\ UNCHANGED <<vars, objs, kind, attach, input, loop>>

(* The event without EVENT_READ that follows: sockroutine() closes the     *)
(* descriptor.  Its number is free, and may be the one followed here when  *)
(* nobody uses that; the server object keeps its private ape_socket, which *)
(* is the record of the number.                                            *)
ServerClosed ==
  /\ pc = "idle" /\ server.mode = "shut"
  /\ \E reused \in BOOLEAN :
       /\ reused => kind = "closed"
       /\ server' = [mode |-> "none", stale |-> server.stale \/ reused]
  /\ UNCHANGED <<vars, objs, kind, attach, input, loop>>

(* apesocketserver_close() once more, on an object whose socket is gone:   *)
(* shutdown() of whatever connection has the number now.  (An attempt that *)
(* is under way fails, as it may anyway.)                                  *)
ServerCloseAgain ==
  /\ ScriptRuns /\ server.stale
  /\ kind = "online"
  /\ PeerGone
  /\ edge' = TRUE
  /\ UNCHANGED <<script, kind, attach, input, pc>>

(* sm_sock_onaccept(): a connection gets a record and an object of its own. *)
sm_sock_onaccept(lf) == Append(objs, Object("open", lf, TRUE))

(* A connection is accepted; the callbacks are the server's.               *)
Accept ==
  /\ pc = "idle" /\ server.mode \in {"lines", "bytes"}
  /\ kind = "closed" /\ Len(objs) < MaxLives
  /\ objs' = sm_sock_onaccept(server.mode = "lines")
  /\ attach' = Len(objs) + 1
  /\ kind' = "online"
  /\ UNCHANGED <<vars, server, input, loop>>

(* A failed attempt ended without on_disconnect().                         *)
Fails_Silently(i) ==
  /\ objs' = [objs EXCEPT ![i].stage = "gone", ![i].private = FALSE]
  /\ kind' = "closed"
  /\ Cleared
  /\ UNCHANGED <<server, pc>>

(* EVENT_WRITE in STREAM_PROGRESS with an error: on_disconnect() first.    *)
Fails(i) ==
  /\ objs' = [objs EXCEPT ![i].heard = Heard(i, "disconnect", << >>)]
  /\ pc' = "farewell"
  /\ UNCHANGED <<vars, server, kind, attach, input, edge>>

(* sm_sock_onconnect() tells the record of the socket, then the script.    *)
sm_sock_onconnect(i) ==
  [objs EXCEPT ![i].client = TRUE, ![i].stage = "open",
               ![i].heard = Heard(i, "connect", << >>)]

(* EVENT_WRITE in STREAM_PROGRESS.                                         *)
ConnectDone ==
  /\ pc = "idle" /\ kind = "progress"
  /\ \/ /\ kind' = "online"
        /\ objs' = sm_sock_onconnect(attach)
        /\ UNCHANGED <<vars, server, attach, input, loop>>
     \/ Fails(attach)

-----------------------------------------------------------------------------
(* The peer.                                                               *)

Arrive(c) ==
  /\ kind = "online" /\ conn = "open" /\ ~fin
  /\ Len(text) < MaxText /\ Len(text) + Len(sent) < Traffic[attach]
  /\ text' = Append(text, c)
  /\ inbox' = Append(inbox, c)
  /\ edge' = TRUE
  /\ UNCHANGED <<vars, script, kind, attach, inbuf, size, fin, pc>>

Finish ==
  /\ kind = "online" /\ ~fin
  /\ fin' = TRUE
  /\ edge' = TRUE
  /\ UNCHANGED <<vars, script, kind, attach, inbuf, size, text, inbox, pc>>

Reset ==
  /\ kind = "online"
  /\ PeerGone
  /\ edge' = TRUE
  /\ UNCHANGED <<script, kind, attach, input, pc>>

-----------------------------------------------------------------------------
(* Reading: the EVENT_READ branch.                                         *)

Ended == fin \/ conn # "open"

Poll ==
  /\ pc = "idle" /\ kind = "online" /\ edge
  /\ edge' = FALSE
  /\ pc' = "read"
  /\ UNCHANGED <<vars, script, kind, attach, input>>

(* One read() for each notification.                                       *)
NextTurn_Once == "idle"
NextTurn == "read"

(* What one read() brings, at most what there is room for.                 *)
Chunk ==
  LET room == size - Len(inbuf)
  IN  IF Len(inbox) < room THEN Len(inbox) ELSE room

(* The buffer grows as soon as it is full.                                 *)
SizeFor(n) == IF n = size THEN 2 * size ELSE size

(* sm_sock_onread(): a record that was closed is not told, and what came   *)
(* stays in the buffer.                                                    *)
sm_sock_onread(data) ==
  IF objs[attach].state
  THEN /\ objs' = [objs EXCEPT ![attach].heard = Heard(attach, "read", data)]
       /\ inbuf' = << >>
       /\ pc' = "called"
  ELSE /\ inbuf' = data
       /\ pc' = NextTurn
       /\ UNCHANGED objs

ReadSome ==
  /\ pc = "read" /\ inbox # << >>
  /\ inbox' = Left(inbox, Chunk)
  /\ size' = SizeFor(Len(inbuf) + Chunk)
  /\ LET data == inbuf \o Taken(inbox, Chunk)
     IN  IF objs[attach].lf
         THEN /\ inbuf' = data
              /\ pc' = "lines"
              /\ UNCHANGED objs
         ELSE sm_sock_onread(data)
  /\ UNCHANGED <<vars, server, kind, attach, text, fin, edge>>

(* The ends of lines that sneof() looks for.                               *)
LineEnds == {n \in 1 .. Len(inbuf) : n <= MaxLine /\ inbuf[n] = NewLine}
FirstEnd == CHOOSE n \in LineEnds : \A k \in LineEnds : n <= k

(* sm_sock_onread_lf() without a look at the state of the record.          *)
Listening_Always(i) == TRUE
Listening(i) == objs[i].state

(* The line is taken for a string that ends at a zero byte, so a line that *)
(* holds one would be cut there; peers here send none.                     *)
sm_sock_onread_lf(line) ==
  IF Listening(attach)
  THEN /\ objs' = [objs EXCEPT ![attach].heard = Heard(attach, "read", line)]
       /\ pc' = "called"
  ELSE UNCHANGED <<objs, pc>>

(* The first line goes to the callback, without its end.                   *)
ReadLine ==
  /\ pc = "lines" /\ LineEnds # {}
  /\ inbuf' = Left(inbuf, FirstEnd)
  /\ sm_sock_onread_lf(Taken(inbuf, FirstEnd - 1))
  /\ UNCHANGED <<vars, server, kind, attach, size, text, inbox, fin, edge>>

(* A rest longer than any line is thrown away, a shorter one waits.        *)
Kept_None == << >>
Kept == IF Len(inbuf) > MaxLine THEN << >> ELSE inbuf

NoMoreLines ==
  /\ pc = "lines" /\ LineEnds = {}
  /\ inbuf' = Kept
  /\ pc' = NextTurn
  /\ UNCHANGED <<vars, script, kind, attach, size, text, inbox, fin, edge>>

(* The script's function returns.                                          *)
Return ==
  /\ pc = "called"
  /\ pc' = IF objs[attach].lf THEN "lines" ELSE NextTurn
  /\ UNCHANGED <<vars, script, kind, attach, input, edge>>

(* read() would block.                                                     *)
ReadNothing ==
  /\ pc = "read" /\ inbox = << >> /\ ~Ended
  /\ pc' = "idle"
  /\ UNCHANGED <<vars, script, kind, attach, input, edge>>

(* An end of file taken for "would block".                                 *)
AtEnd_Blocks ==
  /\ pc = "read" /\ inbox = << >> /\ Ended
  /\ pc' = "idle"
  /\ UNCHANGED <<vars, script, kind, attach, input, edge>>

(* End of file or an error: sm_sock_ondisconnect() calls the script.       *)
AtEnd ==
  /\ pc = "read" /\ inbox = << >> /\ Ended
  /\ objs' = [objs EXCEPT ![attach].heard = Heard(attach, "disconnect", << >>)]
  /\ pc' = "farewell"
  /\ UNCHANGED <<vars, server, kind, attach, input, edge>>

(* What is left of an object when its record has been freed; of the        *)
(* history only the last call is kept.                                     *)
Over(private) ==
  [Object("gone", FALSE, private) EXCEPT
     !.private = private, !.heard = <<[e |-> "disconnect", s |-> << >>]>>]

(* The object would keep its private record.                               *)
Detached_KeepsPrivate == Over(TRUE)
Detached == Over(FALSE)

(* The rest of sm_sock_ondisconnect(), then close_socket().                *)
Close ==
  /\ pc = "farewell"
  /\ objs' = [objs EXCEPT ![attach] = Detached]
  /\ kind' = "closed"
  /\ pc' = "idle"
  /\ Cleared
  /\ UNCHANGED server

-----------------------------------------------------------------------------
(* Writing.                                                                *)

(* A shutdown of our own ends reading too.                                 *)
Noticed == edge' = (edge \/ conn' # conn)

(* apesocket_write()                                                       *)
Write(i, m, b) ==
  /\ ScriptRuns /\ i \in Lives /\ objs[i].private /\ objs[i].client
  /\ Len(text) + Len(sent) + Len(m) <= Traffic[i]
  /\ sendbin(m, b)
  /\ Noticed
  /\ UNCHANGED <<script, kind, attach, input, pc>>

(* apesocket_close(): close(true) cuts the connection off, close() lets    *)
(* the output finish first.                                                *)
CloseCall(i, cut) ==
  /\ ScriptRuns /\ i \in Lives /\ objs[i].private /\ objs[i].state /\ objs[i].client
  /\ objs' = [objs EXCEPT ![i].state = FALSE, ![i].closedAt = Len(objs[i].heard)]
  /\ \/ conn = "open" /\ (IF cut THEN PeerGone ELSE safe_shutdown)
     \/ conn # "open" /\ UNCHANGED vars
  /\ Noticed
  /\ UNCHANGED <<server, kind, attach, input, pc>>

(* EVENT_WRITE with something buffered.                                    *)
Flush ==
  /\ pc = "idle" /\ kind = "online"
  /\ sendqueue
  /\ Noticed
  /\ UNCHANGED <<script, kind, attach, input, pc>>

-----------------------------------------------------------------------------
ScriptCalls ==
  \/ \E lf \in BOOLEAN, name \in {"address", "host", "invalid"} : NewClient(lf, name)
  \/ \E mode \in {"lines", "bytes"} : Listen(mode)
  \/ ServerClose
  \/ ServerCloseAgain
  \/ \E i \in Lives : \E c \in Says[i] : Write(i, c[1], c[2])
  \/ \E i \in Lives, cut \in BOOLEAN : CloseCall(i, cut)

World ==
  \/ \E i \in Lives, answer \in {"address", "failed", "nodata"} : dnscb(i, answer)
  \/ Accept
  \/ \E c \in Alphabet : Arrive(c)
  \/ Finish
  \/ Reset
  \/ ServerClosed

(* What the event loop does by itself.                                     *)
Loop ==
  \/ ConnectDone \/ Poll \/ ReadSome \/ ReadLine \/ NoMoreLines \/ Return
  \/ ReadNothing \/ AtEnd \/ Close

SocketNext == ScriptCalls \/ World \/ Loop \/ Flush

SocketSpec == SocketInit /\ [][SocketNext]_all

(* The loop goes on as long as it has something to do; attempts to connect *)
(* end (the kernel gives up); peers that stay make room for our output.    *)
FairSocketSpec == SocketSpec /\ WF_all(Loop) /\ WF_all(Flush)

-----------------------------------------------------------------------------
(* Properties.                                                             *)

Stages == {"resolving", "lost", "connecting", "open", "gone"}
ScriptCall == [e : {"connect", "read", "disconnect"}, s : Seq(Alphabet)]
ScriptObject ==
  [stage : Stages, lf : BOOLEAN, private : BOOLEAN, client : BOOLEAN, state : BOOLEAN,
   heard : Seq(ScriptCall), closedAt : Nat]

SocketTypeOK ==
  /\ TypeOK
  /\ objs \in Seq(ScriptObject) /\ Len(objs) <= MaxLives
  /\ server \in Servers
  /\ kind \in {"closed", "progress", "online"}
  /\ attach \in 0 .. Len(objs)
  /\ kind = "closed" <=> attach = 0
  /\ text \in Seq(Alphabet) /\ inbox \in Seq(Alphabet) /\ inbuf \in Seq(Alphabet)
  /\ size \in Nat /\ Len(inbuf) < size
  /\ fin \in BOOLEAN /\ edge \in BOOLEAN
  /\ pc \in {"idle", "read", "lines", "called", "farewell"}

Letters(i) == UNION {{c[1][k] : k \in DOMAIN c[1]} : c \in Says[i]}

(* A native that follows the pointers of a connection's object (made by    *)
(* sockClient() or on accept) arrives at the connection the object was     *)
(* made for, never at one that has ended, nor at the next user of the      *)
(* descriptor; the socket's attach leads back; and what is written on a    *)
(* connection is what its own object said.  A server object has no such    *)
(* record: once its socket is closed, it leads to the next user of the     *)
(* number (ServerCloseAgain), whose own objects still hold together.       *)
HandlesLive ==
  /\ \A i \in Lives : objs[i].private /\ objs[i].client => kind = "online" /\ attach = i
  /\ attach # 0 => objs[attach].private
  /\ \A k \in DOMAIN sent : attach # 0 /\ sent[k] \in Letters(attach)

(* onConnect once and first, onDisconnect once and last and never left     *)
(* out, no onRead after the script has closed the socket (however many     *)
(* lines had been read by then).                                           *)
HeardInOrder ==
  \A i \in Lives :
    LET h == objs[i].heard
    IN  /\ objs[i].stage = "gone" => h # << >>
        /\ \A k \in DOMAIN h :
             /\ h[k].e = "connect" => k = 1
             /\ h[k].e = "disconnect" => k = Len(h)
             /\ h[k].e = "read" /\ ~objs[i].state => k <= objs[i].closedAt

(* What the onRead calls of h brought, an end put behind each.             *)
Brought(h, end) ==
  LET after[n \in 0 .. Len(h)] ==
        IF n = 0 THEN << >>
        ELSE IF h[n].e = "read" THEN after[n - 1] \o h[n].s \o end
        ELSE after[n - 1]
  IN  after[Len(h)]

HasEnd(s) == \E k \in DOMAIN s : s[k] = NewLine

LongLine ==
  \E a \in 0 .. Len(text) : /\ a + MaxLine < Len(text)
                            /\ \A k \in a + 1 .. a + MaxLine : text[k] # NewLine

(* With flushlf a script gets the lines of what the peer sent, whole and   *)
(* once, and without it the bytes, however both were cut into pieces and   *)
(* however the buffer grew: put together again, with the ends of lines,    *)
(* and with the beginning of a line that waits in the buffer, they are     *)
(* what was read, and no line has an end inside.  (Not if a line is longer *)
(* than MaxLine: what is thrown away then depends on the pieces.)          *)
Consumed == Taken(text, Len(text) - Len(inbox))

ReadsWhole ==
  (kind = "online" /\ pc \in {"idle", "read"} /\ objs[attach].state) =>
    LET h == objs[attach].heard
    IN  IF objs[attach].lf
        THEN ~LongLine => /\ Brought(h, <<NewLine>>) \o inbuf = Consumed
                          /\ \A k \in DOMAIN h : ~HasEnd(h[k].s)
                          /\ ~HasEnd(inbuf)
        ELSE Brought(h, << >>) = Consumed

(* Edge-triggered: whenever the loop goes to sleep, either there is        *)
(* nothing to read on the connection or a notification is due.             *)
NothingMissed ==
  (pc = "idle" /\ kind = "online" /\ (inbox # << >> \/ Ended)) => edge

(* The loop owes the script a call: an attempt to connect ends, as a       *)
(* connection or not, and a connection that is over is noticed and its     *)
(* descriptor closed.                                                      *)
Owed == kind = "progress" \/ (kind = "online" /\ Ended)

HearsBack == Owed ~> ~Owed

(* A shutdown that had to wait for output is carried out, unless the       *)
(* connection ends first.                                                  *)
DeferredShutdown == burn ~> (conn # "open" \/ kind = "closed")
=============================================================================
