------------------------------ MODULE Session ------------------------------
(***************************************************************************)
(* Sockets, subusers and users: which connection serves which session, and *)
(* who frees what.  src/src/cmd.c (process_cmd, checkcmd), users.c         *)
(* (adduser, deluser, addsubuser, delsubuser, check_timeout), servers.c    *)
(* (the callbacks of the listening socket), transports.c, parser.c,        *)
(* handle_http.c (checkrecv) and the part of sock.c that closes sockets.   *)
(*                                                                         *)
(* The process is one event loop, so a handler is one action; what is      *)
(* nondeterministic is the order in which the events of different sockets, *)
(* the timers and the scripts come.  A subuser is a heap cell; pointers to *)
(* it (co->attach) are kept as they are in the code, and may outlive it.   *)
(* Once the code has touched a freed cell, or gone through a null pointer, *)
(* which ends the process (corrupt), the model stops.                       *)
(*                                                                         *)
(* The 45 s idle time-outs may strike at any moment that the order of the  *)
(* last activities allows; a request carries one command, or one command   *)
(* and QUIT; the contents of raws are abstracted to whether a subuser has  *)
(* any queued (pend).                                                       *)
(*                                                                         *)
(* A definition Name_Fault states a plausible slip in the code of Name; no *)
(* action uses it.                                                         *)
(***************************************************************************)
EXTENDS Integers

CONSTANTS
  Sockets,    \* file descriptors, reused after close()
  Subs,       \* heap cells for struct _subuser (a bound)
  Users,      \* users (a bound)
  Hosts,      \* values of the Host header (subuser.channel)
  LongHosts,  \* those longer than MAX_HOST_LENGTH
  Transports, \* transports of CONNECT requests: a subset of the three below
  Kinds,      \* kinds of client sockets: a subset of {"http", "ws"}
  Replies,    \* how hooks answer CONNECT: a subset of HookReplies
  UINT,       \* values of an unsigned int: 2^32, fewer in a model
  NULL        \* the null pointer

(* How a transport treats its connection: "poll" closes it after each      *)
(* answer (long polling, JSONP), "stream" keeps it and refuses a second    *)
(* one (persistent, XHR streaming, SSE), "ws" keeps it and lets a second   *)
(* one replace it (WebSocket).                                              *)
TransportKinds == {"poll", "stream", "ws"}

(* What a CONNECT hook returns: RETURN_CONTINUE; RETURN_HANG or            *)
(* RETURN_NOTHING, which leave the user temporary; the same after posting  *)
(* an error raw; RETURN_NULL after answering inline.                        *)
HookReplies == {"continue", "hang", "error", "refuse"}

ASSUME HostAssumption == LongHosts \subseteq Hosts
ASSUME TransportAssumption == Transports \subseteq TransportKinds
ASSUME KindAssumption == Kinds \subseteq {"http", "ws"}
ASSUME ReplyAssumption == Replies \subseteq HookReplies
ASSUME UintAssumption == UINT \in Nat /\ UINT > 0
ASSUME NullAssumption == NULL \notin Subs \cup Users \cup Hosts \cup Sockets

VARIABLES
  co,          \* g_ape->co[fd] and g_ape->bufout[fd]
  sub,         \* the subuser cells
  usr,         \* the users
  nConnected,  \* g_ape->nConnected, unsigned
  corrupt      \* a freed subuser, or through NULL, was read or written

vars == <<co, sub, usr, nConnected, corrupt>>

SocketState ==
  [conn   : {"closed", "open", "shut"}, \* shut: shut down or hung up, EOF to be read
   kind   : {"http", "ws"},
   host   : Hosts \cup {NULL},
   attach : Subs \cup {NULL},
   out    : BOOLEAN,                    \* bufout.buf # NULL
   burn   : BOOLEAN,                    \* burn_after_writing
   done   : BOOLEAN]                    \* the request of an http socket was read

SubState ==
  [live   : BOOLEAN,                    \* allocated
   user   : Users \cup {NULL},
   host   : Hosts \cup {NULL},
   client : Sockets \cup {NULL},
   state  : {"ALIVE", "ADIED"},
   wait   : BOOLEAN,                    \* wait_for_free
   lost   : BOOLEAN,                    \* history: set aside by its WebSocket
   burn   : BOOLEAN,                    \* burn_after_writing
   pend   : BOOLEAN]                    \* raw_pools.nraw > 0

UserState ==
  [st : {"none", "tmp", "on"},          \* tmp: istmp
   transport : TransportKinds,
   last : Subs \cup {NULL}]            \* the subuser with the latest idle stamp

TypeOK ==
  /\ co \in [Sockets -> SocketState]
  /\ sub \in [Subs -> SubState]
  /\ usr \in [Users -> UserState]
  /\ nConnected \in 0 .. (UINT - 1)
  /\ corrupt \in BOOLEAN

Closed == [conn |-> "closed", kind |-> "http", host |-> NULL, attach |-> NULL,
           out |-> FALSE, burn |-> FALSE, done |-> FALSE]
Freed  == [live |-> FALSE, user |-> NULL, host |-> NULL, client |-> NULL,
           state |-> "ADIED", wait |-> FALSE, lost |-> FALSE, burn |-> FALSE, pend |-> FALSE]
NoUser == [st |-> "none", transport |-> "poll", last |-> NULL]

Init ==
  /\ co = [f \in Sockets |-> Closed]
  /\ sub = [s \in Subs |-> Freed]
  /\ usr = [u \in Users |-> NoUser]
  /\ nConnected = 0
  /\ corrupt = FALSE

-----------------------------------------------------------------------------
(* Steps of handlers, as functions of the sockets c and the subusers b.    *)

(* safe_shutdown() of the sockets F: at once when nothing is buffered,     *)
(* otherwise when the buffer has drained.                                   *)
safe_shutdown_OnlyNow(c, F) ==
  [f \in Sockets |->
     IF f \notin F \/ c[f].conn # "open" \/ c[f].out THEN c[f]
     ELSE [c[f] EXCEPT !.conn = "shut"]]
safe_shutdown(c, F) ==
  [f \in Sockets |->
     IF f \notin F \/ c[f].conn # "open" THEN c[f]
     ELSE IF c[f].out THEN [c[f] EXCEPT !.burn = TRUE]
     ELSE [c[f] EXCEPT !.conn = "shut"]]

(* A write on f; slow: the kernel takes only part of it and the rest stays *)
(* in bufout.                                                               *)
sendbin(c, f, slow) ==
  IF c[f].conn = "open" THEN [c EXCEPT ![f].out = @ \/ slow] ELSE c

SubsOf(b, u) == {s \in Subs : b[s].live /\ b[s].user = u}
Alive(b, S)  == {s \in S : b[s].state = "ALIVE"}
Clients(b, S) == {b[s].client : s \in S}

(* delsubuser() of the subusers S: one that is ALIVE is marked and its     *)
(* socket shut down, to be freed when that socket disconnects; any other   *)
(* is freed here.                                                           *)
delsubuser_co(c, b, S) == safe_shutdown(c, Clients(b, Alive(b, S)))
delsubuser_sub_KeepsUser(b, S) ==
  [s \in Subs |->
     IF s \notin S THEN b[s]
     ELSE IF b[s].state = "ALIVE"
          THEN [b[s] EXCEPT !.wait = TRUE, !.state = "ADIED", !.pend = FALSE]
          ELSE Freed]
delsubuser_sub(b, S) ==
  [s \in Subs |->
     IF s \notin S THEN b[s]
     ELSE IF b[s].state = "ALIVE"
          THEN [b[s] EXCEPT !.user = NULL, !.wait = TRUE, !.state = "ADIED",
                            !.pend = FALSE]
          ELSE Freed]

(* nConnected-- on an unsigned int.                                         *)
Decremented(n) == (n + UINT - 1) % UINT

(* do_died() for s: an ALIVE subuser becomes ADIED, its socket shut down.   *)
do_died_co(c, b, s) ==
  IF b[s].state = "ALIVE" THEN safe_shutdown(c, {b[s].client}) ELSE c
do_died_sub(b, s) == [b EXCEPT ![s].state = "ADIED"]

(* transport_data_completly_sent() reaches do_died() for these only.        *)
ClosesAfterAnswer(u) == usr[u].transport = "poll"

(* xmalloc() gives a cell nothing points to: a stale pointer keeps its     *)
(* cell, so that its use is seen as a use of freed memory.                  *)
Fresh(s) == ~sub[s].live /\ \A f \in Sockets : co[f].attach # s

(* addsubuser(): a fresh cell.  For a host that is too long it returns     *)
(* NULL, and its callers go on with that: ConnectTooLong, SpeaksTooLong.    *)
TooLong(f) == co[f].host \in LongHosts

addsubuser(b, s, f, u) ==
  [b EXCEPT ![s] = [Freed EXCEPT !.live = TRUE, !.user = u,
                                 !.host = co[f].host, !.client = f]]

-----------------------------------------------------------------------------
(* The end of every message on f.  c and b are the sockets and subusers    *)
(* the commands left, a the subuser to attach.  A request that ends in     *)
(* CONNECT_SHUTDOWN shuts an http socket down, never a WebSocket; on a     *)
(* WebSocket the previously attached subuser, if it is another one, is     *)
(* declared dead (parser_ready_websocket).  If that one waits to be freed, *)
(* nothing leads to it any more, and it is never freed.                     *)
Attach(f, c, b, a, shutdown) ==
  LET old   == co[f].attach
      drops == co[f].kind = "ws" /\ old # NULL /\ old # a
      c1    == IF shutdown /\ co[f].kind = "http" THEN safe_shutdown(c, {f}) ELSE c
  IN /\ co' = [c1 EXCEPT ![f].attach = a, ![f].done = TRUE]
     /\ sub' = IF drops /\ b[old].live THEN [b EXCEPT ![old].state = "ADIED",
                                                      ![old].lost = b[old].wait]
               ELSE b
     /\ corrupt' = (drops /\ ~b[old].live)

(* A message can arrive on f.  Clients send one request on an http socket; *)
(* frames received on a WebSocket before it was shut down are still read.  *)
Readable(f) ==
  /\ ~corrupt
  /\ IF co[f].kind = "http" THEN co[f].conn = "open" /\ ~co[f].done
                             ELSE co[f].conn # "closed"

(* Answered inline with CONNECT_SHUTDOWN: bad JSON, no command, or an      *)
(* unknown session (BAD_SESSID).                                            *)
BadMessage(f) ==
  /\ Readable(f)
  /\ \E slow \in BOOLEAN : Attach(f, sendbin(co, f, slow), sub, NULL, TRUE)
  /\ UNCHANGED <<usr, nConnected>>

(* CONNECT: a user and its first subuser are allocated before the hooks    *)
(* run; only when they let it continue does cmd_connect() complete the     *)
(* user and queue IDENT and LOGIN.                                          *)
Connect(f, u, s, t, reply) ==
  /\ Readable(f)
  /\ usr[u].st = "none"
  /\ ~TooLong(f) /\ Fresh(s)
  /\ co[f].kind = "ws" <=> t = "ws"
  /\ LET b == addsubuser(sub, s, f, u)
     IN IF reply = "refuse"
        THEN \E slow \in BOOLEAN : Attach(f, sendbin(co, f, slow), b, NULL, TRUE)
        ELSE Attach(f, co, [b EXCEPT ![s].state = "ALIVE", ![s].pend = reply # "hang"],
                    s, FALSE)
  /\ usr' = [usr EXCEPT ![u] = [st |-> IF reply = "continue" THEN "on" ELSE "tmp",
                                transport |-> t, last |-> s]]
  /\ nConnected' = IF reply = "continue" THEN (nConnected + 1) % UINT ELSE nConnected

(* The process goes through a null pointer and ends.                        *)
NullPointer == corrupt' = TRUE /\ UNCHANGED <<co, sub, usr, nConnected>>

(* CONNECT with a host that is too long: adduser() does not look at what   *)
(* addsubuser() returned.  An answer given inline leaves a temporary user  *)
(* without a subuser behind; any other goes through the null subuser, in   *)
(* post_raw_sub() or at sub->state.                                         *)
ConnectTooLong(f, u, t, reply) ==
  /\ Readable(f)
  /\ usr[u].st = "none"
  /\ TooLong(f)
  /\ co[f].kind = "ws" <=> t = "ws"
  /\ \/ /\ reply = "refuse"
        /\ \E slow \in BOOLEAN : Attach(f, sendbin(co, f, slow), sub, NULL, TRUE)
        /\ usr' = [usr EXCEPT ![u] = [st |-> "tmp", transport |-> t, last |-> NULL]]
        /\ UNCHANGED nConnected
     \/ reply # "refuse" /\ NullPointer

(* Ape.addUser: a script completes a CONNECT that its hook left hanging;   *)
(* subuser_restor() goes through the user's first subuser.                  *)
CompleteConnect(u) ==
  /\ ~corrupt
  /\ usr[u].st = "tmp"
  /\ SubsOf(sub, u) # {}
  /\ usr' = [usr EXCEPT ![u].st = "on"]
  /\ nConnected' = (nConnected + 1) % UINT
  /\ sub' = [s \in Subs |-> IF s \in SubsOf(sub, u)
                            THEN [sub[s] EXCEPT !.pend = TRUE] ELSE sub[s]]
  /\ UNCHANGED <<co, corrupt>>

CompleteConnectNull(u) ==
  /\ ~corrupt
  /\ usr[u].st = "tmp"
  /\ SubsOf(sub, u) = {}
  /\ NullPointer

-----------------------------------------------------------------------------
(* process_cmd() on f with the session id of u finds the subuser s, and    *)
(* leaves c, b and, in att, whether f is to be attached to s.               *)

(* A second connection of the same host while the first one is ALIVE       *)
(* (transport_open_same_host): streams keep the old connection and close   *)
(* the new one, the others the reverse; the loser may be sent CLOSE.        *)
SameHost_LeavesLoser(f, u, s, slow) ==
  LET stream == usr[u].transport = "stream"
  IN [c   |-> co,
      b   |-> [sub EXCEPT ![s].burn = FALSE,
                          ![s].client = IF stream THEN @ ELSE f,
                          ![s].state = IF stream THEN "ALIVE" ELSE "ADIED"],
      att |-> ~stream]
SameHost(f, u, s, slow) ==
  LET old    == sub[s].client
      stream == usr[u].transport = "stream"
      loser  == IF stream THEN f ELSE old
  IN [c   |-> safe_shutdown([sendbin(co, loser, slow) EXCEPT ![loser].attach = NULL],
                            {loser}),
      b   |-> [sub EXCEPT ![s].burn = FALSE,
                          ![s].client = IF stream THEN old ELSE f,
                          ![s].state = IF stream THEN "ALIVE" ELSE "ADIED"],
      att |-> ~stream]

Lookup(f, u) == {s \in SubsOf(sub, u) : sub[s].host = co[f].host}

Found_KeepsClient(f, u, s, slow) ==
  IF s \notin Lookup(f, u)
  THEN [c |-> co, b |-> [addsubuser(sub, s, f, u) EXCEPT ![s].pend = TRUE], att |-> TRUE]
  ELSE IF sub[s].client # f /\ sub[s].state = "ALIVE"
  THEN SameHost(f, u, s, slow)
  ELSE [c |-> co, b |-> sub, att |-> TRUE]
Found(f, u, s, slow) ==
  IF s \notin Lookup(f, u)
  THEN [c |-> co, b |-> [addsubuser(sub, s, f, u) EXCEPT ![s].pend = TRUE], att |-> TRUE]
  ELSE IF sub[s].client # f /\ sub[s].state = "ALIVE"
  THEN SameHost(f, u, s, slow)
  ELSE [c |-> co, b |-> [sub EXCEPT ![s].client = f], att |-> TRUE]

(* The client of u sends something on f; the session id is known to it     *)
(* once LOGIN was sent, that is, when u is not temporary, and it keeps to  *)
(* the kind of connection it chose at CONNECT.                              *)
Speaks(f, u, s) ==
  /\ Readable(f)
  /\ usr[u].st = "on"
  /\ co[f].kind = "ws" <=> usr[u].transport = "ws"
  /\ \/ s \in Lookup(f, u)
     \/ Lookup(f, u) = {} /\ ~TooLong(f) /\ Fresh(s)

(* The same with a host that is too long: process_cmd() renews the idle    *)
(* stamp of the subuser that addsubuser() did not return.                   *)
SpeaksTooLong(f, u) ==
  /\ Readable(f)
  /\ usr[u].st = "on"
  /\ co[f].kind = "ws" <=> usr[u].transport = "ws"
  /\ TooLong(f)
  /\ NullPointer

(* The idle stamps of u and s are renewed.                                  *)
Touch(u, s) == usr' = [usr EXCEPT ![u].last = s]

(* A command that answers through the queue (CHECK, SEND, JOIN, ...).       *)
Command(f, u, s) ==
  /\ Speaks(f, u, s)
  /\ \E slow \in BOOLEAN :
       LET r == Found(f, u, s, slow)
       IN  Attach(f, r.c, [r.b EXCEPT ![s].state = "ALIVE"],
                  IF r.att THEN s ELSE NULL, FALSE)
  /\ Touch(u, s)
  /\ UNCHANGED nConnected

(* A command that a script answers inline (RETURN_NULL): the request is    *)
(* over, the subuser is not woken.                                          *)
CommandInline(f, u, s) ==
  /\ Speaks(f, u, s)
  /\ \E slow \in BOOLEAN :
       LET r == Found(f, u, s, slow)
       IN  Attach(f, sendbin(r.c, r.b[s].client, slow), r.b, NULL, TRUE)
  /\ Touch(u, s)
  /\ UNCHANGED nConnected

(* QUIT, alone or behind another command of the same request (after): the  *)
(* user and all its subusers go.                                            *)
Quit(f, u, s, after) ==
  /\ Speaks(f, u, s)
  /\ \E slow \in BOOLEAN :
       LET r  == Found(f, u, s, slow)
           b1 == IF after THEN [r.b EXCEPT ![s].state = "ALIVE"] ELSE r.b
           S  == SubsOf(b1, u)
           a  == IF after /\ r.att THEN s ELSE NULL
       IN  Attach(f, delsubuser_co(sendbin(r.c, b1[s].client, slow), b1, S),
                  delsubuser_sub(b1, S), a, TRUE)
  /\ usr' = [usr EXCEPT ![u] = NoUser]
  /\ nConnected' = Decremented(nConnected)

-----------------------------------------------------------------------------
(* Timers and scripts.                                                     *)

(* deluser() outside a request: check_timeout() on an idle user, or        *)
(* user.quit() in a script.                                                 *)
DelUser(u) ==
  /\ ~corrupt
  /\ usr[u].st # "none"
  /\ co' = delsubuser_co(co, sub, SubsOf(sub, u))
  /\ sub' = delsubuser_sub(sub, SubsOf(sub, u))
  /\ usr' = [usr EXCEPT ![u] = NoUser]
  /\ nConnected' = Decremented(nConnected)
  /\ UNCHANGED corrupt

(* check_timeout() on an idle subuser of a user that is not: never the one *)
(* with the latest stamp, which is the user's.                              *)
Idle_Any(s) == TRUE
Idle(s) == s # usr[sub[s].user].last

IdleSub(s) ==
  /\ ~corrupt
  /\ sub[s].live /\ sub[s].user # NULL
  /\ Idle(s)
  /\ co' = delsubuser_co(co, sub, {s})
  /\ sub' = delsubuser_sub(sub, {s})
  /\ UNCHANGED <<usr, nConnected, corrupt>>

(* Something is posted to u: post_raw() queues it on each of its subusers. *)
Post(u) ==
  /\ ~corrupt
  /\ SubsOf(sub, u) # {}
  /\ sub' = [s \in Subs |-> IF s \in SubsOf(sub, u)
                            THEN [sub[s] EXCEPT !.pend = TRUE] ELSE sub[s]]
  /\ UNCHANGED <<co, usr, nConnected, corrupt>>

(* check_timeout() on a subuser with something queued: send_raws() writes  *)
(* all of it.  When everything was written a polling connection is closed; *)
(* otherwise that is left to ape_sent().  A write on a socket that is shut *)
(* down may fail, one on a closed socket (fd 0) is skipped.                 *)
Flushable(s) ==
  /\ sub[s].live /\ sub[s].user # NULL
  /\ sub[s].state = "ALIVE" /\ sub[s].pend /\ ~sub[s].burn

Flush(s) ==
  /\ ~corrupt
  /\ Flushable(s)
  /\ \E slow \in BOOLEAN :
       LET f        == sub[s].client
           c1       == sendbin(co, f, slow)
           b1       == [sub EXCEPT ![s].pend = FALSE]
           finished == \/ co[f].conn = "closed"
                       \/ ~co[f].out /\ ~slow
       IN  IF ~finished
           THEN /\ co' = c1
                /\ sub' = [b1 EXCEPT ![s].burn = TRUE]
           ELSE IF ClosesAfterAnswer(sub[s].user)
           THEN /\ co' = do_died_co(c1, b1, s)
                /\ sub' = do_died_sub(b1, s)
           ELSE co' = c1 /\ sub' = b1
  /\ UNCHANGED <<usr, nConnected, corrupt>>

-----------------------------------------------------------------------------
(* Events of the sockets.                                                  *)

Accept(f, k, h) ==
  /\ ~corrupt
  /\ co[f].conn = "closed"
  /\ co' = [co EXCEPT ![f] = [Closed EXCEPT !.conn = "open", !.kind = k, !.host = h]]
  /\ UNCHANGED <<sub, usr, nConnected, corrupt>>

(* The peer hangs up.                                                       *)
PeerClose(f) ==
  /\ ~corrupt
  /\ co[f].conn = "open"
  /\ co' = [co EXCEPT ![f].conn = "shut"]
  /\ UNCHANGED <<sub, usr, nConnected, corrupt>>

(* co->attach points to a freed cell.                                       *)
Dangling(f) == IF co[f].attach = NULL THEN FALSE ELSE ~sub[co[f].attach].live

(* EVENT_WRITE: the buffer of f drains (sendqueue), ape_sent() looks at    *)
(* the attached subuser, and a deferred shutdown is carried out.            *)
Drain(f) ==
  /\ ~corrupt
  /\ co[f].conn # "closed"
  /\ co[f].out
  /\ LET s     == co[f].attach
         c1    == [co EXCEPT ![f].out = FALSE]
         sent  == s # NULL /\ sub[s].live /\ sub[s].burn
         dies  == sent /\ sub[s].user # NULL /\ ClosesAfterAnswer(sub[s].user)
         c2    == IF dies THEN do_died_co(c1, sub, s) ELSE c1
         b2    == IF dies THEN do_died_sub(sub, s) ELSE sub
     IN /\ co' = IF co[f].burn THEN [c2 EXCEPT ![f].conn = "shut"] ELSE c2
        /\ sub' = IF sent THEN [b2 EXCEPT ![s].burn = FALSE] ELSE sub
        /\ corrupt' = Dangling(f)
  /\ UNCHANGED <<usr, nConnected>>

(* read() returns 0: ape_disconnect(), then close_socket().  It frees a    *)
(* subuser that waited for it; the current connection of a subuser marks   *)
(* it dead, and a temporary user goes with it.                              *)
Disconnect(s, f) ==
  LET u  == sub[s].user
      b1 == [sub EXCEPT ![s].state = "ADIED"]
  IN IF sub[s].wait
     THEN /\ sub' = [sub EXCEPT ![s] = Freed]
          /\ UNCHANGED <<usr, nConnected>>
     ELSE IF sub[s].client # f
     THEN UNCHANGED <<sub, usr, nConnected>>
     ELSE IF u # NULL /\ usr[u].st = "tmp"
     THEN /\ sub' = delsubuser_sub(b1, SubsOf(b1, u))
          /\ usr' = [usr EXCEPT ![u] = NoUser]
          /\ nConnected' = Decremented(nConnected)
     ELSE /\ sub' = b1
          /\ UNCHANGED <<usr, nConnected>>

Hangup(f) ==
  /\ ~corrupt
  /\ co[f].conn = "shut"
  /\ corrupt' = Dangling(f)
  /\ co' = [co EXCEPT ![f] = Closed]
  /\ IF co[f].attach = NULL \/ Dangling(f)
     THEN UNCHANGED <<sub, usr, nConnected>>
     ELSE Disconnect(co[f].attach, f)

-----------------------------------------------------------------------------

Next ==
  \/ \E f \in Sockets : BadMessage(f) \/ PeerClose(f) \/ Drain(f) \/ Hangup(f)
  \/ \E f \in Sockets, k \in Kinds, h \in Hosts : Accept(f, k, h)
  \/ \E f \in Sockets, u \in Users, s \in Subs :
        \/ \E t \in Transports, r \in Replies : Connect(f, u, s, t, r)
        \/ Command(f, u, s)
        \/ CommandInline(f, u, s)
        \/ \E after \in BOOLEAN : Quit(f, u, s, after)
  \/ \E f \in Sockets, u \in Users :
        \/ \E t \in Transports, r \in Replies : ConnectTooLong(f, u, t, r)
        \/ SpeaksTooLong(f, u)
  \/ \E u \in Users :
        CompleteConnect(u) \/ CompleteConnectNull(u) \/ DelUser(u) \/ Post(u)
  \/ \E s \in Subs : IdleSub(s) \/ Flush(s)

Spec == Init /\ [][Next]_vars

(* The loop serves every socket that has an event, and the 50 ms timer     *)
(* runs check_timeout(); peers that are sent something keep reading it or  *)
(* hang up.                                                                 *)
Fairness ==
  /\ \A f \in Sockets : WF_vars(Hangup(f)) /\ WF_vars(Drain(f))
  /\ \A s \in Subs : WF_vars(Flush(s))

FairSpec == Spec /\ Fairness

-----------------------------------------------------------------------------
(* Properties.                                                             *)

(* The subusers that a session can still be served through.                 *)
Served(s) == sub[s].live /\ sub[s].user # NULL /\ sub[s].state = "ALIVE"

(* A subuser that is ALIVE is the one its connection is attached to, and   *)
(* that connection is not closed: descriptors are reused, and this is what *)
(* keeps check_timeout() from writing the raws of one session to the       *)
(* connection of another.                                                   *)
AliveAttached ==
  \A s \in Subs : Served(s) => /\ co[sub[s].client].conn # "closed"
                               /\ co[sub[s].client].attach = s

(* However requests, time-outs and hang-ups interleave, at most one of the *)
(* connections attached to a subuser is waiting: any other is on its way   *)
(* down.                                                                    *)
Waiting(f) == co[f].conn = "open" /\ ~co[f].burn
OneListener ==
  \A f, g \in Sockets :
     (f # g /\ co[f].attach # NULL /\ co[f].attach = co[g].attach)
        => ~(Waiting(f) /\ Waiting(g))

(* Time-outs, QUIT and hang-ups never take the last subuser of a user that *)
(* stays: its queue is where post_raw() puts what is sent to it (with      *)
(* none, raws would be lost and leak), and Ape.addUser() dereferences it.  *)
(* A user that never had one, whose CONNECT over too long a host was       *)
(* answered inline, has no idle stamp of a subuser (last) and stays        *)
(* temporary.                                                               *)
AlwaysASubuser ==
  \A u \in Users : usr[u].st # "none" =>
     SubsOf(sub, u) # {} \/ (usr[u].st = "tmp" /\ usr[u].last = NULL)

(* Every allocated subuser belongs to a user that exists, or waits to be   *)
(* freed and a connection that is still to be closed leads to it, so that  *)
(* ape_disconnect() will free it.  The exception is a WebSocket that drops *)
(* its pointer to a subuser that waits (a QUIT on it, or any message that  *)
(* attaches another subuser or none): parser_ready_websocket() does not    *)
(* free it, and nobody does (lost).                                         *)
Owned ==
  \A s \in Subs : sub[s].live =>
     IF sub[s].user = NULL
     THEN /\ sub[s].wait
          /\ sub[s].lost \/ \E f \in Sockets : co[f].conn # "closed" /\ co[f].attach = s
     ELSE usr[sub[s].user].st # "none"

(* A polling request with something queued for it is always finished: its  *)
(* connection is written to, drained and closed, whatever else happens to  *)
(* the session in the meantime (a second request, QUIT, a time-out).        *)
Asked(f, s) == /\ co[f].attach = s /\ sub[s].client = f /\ Flushable(s)
               /\ ClosesAfterAnswer(sub[s].user)
PollCompletes ==
  \A f \in Sockets, s \in Subs :
     Asked(f, s) ~> (co[f].conn = "closed" \/ corrupt)

(* "It's not safe to leave the subuser pointer in co->attach anymore since *)
(* subuser could subsequently be deleted, leaving a pointer into free      *)
(* heap" (cmd.c): co->attach never points to a freed subuser.               *)
AttachLive ==
  \A f \in Sockets : co[f].attach # NULL => sub[co[f].attach].live

=============================================================================
