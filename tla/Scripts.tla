------------------------------ MODULE Scripts ------------------------------
(***************************************************************************)
(* Users, channels and pipes as the scripts of the server see them:        *)
(* src/modules/libape-spidermonkey.c on top of src/src/pipe.c, extend.c,   *)
(* hash.c, users.c and channel.c.                                          *)
(*                                                                         *)
(* The server calls script functions in the middle of its own operations   *)
(* (FIRE_EVENT), and these call the server again.  todo is the C stack, as *)
(* the list of what is left to do, innermost first; an entry "on" is a     *)
(* script function that runs.  Nothing else runs meanwhile: clients are    *)
(* served only when todo is empty.  An event that is being delivered is in *)
(* fire, and one of the same kind that happens meanwhile is not delivered. *)
(*                                                                         *)
(* Identities: a user, channel or custom pipe is its own pubid and session *)
(* identifier (gen_sessid_new() draws until nobody has the identifier) and *)
(* is never reused, so that a pointer to a freed one can be told.  The two *)
(* lists that hold a membership are one relation here; Channel shows that  *)
(* they agree.  A definition Name_Fault states a plausible slip in the     *)
(* code of Name; no action uses it.                                        *)
(***************************************************************************)
EXTENDS HashTable, Extend

CONSTANTS
  Users, Chans, Customs,  \* struct USERS, CHANNEL and the pipes of scripts
  Names,                  \* channel names as callers spell them
  Keys,                   \* property names scripts use
  Installs,               \* what a server's scripts call, in groups, and the
                          \* channel names its clients and scripts use
  MaxVals,                \* bound: strings and trees made for properties
  MaxCalls                \* bound: calls made by functions inside one event

Things == Users \cup Chans \cup Customs

(* The objects of scripts: one for every user and channel, and one for     *)
(* every pipe.                                                              *)
Obj(t)  == <<"obj", t>>
Pipe(t) == <<"pipe", t>>
Objs    == {Obj(t) : t \in Users \cup Chans} \cup {Pipe(t) : t \in Things}

ASSUME KeysAssumption ==
  Keys \cap {"jsobj", "cx", "pubid", "sessid", "ip", "name"} = {}
ASSUME LowerAssumption == /\ Names \cup Things \subseteq DOMAIN Lower
                          /\ \A t \in Things : Lower[t] = t
ASSUME ThingsAssumption ==
  /\ Users \cap Chans = {} /\ Users \cap Customs = {} /\ Chans \cap Customs = {}
  /\ NULL \notin Things
ASSUME LongAssumption == {"jsobj", "cx"} \cap LongKeys = {}
ASSUME BoundsAssumption == MaxVals \in Nat /\ MaxCalls \in Nat

Groups == {"members", "channels", "users", "pipes", "values"}
ASSUME InstallsAssumption ==
  Installs \subseteq [calls : SUBSET Groups, names : SUBSET Names]

VARIABLES
  api,      \* which of Installs this server has; never changes
  state,    \* "none", "live" or "gone" (freed) for every user, channel, pipe
  istmp,    \* users CONNECT has allocated and adduser() not yet accepted
  name,     \* CHANNEL.name
  auto,     \* channels with CHANNEL_AUTODESTROY
  on,       \* memberships <<user, channel>>
  tables,   \* hPubid, hLusers and hSessid
  props,    \* the properties of users, channels and custom pipes
  heap,     \* the strings and trees allocated for properties
  js,       \* objects: "none", "alive" or "collected"
  priv,     \* JS_GetPrivate() of an object
  data,     \* transpipe.data
  roots,    \* whose "jsobj" property is a root of the garbage collector
  held,     \* custom pipes whose object scripts keep in a variable
  todo, fire,
  calls,    \* calls made by functions inside the event under way
  heard,    \* what the scripts know: users, and userslist of each channel
  unheard   \* history: whom a change was not reported of

server == <<api, state, istmp, name, auto, on, tables, props, heap>>
engine == <<js, priv, data, roots, held>>
report == <<heard, unheard>>
vars   == <<api, state, istmp, name, auto, on, tables, props, heap, js, priv,
            data, roots, held, todo, fire, calls, heard, unheard>>

Live(t)     == state[t] = "live"
Members(c)  == {u \in Users : <<u, c>> \in on}
ChansOf(u)  == {c \in Chans : <<u, c>> \in on}

Do(op, a, b) == [op |-> op, e |-> NULL, a |-> a, b |-> b]
On(e, a, b)  == [op |-> "on", e |-> e, a |-> a, b |-> b]
Over(e)      == [op |-> "over", e |-> e, a |-> NULL, b |-> NULL]

Ops    == {"join", "join_now", "left", "left_now", "rmchan", "rmchan_fire",
           "rmchan_detach", "deluser", "deluser_fire", "deluser_detach",
           "adduser", "done"}
Events == {"beforeJoin", "afterJoin", "left", "mkchan", "rmchan", "adduser",
           "deluser", "connect", "timer", "onSend"}
Kinds  == {"join", "left", "mkchan", "rmchan", "adduser", "deluser"}

TypeOK ==
  /\ api \in Installs
  /\ state \in [Things -> {"none", "live", "gone"}]
  /\ istmp \subseteq Users /\ auto \subseteq Chans
  /\ name \in [Chans -> {Lower[n] : n \in Names} \cup {NULL}]
  /\ on \subseteq Users \X Chans
  /\ DOMAIN tables = {"hPubid", "hLusers", "hSessid"}
  /\ \A t \in Things, i \in 1 .. 3 :
       i <= Len(props[t]) => props[t][i].type \in EXTEND_TYPE
  /\ heap \in [1 .. MaxVals -> {"fresh", "live", "freed"}]
  /\ js \in [Objs -> {"none", "alive", "collected"}]
  /\ priv \in [Objs -> Things \cup {NULL}]
  /\ data \in [Things -> Objs \cup {NULL}]
  /\ roots \subseteq Users \cup Chans
  /\ held \subseteq Customs
  /\ \A i \in 1 .. Len(todo) : \/ todo[i].op \in Ops
                               \/ todo[i].op = "on" /\ todo[i].e \in Events
                               \/ todo[i].op = "over" /\ todo[i].e \in Kinds
  /\ fire \subseteq Kinds
  /\ calls \in 0 .. MaxCalls
  /\ heard \in [users : SUBSET Users, list : [Chans -> SUBSET Users]]
  /\ unheard \subseteq Things

Init ==
  /\ api \in Installs
  /\ state = [t \in Things |-> "none"]
  /\ istmp = {} /\ auto = {} /\ on = {}
  /\ name = [c \in Chans |-> NULL]
  /\ tables = [h \in {"hPubid", "hLusers", "hSessid"} |-> hashtbl_init]
  /\ props = [t \in Things |-> << >>]
  /\ heap = [n \in 1 .. MaxVals |-> "fresh"]
  /\ js = [o \in Objs |-> "none"]
  /\ priv = [o \in Objs |-> NULL]
  /\ data = [t \in Things |-> NULL]
  /\ roots = {} /\ held = {}
  /\ todo = << >> /\ fire = {} /\ calls = 0
  /\ heard = [users |-> {}, list |-> [c \in Chans |-> {}]]
  /\ unheard = {}

-----------------------------------------------------------------------------
(* The C stack.                                                            *)

At(op)   == todo # << >> /\ Head(todo).op = op
This     == Head(todo).a
That     == Head(todo).b

(* Calls that have only to return do so, and events that are over end.     *)
Ends(stack) == SelectInSeq(stack, LAMBDA t : t.op \notin {"over", "done"})
Settled(stack) ==
  IF Ends(stack) = 0 THEN << >> ELSE SubSeq(stack, Ends(stack), Len(stack))
Ended(stack) ==
  {stack[i].e : i \in {j \in 1 .. Len(stack) - Len(Settled(stack)) :
                         stack[j].op = "over"}}
Run(stack, firing) ==
  /\ todo' = Settled(stack)
  /\ fire' = firing \ Ended(stack)
  /\ calls' = IF Settled(stack) = << >> THEN 0 ELSE calls
Fire(kind, new) == kind \notin fire /\ Run(new \o Tail(todo), fire \cup {kind})
Continue(new)   == Run(new \o Tail(todo), fire)

(* A call of the server from outside: by a client, by a timer or, inside a *)
(* script function, by a script.                                            *)
Idle    == todo = << >>
MayCall(group) == group \in api.calls /\ At("on") /\ calls < MaxCalls
Called(new) ==
  /\ todo' = new \o todo
  /\ calls' = IF Idle THEN 0 ELSE calls + 1

(* The users and channels that calls under way will still work on.          *)
Pinned == UNION {{todo[i].a, todo[i].b} : i \in {j \in 1 .. Len(todo) :
                                            todo[j].op \notin {"on", "over"}}}
Awaits(op, a, b) ==
  \E i \in 1 .. Len(todo) : todo[i].op = op /\ todo[i].a = a /\ todo[i].b = b
Ending(t) == \/ Awaits("rmchan_fire", t, NULL) /\ "rmchan" \in fire
             \/ Awaits("deluser_fire", t, NULL) /\ "deluser" \in fire
Deleting(u) == \E op \in {"deluser", "deluser_fire", "deluser_detach"} :
                 Awaits(op, u, NULL)

(* What scripts must not do inside an event; nothing in the code stops     *)
(* them.  They take nobody off a channel, and remove none, that a call     *)
(* under way works on or while a removal is being reported; they delete no *)
(* user a call works on, the next one of check_timeout()'s list included,  *)
(* nor anybody while a deletion is being reported; they make               *)
(* no channel while one is being reported; they accept nobody who is being *)
(* deleted, and put him on no channel that a call under way works on; they *)
(* put nobody on a channel that is at the end of its removal or that he is *)
(* leaving.                                                                 *)
MayTakeOff(c) == c \notin Pinned /\ "rmchan" \notin fire
MayDelete(u)  == /\ u \notin Pinned /\ "deluser" \notin fire
                 /\ \A c \in ChansOf(u) : MayTakeOff(c)
                 /\ "rmchan" \notin fire
MayMake       == "mkchan" \notin fire
MayAccept(u)  == ~Deleting(u)
MayJoin(u, c) == /\ ~Ending(c) /\ ~Ending(u)
                 /\ ~Awaits("left_now", u, c)
                 /\ Deleting(u) => c \notin Pinned

-----------------------------------------------------------------------------
(* Looking things up.                                                      *)

get_pipe(id)       == hashtbl_seek(tables.hPubid, id)
getchan(n)         == hashtbl_seek(tables.hLusers, n)
seek_user_id(id)   == hashtbl_seek(tables.hSessid, id)
seek_user_simple(id) == LET p == get_pipe(id) IN IF p \in Users THEN p ELSE NULL
getchanbypubid(id)   == LET p == get_pipe(id) IN IF p \in Chans THEN p ELSE NULL

-----------------------------------------------------------------------------
(* Making and freeing.                                                     *)

(* ape_cb_allocateuser() and ape_cb_mkchan(): an object for the thing,     *)
(* rooted through the property that names it, and one for its pipe.        *)
Wrapped(t) ==
  /\ props' = [props EXCEPT ![t] =
                  add_property(@, "jsobj", EXTEND_POINTER, Obj(t), FALSE)]
  /\ js' = [js EXCEPT ![Obj(t)] = "alive", ![Pipe(t)] = "alive"]
  /\ priv' = [priv EXCEPT ![Obj(t)] = t, ![Pipe(t)] = t]
  /\ data' = [data EXCEPT ![t] = Pipe(t)]
  /\ roots' = roots \cup {t}
  /\ UNCHANGED <<heap, held>>

(* The end of ape_cb_del_user() and ape_cb_rmchan(): both objects lose the *)
(* pointer, and the property is a root no longer.                           *)
Detached_NotThePipe(t) ==
  /\ priv' = [priv EXCEPT ![get_property_val(props[t], "jsobj")] = NULL]
  /\ roots' = roots \ {t}
Detached_StillRooted(t) ==
  /\ priv' = [priv EXCEPT ![get_property_val(props[t], "jsobj")] = NULL,
                          ![data[t]] = NULL]
  /\ roots' = roots
Detached(t) ==
  /\ priv' = [priv EXCEPT ![get_property_val(props[t], "jsobj")] = NULL,
                          ![data[t]] = NULL]
  /\ roots' = roots \ {t}

Free(vals) == [n \in 1 .. MaxVals |->
                 IF n \notin vals THEN heap[n]
                 ELSE IF heap[n] = "live" THEN "freed" ELSE "freed twice"]

(* init_pipe(), and the other table the thing is found in.                  *)
Entered(t, h, key) ==
  tables' = [tables EXCEPT !.hPubid = hashtbl_append(@, t, t),
                           ![h] = hashtbl_append(@, key, t)]

(* The end of rmchan() and deluser(): out of the tables, the properties    *)
(* cleared, the pipe destroyed, all of it freed.                            *)
Freed(t, h, key) ==
  /\ tables' = [tables EXCEPT ![h] = hashtbl_erase(@, key),
                              !.hPubid = hashtbl_erase(@, t)]
  /\ heap' = Free(clear_properties(props[t]))
  /\ props' = [props EXCEPT ![t] = << >>]
  /\ state' = [state EXCEPT ![t] = "gone"]
  /\ data' = [data EXCEPT ![t] = NULL]

-----------------------------------------------------------------------------
(* Joining and leaving.                                                    *)

(* ape_cb_join()                                                            *)
JoinFire ==
  /\ At("join")
  /\ Fire("join", <<On("beforeJoin", This, That), Do("join_now", This, That),
                    On("afterJoin", This, That), Over("join")>>)
  /\ UNCHANGED <<server, engine, report>>

(* join() itself; scripts/framework/userslist.js notes the newcomer first  *)
(* thing in the event that follows.                                         *)
join ==
  /\ At("join_now") \/ (At("join") /\ "join" \in fire)
  /\ on' = on \cup {<<This, That>>}
  /\ IF At("join_now")
     THEN /\ heard' = [heard EXCEPT !.list[That] = @ \cup {This}]
          /\ UNCHANGED unheard
     ELSE /\ unheard' = IF <<This, That>> \in on THEN unheard
                        ELSE unheard \cup {That}
          /\ UNCHANGED heard
  /\ Continue(<< >>)
  /\ UNCHANGED <<api, state, istmp, name, auto, tables, props, heap, engine>>

(* ape_cb_left(): userslist.js forgets the user as the event begins.        *)
LeftFire ==
  /\ At("left")
  /\ heard' = [heard EXCEPT !.list[That] = @ \ {This}]
  /\ Fire("left", <<On("left", This, That), Do("left_now", This, That),
                    Over("left")>>)
  /\ UNCHANGED <<server, engine, unheard>>

(* left() itself: the last one to leave takes an AUTODESTROY channel along. *)
LastOne(u, c) == Members(c) = {u} /\ c \in auto
left ==
  /\ At("left_now") \/ (At("left") /\ "left" \in fire)
  /\ on' = on \ {<<This, That>>}
  /\ unheard' = IF At("left") /\ <<This, That>> \in on THEN unheard \cup {That}
                ELSE unheard
  /\ Continue(IF LastOne(This, That) THEN <<Do("rmchan", That, NULL)>>
              ELSE << >>)
  /\ UNCHANGED <<api, state, istmp, name, auto, tables, props, heap, engine,
                 heard>>

-----------------------------------------------------------------------------
(* The end of a channel.  rmchan() runs twice: the event takes the place   *)
(* of the end of the first run, and its last act is the second.             *)

(* The walks of rmchan() and left_all() over the memberships there are     *)
(* when they begin; the code goes from the newest to the oldest.            *)
Leavings(us, cs) ==
  {[i \in 1 .. Len(pairs) |-> Do("left", pairs[i][1], pairs[i][2])] :
     pairs \in SetToSeqs(on \cap (us \X cs))}

(* A channel that is being emptied must not be removed by the last one     *)
(* who leaves it.                                                           *)
DontDestroy_Forgotten(c) == auto
DontDestroy(c) == IF Members(c) = {} THEN auto ELSE auto \ {c}
rmchan ==
  /\ At("rmchan")
  /\ auto' = DontDestroy(This)
  /\ \E walk \in Leavings(Users, {This}) :
       Continue(walk \o <<Do("rmchan_fire", This, NULL)>>)
  /\ UNCHANGED <<api, state, istmp, name, on, tables, props, heap, engine,
                 report>>

(* ape_cb_rmchan(): the script functions, then the rest.                    *)
RmchanFire ==
  /\ At("rmchan_fire")
  /\ Fire("rmchan", <<On("rmchan", This, NULL), Do("rmchan_detach", This, NULL),
                      Do("rmchan", This, NULL), Over("rmchan")>>)
  /\ UNCHANGED <<server, engine, report>>

RmchanDetach ==
  /\ At("rmchan_detach")
  /\ Detached(This)
  /\ Continue(<< >>)
  /\ UNCHANGED <<server, js, data, held, report>>

RmchanEnd ==
  /\ At("rmchan_fire") /\ "rmchan" \in fire
  /\ Freed(This, "hLusers", name[This])
  /\ name' = [name EXCEPT ![This] = NULL]
  /\ auto' = auto \ {This}
  /\ heard' = [heard EXCEPT !.list[This] = {}]
  /\ unheard' = unheard \ {This}
  /\ Continue(<< >>)
  /\ UNCHANGED <<api, istmp, on, js, priv, roots, held>>

-----------------------------------------------------------------------------
(* The end of a user, likewise.                                            *)

deluser ==
  /\ At("deluser")
  /\ \E walk \in Leavings({This}, Chans) :
       Continue(walk \o <<Do("deluser_fire", This, NULL)>>)
  /\ UNCHANGED <<server, engine, report>>

(* ape_cb_del_user(): scripts are not told of a user they were never told  *)
(* of.                                                                      *)
DeluserFire ==
  /\ At("deluser_fire")
  /\ IF This \in istmp THEN UNCHANGED report
     ELSE /\ heard' = [heard EXCEPT !.users = @ \ {This}]
          /\ unheard' = unheard \ {This}
  /\ Fire("deluser",
          (IF This \in istmp THEN << >> ELSE <<On("deluser", This, NULL)>>)
          \o <<Do("deluser_detach", This, NULL), Do("deluser", This, NULL),
               Over("deluser")>>)
  /\ UNCHANGED <<server, engine>>

DeluserDetach ==
  /\ At("deluser_detach")
  /\ Detached(This)
  /\ Continue(<< >>)
  /\ UNCHANGED <<server, js, data, held, report>>

DeluserEnd ==
  /\ At("deluser_fire") /\ "deluser" \in fire
  /\ Freed(This, "hSessid", This)
  /\ istmp' = istmp \ {This}
  /\ Continue(<< >>)
  /\ UNCHANGED <<api, name, auto, on, js, priv, roots, held, report>>

-----------------------------------------------------------------------------
(* A user is accepted: ape_cb_add_user(), or adduser() alone inside it.    *)

Accepted_StillTemporary(u) == istmp
Accepted(u) == istmp \ {u}
adduser ==
  /\ At("adduser")
  /\ istmp' = Accepted(This)
  /\ \/ /\ Fire("adduser", <<On("adduser", This, NULL), Over("adduser")>>)
        /\ heard' = [heard EXCEPT !.users = @ \cup {This}]
        /\ UNCHANGED unheard
     \/ /\ "adduser" \in fire
        /\ Continue(<< >>)
        /\ unheard' = unheard \cup {This}
        /\ UNCHANGED heard
  /\ UNCHANGED <<api, state, name, auto, on, tables, props, heap, engine>>

(* The script functions of an event have returned.                          *)
Return ==
  /\ At("on")
  /\ Continue(<< >>)
  /\ UNCHANGED <<server, engine, report>>

-----------------------------------------------------------------------------
(* What clients and the idle check set off, when nothing else is under way. *)

(* CONNECT allocates the user before the hooks of the command are asked.    *)
Connect(u) ==
  /\ Idle /\ state[u] = "none"
  /\ state' = [state EXCEPT ![u] = "live"]
  /\ istmp' = istmp \cup {u}
  /\ Entered(u, "hSessid", u)
  /\ Wrapped(u)
  /\ Called(<<On("connect", u, NULL), Do("adduser", u, NULL),
              Do("done", u, NULL)>>)
  /\ UNCHANGED <<api, name, auto, on, fire, report>>

(* The hook answers for CONNECT: the user stays a temporary one.            *)
Refuse ==
  /\ At("on") /\ Head(todo).e = "connect"
  /\ Run(SubSeq(todo, 3, Len(todo)), fire)
  /\ UNCHANGED <<server, engine, report>>

(* isvalidchan() turns the name into lower case where it stands; names     *)
(* here are valid ones.                                                     *)
isvalidchan(n) == Lower[n]

(* mkchan() for a name nobody uses, and what its caller goes on to do.      *)
mkchan(n, c, fl, next) ==
  /\ state[c] = "none"
  /\ state' = [state EXCEPT ![c] = "live"]
  /\ name' = [name EXCEPT ![c] = isvalidchan(n)]
  /\ auto' = auto \cup fl
  /\ Entered(c, "hLusers", isvalidchan(n))
  /\ Wrapped(c)
  /\ fire' = fire \cup {"mkchan"}
  /\ Called(<<On("mkchan", c, NULL), Over("mkchan")>> \o next)
  /\ UNCHANGED <<api, istmp, on, report>>

cmd_join(u, n) ==
  /\ Idle /\ Live(u) /\ u \notin istmp
  /\ \/ /\ getchan(n) = NULL
        /\ \E c \in Chans :
             mkchan(n, c, {c}, <<Do("join", u, c), Do("done", u, NULL)>>)
     \/ /\ getchan(n) # NULL
        /\ <<u, getchan(n)>> \notin on
        /\ Called(<<Do("join", u, getchan(n)), Do("done", u, NULL)>>)
        /\ UNCHANGED <<server, engine, fire, report>>

cmd_left(u, n) ==
  /\ Idle /\ Live(u) /\ u \notin istmp
  /\ getchan(n) # NULL /\ <<u, getchan(n)>> \in on
  /\ Called(<<Do("left", u, getchan(n)), Do("done", u, NULL)>>)
  /\ UNCHANGED <<server, engine, fire, report>>

(* QUIT; also check_timeout() on the last user of its list.                 *)
cmd_quit(u) ==
  /\ Idle /\ Live(u)
  /\ Called(<<Do("deluser", u, NULL)>>)
  /\ UNCHANGED <<server, engine, fire, report>>

(* check_timeout() on an idle user u: it took the next one of the list, w, *)
(* before it deletes u, and goes on with w when that has returned.          *)
check_timeout(u, w) ==
  /\ Idle /\ Live(u) /\ Live(w) /\ u # w
  /\ Called(<<Do("deluser", u, NULL), Do("done", w, NULL)>>)
  /\ UNCHANGED <<server, engine, fire, report>>

(* A timer of a script.  A command that a script has registered runs its   *)
(* function in the same way, but goes on with the user afterwards.          *)
Timer ==
  /\ Idle
  /\ Called(<<On("timer", NULL, NULL)>>)
  /\ UNCHANGED <<server, engine, fire, report>>

(* SEND to a custom pipe, whose object must not have been collected.        *)
cmd_send(u, p) ==
  /\ Idle /\ Live(u) /\ u \notin istmp
  /\ get_pipe(p) = p
  /\ js[data[p]] = "alive"
  /\ Called(<<On("onSend", u, p), Do("done", u, NULL)>>)
  /\ UNCHANGED <<server, engine, fire, report>>

-----------------------------------------------------------------------------
(* What scripts call, through an object o; an object without a pointer     *)
(* makes the call return at once.                                           *)

apeuser_sm_join(o1, o2) ==
  /\ MayCall("members") /\ priv[o1] # NULL /\ priv[o2] # NULL
  /\ MayJoin(priv[o1], priv[o2])
  /\ Called(<<Do("join", priv[o1], priv[o2])>>)
  /\ UNCHANGED <<server, engine, fire, report>>

apeuser_sm_left(o1, o2) ==
  /\ MayCall("members") /\ priv[o1] # NULL /\ priv[o2] # NULL
  /\ MayTakeOff(priv[o2])
  /\ Called(<<Do("left", priv[o1], priv[o2])>>)
  /\ UNCHANGED <<server, engine, fire, report>>

apeuser_sm_quit(o) ==
  /\ MayCall("users") /\ priv[o] # NULL
  /\ MayDelete(priv[o])
  /\ Called(<<Do("deluser", priv[o], NULL)>>)
  /\ UNCHANGED <<server, engine, fire, report>>

ape_sm_mkchan(n) ==
  /\ MayCall("channels") /\ MayMake
  /\ getchan(n) = NULL
  /\ \E c \in Chans : mkchan(n, c, {}, <<Do("done", c, NULL)>>)

ape_sm_rmchan(o) ==
  /\ MayCall("channels") /\ priv[o] # NULL
  /\ MayTakeOff(priv[o])
  /\ Called(<<Do("rmchan", priv[o], NULL)>>)
  /\ UNCHANGED <<server, engine, fire, report>>

ape_sm_adduser(o) ==
  /\ MayCall("users") /\ priv[o] # NULL
  /\ MayAccept(priv[o])
  /\ Called(<<Do("adduser", priv[o], NULL), Do("done", priv[o], NULL)>>)
  /\ UNCHANGED <<server, engine, fire, report>>

(* new Ape.pipe(): the object is the pipe's, and is rooted nowhere.         *)
ape_sm_pipe_constructor(p) ==
  /\ MayCall("pipes") /\ state[p] = "none"
  /\ state' = [state EXCEPT ![p] = "live"]
  /\ tables' = [tables EXCEPT !.hPubid = hashtbl_append(@, p, p)]
  /\ props' = [props EXCEPT ![p] =
                  add_property(@, "cx", EXTEND_POINTER, NULL, FALSE)]
  /\ js' = [js EXCEPT ![Pipe(p)] = "alive"]
  /\ priv' = [priv EXCEPT ![Pipe(p)] = p]
  /\ data' = [data EXCEPT ![p] = Pipe(p)]
  /\ held' = held \cup {p}
  /\ Called(<< >>)
  /\ UNCHANGED <<api, istmp, name, auto, on, heap, roots, fire, report>>

(* destroy() of a custom pipe: its properties are not cleared.              *)
apepipe_sm_destroy(p) ==
  /\ MayCall("pipes") /\ priv[Pipe(p)] # NULL
  /\ priv' = [priv EXCEPT ![Pipe(p)] = NULL]
  /\ tables' = [tables EXCEPT !.hPubid = hashtbl_erase(@, p)]
  /\ state' = [state EXCEPT ![p] = "gone"]
  /\ props' = [props EXCEPT ![p] = << >>]
  /\ data' = [data EXCEPT ![p] = NULL]
  /\ Called(<< >>)
  /\ UNCHANGED <<api, istmp, name, auto, on, heap, js, roots, held, fire, report>>

(* setProperty(): a string is copied, a tree made from an object is handed *)
(* over.  delProperty() deletes nothing: it asks the engine for a kind of  *)
(* argument the engine does not have, and returns.                          *)
NewVal == CHOOSE n \in 1 .. MaxVals : /\ heap[n] = "fresh"
                                      /\ \A i \in 1 .. n - 1 : heap[i] # "fresh"

SetProperty(t, key, type) ==
  LET old == IF key \in LongKeys THEN {} ELSE Dropped(props[t], key)
      new == IF key \in LongKeys /\ type = EXTEND_STR THEN {} ELSE {NewVal}
  IN /\ \E n \in 1 .. MaxVals : heap[n] = "fresh"
     /\ props' = [props EXCEPT ![t] = add_property(@, key, type, NewVal, TRUE)]
     /\ heap' = [n \in 1 .. MaxVals |->
                    IF n \in new THEN "live" ELSE Free(old)[n]]
     /\ Called(<< >>)
     /\ UNCHANGED <<api, state, istmp, name, auto, on, tables, engine, fire,
                    report>>

apeuser_sm_set_property(o, key, type) ==
  /\ MayCall("values") /\ priv[o] # NULL
  /\ SetProperty(priv[o], key, type)

apechannel_sm_set_property(o, key, type) ==
  /\ MayCall("values") /\ priv[o] # NULL
  /\ SetProperty(priv[o], key, type)

(* Through the pipe of a user or channel it is the property of that user   *)
(* or channel that is set.                                                  *)
apepipe_sm_set_property(o, key, type) ==
  /\ MayCall("values") /\ priv[o] # NULL
  /\ SetProperty(priv[o], key, type)

-----------------------------------------------------------------------------
(* What scripts and clients are shown.                                     *)

apeuser_sm_get_property(u, key)    == Value(props[u], key)
apechannel_sm_get_property(c, key) == Value(props[c], key)
apepipe_sm_get_property(p, key)    == Value(props[p], key)  \* of a custom pipe

get_json_object_user(u)        == Shown(props[u])
get_json_object_channel(c)     == Shown(props[c]) \cup {<<"name", name[c]>>}
get_json_object_pipe_custom(p) == Shown(props[p])

(* The object found through the property of a user or channel, or through  *)
(* the pipe.                                                                *)
JsObj(t) == IF t = NULL THEN NULL ELSE get_property_val(props[t], "jsobj")
ape_sm_get_user_by_pubid(id)    == JsObj(seek_user_simple(id))
ape_sm_get_channel_by_pubid(id) == JsObj(getchanbypubid(id))
ape_sm_get_channel_by_name(n)   == JsObj(getchan(n))
get_pipe_object(id) == LET p == get_pipe(id) IN IF p = NULL THEN NULL ELSE data[p]

(* Scripts let go of the object of a custom pipe, or fetch it again.        *)
LetGo(p) ==
  /\ MayCall("pipes") /\ p \in held
  /\ held' = held \ {p}
  /\ UNCHANGED <<server, js, priv, data, roots, todo, fire, calls, report>>

ape_sm_get_pipe(p) ==
  /\ MayCall("pipes") /\ p \notin held
  /\ get_pipe_object(p) # NULL /\ js[get_pipe_object(p)] = "alive"
  /\ held' = held \cup {p}
  /\ UNCHANGED <<server, js, priv, data, roots, todo, fire, calls, report>>

(* The garbage collector, external: what neither a root, a variable nor a  *)
(* running function reaches is collected.  The object of a user or channel *)
(* has the one of its pipe as a property.  An object that has not been     *)
(* collected yet stands for one that a script keeps; one without a pointer *)
(* is of no use to anybody and stays as it is.                              *)
Reached ==
  LET params == UNION {{Obj(todo[i].a), Obj(todo[i].b), Pipe(todo[i].b)} :
                         i \in {j \in 1 .. Len(todo) : todo[j].op = "on"}}
      rooted == {get_property_val(props[t], "jsobj") : t \in roots}
      direct == params \cup rooted \cup {Pipe(p) : p \in held}
  IN  direct \cup {Pipe(o[2]) : o \in direct}

GC ==
  LET lost == {o \in Objs \ Reached : js[o] = "alive" /\ priv[o] # NULL}
  IN /\ At("on")
     /\ lost # {}
     /\ js' = [o \in Objs |-> IF o \in lost THEN "collected" ELSE js[o]]
     /\ UNCHANGED <<server, priv, data, roots, held, todo, fire, calls, report>>

Usable == {o \in Objs : js[o] = "alive"}

Next ==
  \/ JoinFire \/ join \/ LeftFire \/ left
  \/ rmchan \/ RmchanFire \/ RmchanDetach \/ RmchanEnd
  \/ deluser \/ DeluserFire \/ DeluserDetach \/ DeluserEnd
  \/ adduser \/ Return \/ Refuse \/ Timer
  \/ \E u \in Users : Connect(u) \/ cmd_quit(u)
  \/ \E u, w \in Users : check_timeout(u, w)
  \/ \E u \in Users, n \in api.names : cmd_join(u, n) \/ cmd_left(u, n)
  \/ \E u \in Users, p \in Customs : cmd_send(u, p)
  \/ \E u \in {v \in Users : Obj(v) \in Usable} :
       \/ apeuser_sm_quit(Obj(u)) \/ ape_sm_adduser(Obj(u))
       \/ \E c \in {d \in Chans : Obj(d) \in Usable} :
            apeuser_sm_join(Obj(u), Obj(c)) \/ apeuser_sm_left(Obj(u), Obj(c))
  \/ \E n \in api.names : ape_sm_mkchan(n)
  \/ \E c \in Chans : Obj(c) \in Usable /\ ape_sm_rmchan(Obj(c))
  \/ \E p \in Customs :
       \/ ape_sm_pipe_constructor(p) \/ LetGo(p) \/ ape_sm_get_pipe(p)
       \/ (Pipe(p) \in Usable /\ apepipe_sm_destroy(p))
  \/ \E key \in Keys, type \in {EXTEND_STR, EXTEND_JSON} :
       \/ \E o \in Usable \cap {Obj(u) : u \in Users} :
            apeuser_sm_set_property(o, key, type)
       \/ \E o \in Usable \cap {Obj(c) : c \in Chans} :
            apechannel_sm_set_property(o, key, type)
       \/ \E o \in Usable \cap {Pipe(t) : t \in Things} :
            apepipe_sm_set_property(o, key, type)
  \/ GC

Spec == Init /\ [][Next]_vars

-----------------------------------------------------------------------------
(* Properties.                                                             *)

(* The tables find exactly what exists: a pubid every pipe, a name every   *)
(* channel, whatever its case, a session identifier every user.            *)
TablesExact ==
  LET live(S) == {t \in S : Live(t)}
      named   == {name[c] : c \in live(Chans)}
  IN  /\ IsMap(tables.hPubid, [t \in live(Things) |-> t])
      /\ IsMap(tables.hSessid, [u \in live(Users) |-> u])
      /\ IsMap(tables.hLusers,
               [n \in named |-> CHOOSE c \in live(Chans) : name[c] = n])

(* Whatever object a script still has, calling it never reaches a freed    *)
(* user, channel or pipe.                                                   *)
HandlesLive ==
  \A o \in Usable : priv[o] # NULL => Live(priv[o])

(* A lookup by pubid or name finds the object of the user, channel or pipe *)
(* asked for exactly when there is one, and the object has not been        *)
(* collected, unless it is that of a custom pipe no script keeps.  The     *)
(* collector never looks for a root inside a freed property.                *)
ObjectsKept ==
  /\ \A t \in Things :
       /\ ape_sm_get_user_by_pubid(t)
            = IF t \in Users /\ Live(t) THEN Obj(t) ELSE NULL
       /\ ape_sm_get_channel_by_pubid(t)
            = IF t \in Chans /\ Live(t) THEN Obj(t) ELSE NULL
       /\ get_pipe_object(t) = IF Live(t) THEN Pipe(t) ELSE NULL
       /\ Live(t) /\ (t \in Customs => t \in held) => js[Pipe(t)] = "alive"
       /\ Live(t) /\ t \notin Customs => js[Obj(t)] = "alive"
  /\ \A c \in Chans : Live(c) => ape_sm_get_channel_by_name(name[c]) = Obj(c)
  /\ \A t \in roots : Live(t)

(* As long as scripts keep to the rules above, a call that goes on after   *)
(* their functions have run still works on users and channels that exist:  *)
(* the member who leaves and his channel, who is deleted and, in the idle  *)
(* check, the next user to look at.                                         *)
PinnedLive == \A t \in Pinned \cap Things : Live(t)

(* userslist.js and a list kept from adduser and deluser are right when    *)
(* the server is idle, but for what happened inside an event of its kind.   *)
ListsHeard ==
  Idle => /\ heard.users \ unheard
               = {u \in Users : Live(u) /\ u \notin istmp} \ unheard
          /\ \A c \in Chans \ unheard : Live(c) => heard.list[c] = Members(c)

(* Every string and tree belongs to one property at most, is live as long  *)
(* as the property is there and is never freed twice (whether it is freed  *)
(* at all is not asked here); and what clients are shown of a user,        *)
(* channel or pipe is what getProperty() answers: one value for a key, and *)
(* never a pointer.                                                         *)
PropertiesKept ==
  /\ \A n \in 1 .. MaxVals : heap[n] # "freed twice"
  /\ \A t \in Things : \A n \in Owned(props[t]) : heap[n] = "live"
  /\ \A t, v \in Things : t # v => Owned(props[t]) \cap Owned(props[v]) = {}
  /\ \A t \in {v \in Things : Live(v)}, key \in Keys \cup {"jsobj", "cx"} :
       LET shown(view) == {s[2] : s \in {x \in view : x[1] = key}}
       IN  /\ t \in Users =>
                shown(get_json_object_user(t)) = apeuser_sm_get_property(t, key)
           /\ t \in Chans => shown(get_json_object_channel(t))
                               = apechannel_sm_get_property(t, key)
           /\ t \in Customs => shown(get_json_object_pipe_custom(t))
                                 = apepipe_sm_get_property(t, key)

=============================================================================
