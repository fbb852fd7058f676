--------------------------- MODULE SessionProofs ---------------------------
(***************************************************************************)
(* Proofs about Session, for every number of sockets, subusers and users   *)
(* and every choice of transports and hook replies.                        *)
(*                                                                         *)
(* A handler changes the sockets and the subusers several times before it  *)
(* returns.  The invariant is therefore a predicate of given tables c of   *)
(* sockets, b of subusers and us of users; the lemmas say what each        *)
(* building block does to it, and the actions put them together.           *)
(***************************************************************************)
EXTENDS Session, TLAPS

USE NullAssumption

Typed(c, b, us) ==
  /\ c \in [Sockets -> SocketState]
  /\ b \in [Subs -> SubState]
  /\ us \in [Users -> UserState]

Wait(c, f) == c[f].conn = "open" /\ ~c[f].burn
Held(b, s) == b[s].live /\ b[s].user # NULL

(* The parts of the invariant that concern the tables of users and         *)
(* subusers: who belongs to whom.                                           *)
OwnedIn(b, us) ==
  \A s \in Subs : b[s].live =>
     IF b[s].user = NULL THEN b[s].wait ELSE us[b[s].user].st # "none"
(* The subuser with the latest stamp is the user's own; a temporary user   *)
(* may have none, when its host was too long for a subuser.                 *)
LastHeld(b, us) ==
  \A u \in Users : us[u].st # "none" =>
     \/ us[u].last \in Subs /\ b[us[u].last].live /\ b[us[u].last].user = u
     \/ us[u].st = "tmp" /\ us[u].last = NULL
(* A temporary user has no other subuser than the first.                    *)
TmpAlone(b, us) ==
  \A s \in Subs : Held(b, s) /\ us[b[s].user].st = "tmp" => s = us[b[s].user].last
(* One that waits to be freed has no user any more.                         *)
Orphaned(b) == \A s \in Subs : Held(b, s) => ~b[s].wait
ClientKnown(b) == \A s \in Subs : b[s].live => b[s].client \in Sockets

(* The parts that concern sockets and the subusers they are attached to.   *)
(* A request finds its socket unattached.                                   *)
Unattached(c) ==
  \A f \in Sockets : c[f].kind = "http" /\ ~c[f].done => c[f].attach = NULL
(* A socket is attached to subusers of its own kind of transport only.      *)
KindAgrees(c, b, us) ==
  \A f \in Sockets, s \in Subs :
     c[f].attach = s /\ Held(b, s)
        => (c[f].kind = "ws" <=> us[b[s].user].transport = "ws")
AliveIn(c, b) ==
  \A s \in Subs : Held(b, s) /\ b[s].state = "ALIVE"
     => c[b[s].client].conn # "closed" /\ c[b[s].client].attach = s
(* A connection that waits is the client of the subuser it is attached to, *)
(* which is ALIVE; so is every WebSocket attached to a user's subuser.      *)
Listener(c, b) ==
  \A f \in Sockets, s \in Subs :
     c[f].attach = s /\ (Wait(c, f) \/ (c[f].kind = "ws" /\ Held(b, s)))
        => Held(b, s) /\ b[s].state = "ALIVE" /\ b[s].client = f

OkUsers(b, us) ==
  OwnedIn(b, us) /\ LastHeld(b, us) /\ TmpAlone(b, us) /\ Orphaned(b) /\ ClientKnown(b)
OkSockets(c, b, us) ==
  Unattached(c) /\ KindAgrees(c, b, us) /\ AliveIn(c, b) /\ Listener(c, b)
Ok(c, b, us) == OkUsers(b, us) /\ OkSockets(c, b, us)

(* A subuser without a user that no WebSocket has dropped: a connection    *)
(* that is still to be closed leads to it, except, in the middle of a      *)
(* message, to the one that is about to be attached.                        *)
Orphan(b, s) == b[s].live /\ b[s].user = NULL /\ ~b[s].lost
Led(c, s) == \E f \in Sockets : c[f].conn # "closed" /\ c[f].attach = s
ReachedBut(c, b, a) == \A s \in Subs : Orphan(b, s) /\ s # a => Led(c, s)
Reached(c, b) == \A s \in Subs : Orphan(b, s) => Led(c, s)

(* The inductive invariant.                                                 *)
SInv == TypeOK /\ Ok(co, sub, usr) /\ Reached(co, sub)

-----------------------------------------------------------------------------
(* Writing to a socket and shutting it down keep its attachment and never  *)
(* make it wait again.                                                      *)
Quiet(c, d, f) ==
  /\ d[f].kind = c[f].kind /\ d[f].done = c[f].done /\ d[f].attach = c[f].attach
  /\ d[f].host = c[f].host
  /\ d[f].conn = "closed" <=> c[f].conn = "closed"
  /\ Wait(d, f) => Wait(c, f)
Quieter(c, d) == \A f \in Sockets : Quiet(c, d, f)

LEMMA QuieterTrans ==
  ASSUME NEW c, NEW d, NEW e, Quieter(c, d), Quieter(d, e)
  PROVE  Quieter(c, e)
  BY DEF Quieter, Quiet

LEMMA Shutdown ==
  ASSUME NEW c \in [Sockets -> SocketState], NEW F
  PROVE  /\ safe_shutdown(c, F) \in [Sockets -> SocketState]
         /\ Quieter(c, safe_shutdown(c, F))
         /\ \A f \in Sockets : f \in F => ~Wait(safe_shutdown(c, F), f)
<1> DEFINE d == safe_shutdown(c, F)
<1>1. ASSUME NEW f \in Sockets
      PROVE  d[f] \in SocketState /\ Quiet(c, d, f) /\ (f \in F => ~Wait(d, f))
  <2>1. d[f] = IF f \notin F \/ c[f].conn # "open" THEN c[f]
               ELSE IF c[f].out THEN [c[f] EXCEPT !.burn = TRUE]
               ELSE [c[f] EXCEPT !.conn = "shut"]
    BY DEF safe_shutdown
  <2>2. c[f] \in SocketState
    OBVIOUS
  <2> HIDE DEF d
  <2>3. CASE f \notin F \/ c[f].conn # "open"
    BY <2>1, <2>2, <2>3 DEF Quiet, Wait
  <2>4. CASE f \in F /\ c[f].conn = "open" /\ c[f].out
    <3>1. d[f] = [c[f] EXCEPT !.burn = TRUE]
      BY <2>1, <2>4
    <3>2. d[f] \in SocketState
      BY <2>2, <3>1 DEF SocketState
    <3>3. /\ d[f].burn /\ d[f].conn = c[f].conn /\ d[f].kind = c[f].kind /\ d[f].done = c[f].done
          /\ d[f].attach = c[f].attach /\ d[f].host = c[f].host
      BY <2>2, <3>1 DEF SocketState
    <3> QED
      BY <3>2, <3>3 DEF Quiet, Wait
  <2>5. CASE f \in F /\ c[f].conn = "open" /\ ~c[f].out
    <3>1. d[f] = [c[f] EXCEPT !.conn = "shut"]
      BY <2>1, <2>5
    <3> QED
      BY <2>2, <2>5, <3>1 DEF Quiet, Wait, SocketState
  <2> QED
    BY <2>3, <2>4, <2>5
<1>2. d = [f \in Sockets |-> d[f]]
  BY DEF safe_shutdown
<1> HIDE DEF d
<1>3. d \in [Sockets -> SocketState]
  BY <1>1, <1>2
<1> QED
  BY <1>1, <1>3 DEF Quieter, d

LEMMA Written ==
  ASSUME NEW c \in [Sockets -> SocketState], NEW f \in Sockets, NEW slow \in BOOLEAN
  PROVE  /\ sendbin(c, f, slow) \in [Sockets -> SocketState]
         /\ Quieter(c, sendbin(c, f, slow))
<1>1. CASE c[f].conn = "open"
  <2> DEFINE d == [c EXCEPT ![f].out = @ \/ slow]
  <2>1. c[f] \in SocketState /\ (c[f].out \/ slow) \in BOOLEAN
    BY DEF SocketState
  <2>2. d \in [Sockets -> SocketState]
    BY <2>1 DEF SocketState
  <2>3. Quieter(c, d)
    BY <2>1 DEF Quieter, Quiet, Wait, SocketState
  <2> QED
    BY <1>1, <2>2, <2>3 DEF sendbin
<1>2. CASE c[f].conn # "open"
  BY <1>2 DEF sendbin, Quieter, Quiet
<1> QED
  BY <1>1, <1>2

(* ... so they keep the invariant.                                          *)
LEMMA QuietOk ==
  ASSUME NEW c, NEW b, NEW us, Typed(c, b, us), Ok(c, b, us),
         NEW d \in [Sockets -> SocketState], Quieter(c, d)
  PROVE  Ok(d, b, us)
<1>1. Unattached(d)
  BY DEF Ok, OkSockets, Unattached, Quieter, Quiet
<1>2. KindAgrees(d, b, us)
  BY DEF Ok, OkSockets, KindAgrees, Quieter, Quiet
<1>3. AliveIn(d, b)
  BY DEF Ok, OkSockets, OkUsers, ClientKnown, AliveIn, Quieter, Quiet, Held
<1>4. Listener(d, b)
  BY DEF Ok, OkSockets, Listener, Quieter, Quiet
<1> QED
  BY <1>1, <1>2, <1>3, <1>4 DEF Ok, OkSockets

(* Queueing raws and noting that a write was partial concern nobody else.   *)
SameOwner(b, e, s) ==
  e[s].live = b[s].live /\ e[s].user = b[s].user /\ e[s].wait = b[s].wait
Alike(b, e, s) == SameOwner(b, e, s) /\ e[s].client = b[s].client
SameSubs(b, e) ==
  \A s \in Subs : Alike(b, e, s) /\ e[s].state = b[s].state /\ e[s].lost = b[s].lost

(* What is led to stays so when sockets only get quieter and no subuser    *)
(* loses its user.                                                          *)
NoNewOrphan(b, e) == \A s \in Subs : Orphan(e, s) => Orphan(b, s)

LEMMA ReachKept ==
  ASSUME NEW c, NEW b, NEW d, NEW e, Reached(c, b), Quieter(c, d), NoNewOrphan(b, e)
  PROVE  Reached(d, e)
<1> SUFFICES ASSUME NEW s \in Subs, Orphan(e, s) PROVE Led(d, s)
  BY DEF Reached
<1>1. PICK f \in Sockets : c[f].conn # "closed" /\ c[f].attach = s
  BY DEF Reached, NoNewOrphan, Led
<1> QED
  BY <1>1 DEF Led, Quieter, Quiet

LEMMA QuietReached ==
  ASSUME NEW c, NEW b, NEW d, Reached(c, b), Quieter(c, d)
  PROVE  Reached(d, b)
  BY ReachKept DEF NoNewOrphan

LEMMA SameReached ==
  ASSUME NEW c, NEW b, NEW e, Reached(c, b), SameSubs(b, e)
  PROVE  Reached(c, e)
<1>1. Quieter(c, c)
  BY DEF Quieter, Quiet
<1>2. NoNewOrphan(b, e)
  BY DEF NoNewOrphan, SameSubs, Alike, SameOwner, Orphan
<1> QED
  BY <1>1, <1>2, ReachKept

LEMMA OwnerUsers ==
  ASSUME NEW b, NEW e, NEW us, OkUsers(b, us), \A s \in Subs : SameOwner(b, e, s),
         ClientKnown(e)
  PROVE  OkUsers(e, us)
<1>1. OwnedIn(e, us)
  BY DEF OkUsers, OwnedIn, SameOwner
<1>2. LastHeld(e, us)
  BY DEF OkUsers, LastHeld, SameOwner
<1>3. TmpAlone(e, us)
  BY DEF OkUsers, TmpAlone, SameOwner, Held
<1>4. Orphaned(e)
  BY DEF OkUsers, Orphaned, SameOwner, Held
<1> QED
  BY <1>1, <1>2, <1>3, <1>4 DEF OkUsers

LEMMA AlikeUsers ==
  ASSUME NEW b, NEW e, NEW us, OkUsers(b, us), \A s \in Subs : Alike(b, e, s)
  PROVE  OkUsers(e, us)
<1>1. ClientKnown(e)
  BY DEF OkUsers, ClientKnown, Alike, SameOwner
<1> QED
  BY <1>1, OwnerUsers DEF Alike

LEMMA SameOk ==
  ASSUME NEW c, NEW b, NEW us, NEW e, Ok(c, b, us), SameSubs(b, e)
  PROVE  Ok(c, e, us)
<1>1. OkUsers(e, us)
  BY AlikeUsers DEF Ok, SameSubs
<1>2. KindAgrees(c, e, us)
  BY DEF Ok, OkSockets, KindAgrees, SameSubs, Alike, SameOwner, Held
<1>3. AliveIn(c, e) /\ Listener(c, e)
  BY DEF Ok, OkSockets, AliveIn, Listener, SameSubs, Alike, SameOwner, Held
<1> QED
  BY <1>1, <1>2, <1>3 DEF Ok, OkSockets

(* Subusers of S lose their user: each is freed or waits to be.  us2 is    *)
(* the table of users that is left; nobody waits on a socket attached to   *)
(* one of them.                                                             *)
Released(c, b, us, d, S, e, us2) ==
  /\ S \in SUBSET Subs
  /\ \A s \in Subs \ S : e[s] = b[s]
  /\ \A s \in S : e[s].live => e[s].user = NULL /\ e[s].wait /\ e[s].client \in Sockets
  /\ \A f \in Sockets : c[f].attach \in S => ~Wait(d, f)
  /\ \A u \in Users : us2[u].st # "none" => us2[u] = us[u] /\ us[u].last \notin S
  /\ \A s \in Subs \ S : Held(b, s) => us2[b[s].user] = us[b[s].user]

LEMMA ReleaseOk ==
  ASSUME NEW c, NEW b, NEW us, Typed(c, b, us), Ok(c, b, us),
         NEW d \in [Sockets -> SocketState], Quieter(c, d),
         NEW S, NEW e, NEW us2, Released(c, b, us, d, S, e, us2)
  PROVE  Ok(d, e, us2)
<1> USE DEF Released
<1>0. \A s \in Subs : Held(e, s) => s \notin S /\ e[s] = b[s] /\ Held(b, s)
  BY DEF Held
<1>1. OwnedIn(e, us2)
  <2> SUFFICES ASSUME NEW s \in Subs, e[s].live
               PROVE  IF e[s].user = NULL THEN e[s].wait ELSE us2[e[s].user].st # "none"
    BY DEF OwnedIn
  <2>1. CASE s \in S
    BY <2>1
  <2>2. CASE s \notin S
    BY <2>2 DEF Ok, OkUsers, OwnedIn, Held
  <2> QED
    BY <2>1, <2>2
<1>2. LastHeld(e, us2)
  BY DEF Ok, OkUsers, LastHeld
<1>3. TmpAlone(e, us2)
  <2> SUFFICES ASSUME NEW s \in Subs, Held(e, s), us2[e[s].user].st = "tmp"
               PROVE  s = us2[e[s].user].last
    BY DEF TmpAlone
  <2>1. e[s] = b[s] /\ Held(b, s) /\ us2[b[s].user] = us[b[s].user]
    BY <1>0
  <2> QED
    BY <2>1 DEF Ok, OkUsers, TmpAlone
<1>4. Orphaned(e)
  BY <1>0 DEF Ok, OkUsers, Orphaned
<1>5. ClientKnown(e)
  BY DEF Ok, OkUsers, ClientKnown
<1>6. Unattached(d)
  BY DEF Ok, OkSockets, Unattached, Quieter, Quiet
<1>7. KindAgrees(d, e, us2)
  <2> SUFFICES ASSUME NEW f \in Sockets, NEW s \in Subs, d[f].attach = s, Held(e, s)
               PROVE  d[f].kind = "ws" <=> us2[e[s].user].transport = "ws"
    BY DEF KindAgrees
  <2>1. e[s] = b[s] /\ Held(b, s) /\ us2[b[s].user] = us[b[s].user]
    BY <1>0
  <2>2. c[f].attach = s /\ d[f].kind = c[f].kind
    BY DEF Quieter, Quiet
  <2> QED
    BY <2>1, <2>2 DEF Ok, OkSockets, KindAgrees
<1>8. AliveIn(d, e)
  <2> SUFFICES ASSUME NEW s \in Subs, Held(e, s), e[s].state = "ALIVE"
               PROVE  d[e[s].client].conn # "closed" /\ d[e[s].client].attach = s
    BY DEF AliveIn
  <2>1. e[s] = b[s] /\ Held(b, s)
    BY <1>0
  <2>2. b[s].client \in Sockets
    BY <2>1 DEF Ok, OkUsers, ClientKnown, Held
  <2> QED
    BY <2>1, <2>2 DEF Ok, OkSockets, AliveIn, Quieter, Quiet
<1>9. Listener(d, e)
  <2> SUFFICES ASSUME NEW f \in Sockets, NEW s \in Subs, d[f].attach = s,
                      Wait(d, f) \/ (d[f].kind = "ws" /\ Held(e, s))
               PROVE  Held(e, s) /\ e[s].state = "ALIVE" /\ e[s].client = f
    BY DEF Listener
  <2>1. c[f].attach = s /\ d[f].kind = c[f].kind /\ (Wait(d, f) => Wait(c, f))
    BY DEF Quieter, Quiet
  <2>2. s \notin S /\ e[s] = b[s]
    BY <1>0, <2>1
  <2>3. Held(e, s) <=> Held(b, s)
    BY <2>2 DEF Held
  <2> QED
    BY <2>1, <2>2, <2>3 DEF Ok, OkSockets, Listener
<1> QED
  BY <1>1, <1>2, <1>3, <1>4, <1>5, <1>6, <1>7, <1>8, <1>9 DEF Ok, OkUsers, OkSockets

(* delsubuser() of S, with x what the subusers of S were before one of     *)
(* them may have been woken.                                                *)
Deletable(b, S, x) ==
  /\ S \in SUBSET Subs /\ \A s \in S : Held(b, s)
  /\ x \in [Subs -> SubState]
  /\ \A s \in Subs \ S : x[s] = b[s]
  /\ \A s \in S : Alike(b, x, s) /\ (b[s].state = "ALIVE" => x[s].state = "ALIVE")
Deleted(c, b, S, x, d, e) ==
  /\ e \in [Subs -> SubState]
  /\ d \in [Sockets -> SocketState]
  /\ Quieter(c, d)
  /\ \A s \in Subs \ S : e[s] = b[s]
  /\ \A s \in S : e[s].live => e[s].user = NULL /\ e[s].wait /\ e[s].client \in Sockets
  /\ \A s \in S : ~Held(e, s)
  /\ \A f \in Sockets : c[f].attach \in S => ~Wait(d, f)
  /\ \A s \in S : x[s].state = "ALIVE" => ~Wait(d, b[s].client)
  /\ \A s \in S : e[s].live => x[s].state = "ALIVE"

LEMMA DelSubs ==
  ASSUME NEW c, NEW b, NEW us, Typed(c, b, us), Ok(c, b, us), NEW S, NEW x, Deletable(b, S, x)
  PROVE  Deleted(c, b, S, x, delsubuser_co(c, x, S), delsubuser_sub(x, S))
<1> USE DEF Deletable
<1> DEFINE e == delsubuser_sub(x, S)
           d == delsubuser_co(c, x, S)
           F == Clients(x, Alive(x, S))
<1>1. c \in [Sockets -> SocketState] /\ d = safe_shutdown(c, F)
  BY DEF Typed, delsubuser_co
<1>2. d \in [Sockets -> SocketState] /\ Quieter(c, d) /\ \A f \in Sockets : f \in F => ~Wait(d, f)
  <2> HIDE DEF F
  <2> QED
    BY <1>1, Shutdown
<1>3. \A s \in S : x[s].state = "ALIVE" => b[s].client \in F /\ b[s].client \in Sockets
  BY DEF Clients, Alive, Alike, SameOwner, Ok, OkUsers, ClientKnown, Held
<1>4. ASSUME NEW f \in Sockets, c[f].attach \in S PROVE ~Wait(d, f)
  <2>1. Wait(c, f) => b[c[f].attach].state = "ALIVE" /\ b[c[f].attach].client = f
    BY <1>4 DEF Ok, OkSockets, Listener
  <2>2. Wait(d, f) => Wait(c, f)
    BY <1>2 DEF Quieter, Quiet
  <2> QED
    BY <1>2, <1>3, <1>4, <2>1, <2>2
<1>5. \A s \in Subs : e[s] = IF s \notin S THEN x[s]
                             ELSE IF x[s].state = "ALIVE"
                             THEN [x[s] EXCEPT !.user = NULL, !.wait = TRUE, !.state = "ADIED",
                                               !.pend = FALSE]
                             ELSE Freed
  BY DEF delsubuser_sub
<1>6. Freed \in SubState /\ ~Freed.live
  BY DEF Freed, SubState
<1>7. ASSUME NEW s \in Subs
      PROVE  /\ e[s] \in SubState
             /\ s \in S /\ e[s].live => /\ e[s].user = NULL /\ e[s].wait /\ e[s].client \in Sockets
                                        /\ x[s].state = "ALIVE"
  <2>1. CASE s \notin S
    BY <1>5, <2>1
  <2>2. CASE s \in S /\ x[s].state = "ALIVE"
    <3>1. e[s] = [x[s] EXCEPT !.user = NULL, !.wait = TRUE, !.state = "ADIED", !.pend = FALSE]
      BY <1>5, <2>2
    <3>2. e[s] \in SubState
      BY <3>1 DEF SubState
    <3>3. e[s].user = NULL /\ e[s].wait /\ e[s].client = x[s].client
      BY <3>1 DEF SubState
    <3>4. x[s].client \in Sockets
      BY <1>3, <2>2 DEF Alike, SameOwner
    <3> QED
      BY <2>2, <3>2, <3>3, <3>4
  <2>3. CASE s \in S /\ x[s].state # "ALIVE"
    <3>1. e[s] = Freed
      BY <1>5, <2>3
    <3> QED
      BY <1>6, <3>1
  <2> QED
    BY <2>1, <2>2, <2>3
<1>8. e \in [Subs -> SubState]
  <2>1. e = [s \in Subs |-> e[s]]
    BY DEF delsubuser_sub
  <2> HIDE DEF e
  <2> QED
    BY <1>7, <2>1
<1>9. \A s \in Subs \ S : e[s] = b[s]
  BY <1>5
<1>10. \A s \in S : ~Held(e, s)
  BY <1>7 DEF Held
<1>11. \A s \in S : x[s].state = "ALIVE" => ~Wait(d, b[s].client)
  BY <1>2, <1>3
<1> HIDE DEF d, e
<1> QED
  BY <1>2, <1>4, <1>7, <1>8, <1>9, <1>10, <1>11 DEF Deleted, d, e

(* Those that wait to be freed were served, so their socket leads to them; *)
(* a, which has just been woken, is yet to be attached.                     *)
LEMMA DeletedReached ==
  ASSUME NEW c, NEW b, NEW us, Typed(c, b, us), Ok(c, b, us), Reached(c, b),
         NEW S, NEW x, NEW d, NEW e, Deletable(b, S, x), Deleted(c, b, S, x, d, e),
         NEW a, \A s \in S : x[s].state = "ALIVE" => b[s].state = "ALIVE" \/ s = a
  PROVE  ReachedBut(d, e, a)
<1> SUFFICES ASSUME NEW s \in Subs, Orphan(e, s), s # a PROVE Led(d, s)
  BY DEF ReachedBut
<1>1. Led(c, s)
  <2>1. CASE s \in S
    <3>1. Held(b, s) /\ b[s].state = "ALIVE"
      BY <2>1 DEF Deletable, Deleted, Orphan
    <3>2. b[s].client \in Sockets
      BY <3>1 DEF Ok, OkUsers, ClientKnown, Held
    <3> QED
      BY <3>1, <3>2 DEF Ok, OkSockets, AliveIn, Led
  <2>2. CASE s \notin S
    BY <2>2 DEF Deleted, Reached, Orphan
  <2> QED
    BY <2>1, <2>2
<1> QED
  BY <1>1 DEF Led, Deleted, Quieter, Quiet

(* deluser(): all the subusers of u go, and u with them.                    *)
LEMMA DelUserOk ==
  ASSUME NEW c, NEW b, NEW us, Typed(c, b, us), Ok(c, b, us),
         NEW d \in [Sockets -> SocketState], Quieter(c, d),
         NEW u \in Users, NEW e, \A s \in Subs \ SubsOf(b, u) : e[s] = b[s],
         \A s \in SubsOf(b, u) : e[s].live => e[s].user = NULL /\ e[s].wait /\ e[s].client \in Sockets,
         \A f \in Sockets : c[f].attach \in SubsOf(b, u) => ~Wait(d, f)
  PROVE  Ok(d, e, [us EXCEPT ![u] = NoUser])
<1> DEFINE us2 == [us EXCEPT ![u] = NoUser]
           S == SubsOf(b, u)
<1>1. us \in [Users -> UserState]
  BY DEF Typed
<1>2. \A v \in Users : us2[v] = IF v = u THEN NoUser ELSE us[v]
  BY <1>1
<1>3. NoUser.st = "none"
  BY DEF NoUser
<1>4. \A v \in Users : us2[v].st # "none" => us2[v] = us[v] /\ us[v].last \notin S
  BY <1>2, <1>3 DEF Ok, OkUsers, LastHeld, SubsOf
<1>5. \A s \in Subs \ S : Held(b, s) => us2[b[s].user] = us[b[s].user]
  <2> SUFFICES ASSUME NEW s \in Subs \ S, Held(b, s) PROVE us2[b[s].user] = us[b[s].user]
    OBVIOUS
  <2>1. b[s].user \in Users /\ b[s].user # u
    BY DEF Held, Typed, SubState, SubsOf
  <2> QED
    BY <1>2, <2>1
<1>6. S \in SUBSET Subs
  BY DEF SubsOf
<1>7. /\ \A s \in Subs \ S : e[s] = b[s]
      /\ \A s \in S : e[s].live => e[s].user = NULL /\ e[s].wait /\ e[s].client \in Sockets
      /\ \A f \in Sockets : c[f].attach \in S => ~Wait(d, f)
  OBVIOUS
<1> HIDE DEF us2, S
<1>8. Released(c, b, us, d, S, e, us2)
  BY <1>4, <1>5, <1>6, <1>7 DEF Released
<1>9. Ok(d, e, us2)
  BY <1>8, ReleaseOk
<1> QED
  BY <1>9 DEF us2


(* do_died(): s is dead and its client, if it still had one, is shut down. *)
LEMMA DiedOk ==
  ASSUME NEW c, NEW b, NEW us, Typed(c, b, us), Ok(c, b, us),
         NEW d \in [Sockets -> SocketState], Quieter(c, d), NEW s \in Subs,
         Held(b, s) => us[b[s].user].transport # "ws",
         b[s].state = "ALIVE" /\ Held(b, s) => ~Wait(d, b[s].client),
         NEW e, \A r \in Subs : Alike(b, e, r),
         \A r \in Subs \ {s} : e[r].state = b[r].state, e[s].state = "ADIED"
  PROVE  Ok(d, e, us)
<1>1. OkUsers(e, us)
  BY AlikeUsers DEF Ok
<1>2. Unattached(d)
  BY DEF Ok, OkSockets, Unattached, Quieter, Quiet
<1>3. \A r \in Subs : Held(e, r) <=> Held(b, r)
  BY DEF Alike, SameOwner, Held
<1>4. KindAgrees(d, e, us)
  BY <1>3 DEF Ok, OkSockets, KindAgrees, Quieter, Quiet, Alike, SameOwner
<1>5. AliveIn(d, e)
  <2> SUFFICES ASSUME NEW r \in Subs, Held(e, r), e[r].state = "ALIVE"
               PROVE  d[e[r].client].conn # "closed" /\ d[e[r].client].attach = r
    BY DEF AliveIn
  <2>1. r # s /\ Held(b, r) /\ b[r].state = "ALIVE" /\ e[r].client = b[r].client
    BY <1>3 DEF Alike, SameOwner
  <2>2. b[r].client \in Sockets
    BY <2>1 DEF Ok, OkUsers, ClientKnown, Held
  <2> QED
    BY <2>1, <2>2 DEF Ok, OkSockets, AliveIn, Quieter, Quiet
<1>6. Listener(d, e)
  <2> SUFFICES ASSUME NEW f \in Sockets, NEW r \in Subs, d[f].attach = r,
                      Wait(d, f) \/ (d[f].kind = "ws" /\ Held(e, r))
               PROVE  Held(e, r) /\ e[r].state = "ALIVE" /\ e[r].client = f
    BY DEF Listener
  <2>1. c[f].attach = r /\ d[f].kind = c[f].kind /\ (Wait(d, f) => Wait(c, f))
    BY DEF Quieter, Quiet
  <2>2. Held(b, r) /\ b[r].state = "ALIVE" /\ b[r].client = f
    BY <1>3, <2>1 DEF Ok, OkSockets, Listener
  <2>3. CASE r = s
    <3>1. ~Wait(d, f) /\ c[f].kind # "ws"
      BY <2>1, <2>2, <2>3 DEF Ok, OkSockets, KindAgrees
    <3> QED
      BY <2>1, <3>1
  <2>4. CASE r # s
    BY <1>3, <2>2, <2>4 DEF Alike, SameOwner
  <2> QED
    BY <2>3, <2>4
<1> QED
  BY <1>1, <1>2, <1>4, <1>5, <1>6 DEF Ok, OkSockets

(* close_socket(): f is closed; a subuser it served is dead in e.           *)
LEMMA CloseOk ==
  ASSUME NEW c, NEW b, NEW us, Typed(c, b, us), Ok(c, b, us), NEW f \in Sockets,
         NEW e, \A s \in Subs : Alike(b, e, s),
         \A s \in Subs : e[s].state = b[s].state \/ (b[s].client = f /\ e[s].state = "ADIED"),
         \A s \in Subs : Held(b, s) /\ e[s].state = "ALIVE" => b[s].client # f
  PROVE  Ok([c EXCEPT ![f] = Closed], e, us)
<1> DEFINE d == [c EXCEPT ![f] = Closed]
<1>0. \A g \in Sockets : d[g] = IF g = f THEN Closed ELSE c[g]
  BY DEF Typed
<1>1. OkUsers(e, us)
  BY AlikeUsers DEF Ok
<1>2. Closed.attach = NULL /\ Closed.conn = "closed"
  BY DEF Closed
<1>3. \A r \in Subs : (Held(e, r) <=> Held(b, r)) /\ r # NULL
  BY DEF Alike, SameOwner, Held
<1> HIDE DEF d
<1>4. Unattached(d)
  BY <1>0, <1>2 DEF Ok, OkSockets, Unattached
<1>5. KindAgrees(d, e, us)
  BY <1>0, <1>2, <1>3 DEF Ok, OkSockets, KindAgrees, Alike, SameOwner
<1>6. AliveIn(d, e)
  <2> SUFFICES ASSUME NEW r \in Subs, Held(e, r), e[r].state = "ALIVE"
               PROVE  d[e[r].client].conn # "closed" /\ d[e[r].client].attach = r
    BY DEF AliveIn
  <2>1. Held(b, r) /\ b[r].state = "ALIVE" /\ e[r].client = b[r].client /\ b[r].client # f
    BY <1>3 DEF Alike, SameOwner
  <2>2. b[r].client \in Sockets
    BY <2>1 DEF Ok, OkUsers, ClientKnown, Held
  <2> QED
    BY <1>0, <2>1, <2>2 DEF Ok, OkSockets, AliveIn
<1>7. Listener(d, e)
  <2> SUFFICES ASSUME NEW g \in Sockets, NEW r \in Subs, d[g].attach = r,
                      Wait(d, g) \/ (d[g].kind = "ws" /\ Held(e, r))
               PROVE  Held(e, r) /\ e[r].state = "ALIVE" /\ e[r].client = g
    BY DEF Listener
  <2>1. g # f /\ d[g] = c[g]
    BY <1>0, <1>2, <1>3
  <2>2. Held(b, r) /\ b[r].state = "ALIVE" /\ b[r].client = g
    BY <1>3, <2>1 DEF Ok, OkSockets, Listener, Wait
  <2> QED
    BY <1>3, <2>1, <2>2 DEF Alike, SameOwner
<1> QED
  BY <1>1, <1>4, <1>5, <1>6, <1>7 DEF Ok, OkSockets, d

(* The end of a message on f: a is attached and, unless it is NULL or goes *)
(* with its user, woken; another subuser that f served is dead in e.        *)
Attached(c, b, us, f, a, d, e) ==
  /\ \A g \in Sockets \ {f} : Quiet(c, d, g)
  /\ d[f].attach = a /\ d[f].done /\ d[f].kind = c[f].kind /\ d[f].conn # "closed"
  /\ \A s \in Subs : Alike(b, e, s)
  /\ \A s \in Subs : s # a => \/ e[s].state = b[s].state
                              \/ s = c[f].attach /\ e[s].state = "ADIED"
  /\ \A s \in Subs : s # a /\ s = c[f].attach /\ Held(b, s) => e[s].state = "ADIED"
  /\ \/ a = NULL
     \/ /\ a \in Subs /\ Held(b, a) /\ b[a].client = f /\ e[a].state = "ALIVE"
        /\ c[f].kind = "ws" <=> us[b[a].user].transport = "ws"
     \/ a \in Subs /\ ~Held(b, a) /\ ~Wait(d, f)

LEMMA AttachOk ==
  ASSUME NEW c, NEW b, NEW us, Typed(c, b, us), Ok(c, b, us), NEW f \in Sockets,
         c[f].conn # "closed", c[f].kind = "ws" \/ c[f].attach = NULL,
         NEW a, NEW d, NEW e, Attached(c, b, us, f, a, d, e)
  PROVE  Ok(d, e, us)
<1> USE DEF Attached
<1>1. OkUsers(e, us)
  BY AlikeUsers DEF Ok
<1>2. \A r \in Subs : (Held(e, r) <=> Held(b, r)) /\ r # NULL
  BY DEF Alike, SameOwner, Held
<1>3. Unattached(d)
  BY DEF Ok, OkSockets, Unattached, Quiet
<1>4. KindAgrees(d, e, us)
  <2> SUFFICES ASSUME NEW g \in Sockets, NEW s \in Subs, d[g].attach = s, Held(e, s)
               PROVE  d[g].kind = "ws" <=> us[e[s].user].transport = "ws"
    BY DEF KindAgrees
  <2>1. Held(b, s) /\ e[s].user = b[s].user
    BY <1>2 DEF Alike, SameOwner
  <2>2. CASE g = f
    BY <1>2, <2>1, <2>2
  <2>3. CASE g # f
    BY <2>1, <2>3 DEF Ok, OkSockets, KindAgrees, Quiet
  <2> QED
    BY <2>2, <2>3
<1>5. AliveIn(d, e)
  <2> SUFFICES ASSUME NEW r \in Subs, Held(e, r), e[r].state = "ALIVE"
               PROVE  d[e[r].client].conn # "closed" /\ d[e[r].client].attach = r
    BY DEF AliveIn
  <2>1. Held(b, r) /\ e[r].client = b[r].client /\ b[r].client \in Sockets
    BY <1>2 DEF Alike, SameOwner, Ok, OkUsers, ClientKnown, Held
  <2>2. CASE r = a
    BY <1>2, <2>1, <2>2
  <2>3. CASE r # a
    <3>1. b[r].state = "ALIVE"
      BY <2>3
    <3>2. c[b[r].client].conn # "closed" /\ c[b[r].client].attach = r
      BY <2>1, <3>1 DEF Ok, OkSockets, AliveIn
    <3>3. b[r].client # f
      BY <2>1, <2>3, <3>2
    <3> QED
      BY <2>1, <3>2, <3>3 DEF Quiet
  <2> QED
    BY <2>2, <2>3
<1>6. Listener(d, e)
  <2> SUFFICES ASSUME NEW g \in Sockets, NEW r \in Subs, d[g].attach = r,
                      Wait(d, g) \/ (d[g].kind = "ws" /\ Held(e, r))
               PROVE  Held(e, r) /\ e[r].state = "ALIVE" /\ e[r].client = g
    BY DEF Listener
  <2>1. CASE g = f
    BY <1>2, <2>1 DEF Alike, SameOwner
  <2>2. CASE g # f
    <3>1. c[g].attach = r /\ (Wait(c, g) \/ (c[g].kind = "ws" /\ Held(b, r)))
      BY <1>2, <2>2 DEF Quiet
    <3>2. Held(b, r) /\ b[r].state = "ALIVE" /\ b[r].client = g
      BY <3>1 DEF Ok, OkSockets, Listener
    <3>3. r # a
      BY <1>2, <2>2, <3>2
    <3>4. e[r].state = "ALIVE"
      <4>1. CASE r = c[f].attach
        <5>1. c[f].kind = "ws"
          BY <1>2, <4>1
        <5>2. b[r].client = f
          BY <3>2, <4>1, <5>1 DEF Ok, OkSockets, Listener
        <5> QED
          BY <2>2, <3>2, <5>2
      <4>2. CASE r # c[f].attach
        BY <3>2, <3>3, <4>2
      <4> QED
        BY <4>1, <4>2
    <3> QED
      BY <1>2, <3>2, <3>4 DEF Alike, SameOwner
  <2> QED
    BY <2>1, <2>2
<1> QED
  BY <1>1, <1>3, <1>4, <1>5, <1>6 DEF Ok, OkSockets

(* A fresh subuser s of u, which is a user already or is one now.           *)
Added(c, b, us, f, u, s, e, us2) ==
  /\ ~b[s].live /\ \A g \in Sockets : c[g].attach # s
  /\ \A r \in Subs \ {s} : e[r] = b[r]
  /\ e[s].live /\ e[s].user = u /\ e[s].client = f /\ ~e[s].wait /\ e[s].state = "ADIED"
  /\ \A v \in Users \ {u} : us2[v] = us[v]
  /\ \/ us2 = us /\ us[u].st = "on"
     \/ us[u].st = "none" /\ us2[u].st \in {"tmp", "on"} /\ us2[u].last = s

LEMMA AddOk ==
  ASSUME NEW c, NEW b, NEW us, Typed(c, b, us), Ok(c, b, us),
         NEW f \in Sockets, NEW u \in Users, NEW s \in Subs, NEW e, NEW us2,
         Added(c, b, us, f, u, s, e, us2)
  PROVE  Ok(c, e, us2)
<1> USE DEF Added
<1>1. Held(e, s) /\ \A r \in Subs \ {s} : Held(e, r) <=> Held(b, r)
  BY DEF Held
<1>2. \A r \in Subs : Held(b, r) => b[r].user \in Users /\ us[b[r].user].st # "none"
  BY DEF Held, Typed, SubState, Ok, OkUsers, OwnedIn
<1>3. \A r \in Subs \ {s} : Held(b, r) => us2[b[r].user] = us[b[r].user]
  BY <1>2
<1>4. OwnedIn(e, us2)
  <2> SUFFICES ASSUME NEW r \in Subs, e[r].live
               PROVE  IF e[r].user = NULL THEN e[r].wait ELSE us2[e[r].user].st # "none"
    BY DEF OwnedIn
  <2>1. CASE r = s
    BY <2>1
  <2>2. CASE r # s
    BY <1>3, <2>2 DEF Ok, OkUsers, OwnedIn, Held
  <2> QED
    BY <2>1, <2>2
<1>5. LastHeld(e, us2)
  BY DEF Ok, OkUsers, LastHeld
<1>6. TmpAlone(e, us2)
  <2> SUFFICES ASSUME NEW r \in Subs, Held(e, r), us2[e[r].user].st = "tmp"
               PROVE  r = us2[e[r].user].last
    BY DEF TmpAlone
  <2>1. CASE r = s
    BY <2>1
  <2>2. CASE r # s
    BY <1>1, <1>3, <2>2 DEF Ok, OkUsers, TmpAlone
  <2> QED
    BY <2>1, <2>2
<1>7. Orphaned(e) /\ ClientKnown(e)
  BY <1>1 DEF Ok, OkUsers, Orphaned, ClientKnown
<1>8. KindAgrees(c, e, us2)
  BY <1>1, <1>3 DEF Ok, OkSockets, KindAgrees
<1>9. AliveIn(c, e)
  BY <1>1 DEF Ok, OkSockets, AliveIn
<1>10. Listener(c, e)
  BY <1>1 DEF Ok, OkSockets, Listener
<1> QED
  BY <1>4, <1>5, <1>6, <1>7, <1>8, <1>9, <1>10 DEF Ok, OkUsers, OkSockets

(* s gets another client, before it is woken; the sockets attached to it   *)
(* are detached or on their way down.                                       *)
Moved(c, b, s, d, e) ==
  /\ \A g \in Sockets :
       /\ d[g].kind = c[g].kind /\ d[g].done = c[g].done
       /\ d[g].conn = "closed" <=> c[g].conn = "closed"
       /\ Wait(d, g) => Wait(c, g)
       /\ d[g].attach \in {c[g].attach, NULL}
       /\ c[g].attach # s => d[g].attach = c[g].attach
       /\ d[g].attach = s => ~Wait(d, g) /\ (d[g].kind = "ws" => ~Held(b, s))
  /\ \A r \in Subs : SameOwner(b, e, r)
  /\ \A r \in Subs \ {s} : e[r].client = b[r].client /\ e[r].state = b[r].state
  /\ e[s].client \in Sockets /\ e[s].state = "ADIED"

LEMMA MoveOk ==
  ASSUME NEW c, NEW b, NEW us, Typed(c, b, us), Ok(c, b, us),
         NEW s \in Subs, NEW d, NEW e, Moved(c, b, s, d, e)
  PROVE  Ok(d, e, us)
<1> USE DEF Moved
<1>1. ClientKnown(e)
  BY DEF Ok, OkUsers, ClientKnown, SameOwner
<1>2. OkUsers(e, us)
  BY <1>1, OwnerUsers DEF Ok
<1>3. \A r \in Subs : (Held(e, r) <=> Held(b, r)) /\ r # NULL
  BY DEF SameOwner, Held
<1>4. Unattached(d)
  BY DEF Ok, OkSockets, Unattached
<1>5. KindAgrees(d, e, us)
  BY <1>3 DEF Ok, OkSockets, KindAgrees, SameOwner
<1>6. AliveIn(d, e)
  <2> SUFFICES ASSUME NEW r \in Subs, Held(e, r), e[r].state = "ALIVE"
               PROVE  d[e[r].client].conn # "closed" /\ d[e[r].client].attach = r
    BY DEF AliveIn
  <2>1. r # s /\ Held(b, r) /\ b[r].state = "ALIVE" /\ e[r].client = b[r].client
    BY <1>3
  <2>2. b[r].client \in Sockets
    BY <2>1 DEF Ok, OkUsers, ClientKnown, Held
  <2>3. c[b[r].client].conn # "closed" /\ c[b[r].client].attach = r
    BY <2>1 DEF Ok, OkSockets, AliveIn
  <2> QED
    BY <2>1, <2>2, <2>3
<1>7. Listener(d, e)
  <2> SUFFICES ASSUME NEW g \in Sockets, NEW r \in Subs, d[g].attach = r,
                      Wait(d, g) \/ (d[g].kind = "ws" /\ Held(e, r))
               PROVE  Held(e, r) /\ e[r].state = "ALIVE" /\ e[r].client = g
    BY DEF Listener
  <2>1. r # s /\ c[g].attach = r /\ d[g].kind = c[g].kind /\ (Wait(d, g) => Wait(c, g))
    BY <1>3
  <2>2. Held(b, r) /\ b[r].state = "ALIVE" /\ b[r].client = g
    BY <1>3, <2>1 DEF Ok, OkSockets, Listener
  <2> QED
    BY <1>3, <2>1, <2>2
<1> QED
  BY <1>2, <1>4, <1>5, <1>6, <1>7 DEF Ok, OkSockets

-----------------------------------------------------------------------------
(* What process_cmd() leaves behind when it has found the subuser s of u   *)
(* for a message on f.                                                      *)
FoundIn(r, f, u, s) ==
  /\ Typed(r.c, r.b, usr) /\ Ok(r.c, r.b, usr) /\ Reached(r.c, r.b)
  /\ r.b[s].live /\ r.b[s].user = u
  /\ r.att \in BOOLEAN
  /\ r.att => r.b[s].client = f
  /\ ~r.att => r.b[s].state = "ALIVE" /\ co[f].kind = "http"
  /\ r.c[f].conn # "closed" /\ r.c[f].kind = co[f].kind
  /\ r.c[f].attach = co[f].attach

LEMMA TypedNow == ASSUME TypeOK PROVE Typed(co, sub, usr)
  BY DEF TypeOK, Typed

LEMMA ReadableSocket ==
  ASSUME TypeOK, Ok(co, sub, usr), NEW f \in Sockets, Readable(f)
  PROVE  /\ co[f].conn # "closed"
         /\ co[f].kind = "ws" \/ co[f].attach = NULL
         /\ co[f].kind \in {"http", "ws"}
<1>1. co[f] \in SocketState
  BY DEF TypeOK
<1>2. co[f].kind \in {"http", "ws"}
  BY <1>1 DEF SocketState
<1> QED
  BY <1>2 DEF Readable, Ok, OkSockets, Unattached

(* A new subuser is a fresh cell.                                           *)
LEMMA AddsCell ==
  ASSUME TypeOK, NEW f \in Sockets, NEW u \in Users, NEW s \in Subs
  PROVE  /\ addsubuser(sub, s, f, u) \in [Subs -> SubState]
         /\ \A r \in Subs \ {s} : addsubuser(sub, s, f, u)[r] = sub[r]
         /\ LET n == addsubuser(sub, s, f, u)[s] IN
              n.live /\ n.user = u /\ n.client = f /\ ~n.wait /\ n.state = "ADIED"
<1> DEFINE n == [Freed EXCEPT !.live = TRUE, !.user = u, !.host = co[f].host, !.client = f]
<1>1. co[f].host \in Hosts \cup {NULL}
  BY DEF TypeOK, SocketState
<1>2. n \in SubState
  BY <1>1 DEF Freed, SubState
<1>3. n.live /\ n.user = u /\ n.client = f /\ ~n.wait /\ n.state = "ADIED"
  BY DEF Freed
<1>4. sub \in [Subs -> SubState] /\ addsubuser(sub, s, f, u) = [sub EXCEPT ![s] = n]
  BY DEF TypeOK, addsubuser
<1> HIDE DEF n
<1> QED
  BY <1>2, <1>3, <1>4

LEMMA SameHostOk ==
  ASSUME TypeOK, Ok(co, sub, usr), Reached(co, sub),
         NEW f \in Sockets, NEW u \in Users, NEW s \in Subs, NEW slow \in BOOLEAN, Readable(f),
         sub[s].live, sub[s].user = u, sub[s].client # f, sub[s].state = "ALIVE",
         co[f].kind = "ws" <=> usr[u].transport = "ws"
  PROVE  FoundIn(SameHost(f, u, s, slow), f, u, s)
<1> DEFINE old == sub[s].client
           stream == usr[u].transport = "stream"
           loser == IF stream THEN f ELSE old
           c1 == sendbin(co, loser, slow)
           c2 == [c1 EXCEPT ![loser].attach = NULL]
           c3 == safe_shutdown(c2, {loser})
           e == [sub EXCEPT ![s].burn = FALSE, ![s].client = IF stream THEN old ELSE f,
                            ![s].state = IF stream THEN "ALIVE" ELSE "ADIED"]
           y == ~stream
<1>1. SameHost(f, u, s, slow) = [c |-> c3, b |-> e, att |-> y]
  BY DEF SameHost
<1>0. LET r == SameHost(f, u, s, slow) IN r.c = c3 /\ r.b = e /\ r.att = y
  <2> HIDE DEF c3, e, y
  <2> QED
    BY <1>1
<1>2. Typed(co, sub, usr) /\ co \in [Sockets -> SocketState] /\ sub \in [Subs -> SubState]
      /\ usr \in [Users -> UserState]
  BY DEF TypeOK, Typed
<1>3. old \in Sockets /\ Held(sub, s) /\ co[old].attach = s /\ co[old].conn # "closed"
  BY DEF Ok, OkUsers, OkSockets, ClientKnown, AliveIn, Held
<1>4. co[f].conn # "closed" /\ (co[f].kind = "ws" \/ co[f].attach = NULL)
      /\ co[f].kind \in {"http", "ws"}
  BY ReadableSocket
<1>5. loser \in Sockets
  BY <1>3
<1>6. c1 \in [Sockets -> SocketState] /\ Quieter(co, c1)
  <2> HIDE DEF loser
  <2> QED
    BY <1>2, <1>5, Written
<1>7. /\ \A r \in Subs : SameOwner(sub, e, r)
      /\ \A r \in Subs \ {s} : e[r] = sub[r]
      /\ e[s].client = (IF stream THEN old ELSE f) /\ e[s].lost = sub[s].lost
      /\ e[s].state = (IF stream THEN "ALIVE" ELSE "ADIED")
      /\ e \in [Subs -> SubState]
  <2> DEFINE cl == IF stream THEN old ELSE f
             st == IF stream THEN "ALIVE" ELSE "ADIED"
  <2>1. e[s] = [sub[s] EXCEPT !.burn = FALSE, !.client = cl, !.state = st]
    BY <1>2
  <2>2. sub[s] \in SubState /\ cl \in Sockets /\ st \in {"ALIVE", "ADIED"}
    BY <1>2, <1>3
  <2> HIDE DEF cl, st, e
  <2>3. e[s] \in SubState
    BY <2>1, <2>2 DEF SubState
  <2>4. /\ e[s].live = sub[s].live /\ e[s].user = sub[s].user /\ e[s].wait = sub[s].wait
        /\ e[s].client = cl /\ e[s].state = st /\ e[s].lost = sub[s].lost
    BY <2>1, <2>2 DEF SubState
  <2>5. \A r \in Subs \ {s} : e[r] = sub[r]
    BY <1>2 DEF e
  <2>6. e \in [Subs -> SubState]
    <3>1. e = [sub EXCEPT ![s] = e[s]]
      BY <1>2 DEF e
    <3> QED
      BY <1>2, <2>3, <3>1
  <2> QED
    BY <2>4, <2>5, <2>6 DEF SameOwner, cl, st
<1>8. c2 \in [Sockets -> SocketState] /\ \A g \in Sockets : g # loser => c2[g] = c1[g]
  <2>1. c1[loser] \in SocketState
    BY <1>5, <1>6
  <2>2. [c1[loser] EXCEPT !.attach = NULL] \in SocketState
    BY <2>1 DEF SocketState
  <2> HIDE DEF c1, loser
  <2> QED
    BY <1>5, <1>6, <2>2
<1>9. /\ c2[loser].attach = NULL /\ c2[loser].kind = c1[loser].kind /\ c2[loser].done = c1[loser].done
      /\ c2[loser].conn = c1[loser].conn /\ c2[loser].burn = c1[loser].burn
      /\ c2[loser].host = c1[loser].host
  <2>1. c1[loser] \in SocketState
    BY <1>5, <1>6
  <2> HIDE DEF c1, loser
  <2> QED
    BY <1>5, <1>6, <2>1 DEF SocketState
<1>10. c3 \in [Sockets -> SocketState] /\ Quieter(c2, c3)
  <2> HIDE DEF c2, loser
  <2> QED
    BY <1>8, Shutdown
<1>11. CASE stream
  <2>1. loser = f /\ co[f].kind = "http" /\ co[f].attach = NULL /\ c1[f].attach = NULL
    BY <1>4, <1>6, <1>11 DEF Quieter, Quiet
  <2>2. Quieter(c1, c2)
    <3> HIDE DEF c1, c2
    <3> QED
      BY <1>8, <1>9, <2>1 DEF Quieter, Quiet, Wait
  <2>3. Quieter(co, c3)
    <3> HIDE DEF c1, c2, c3
    <3> QED
      BY <1>6, <1>10, <2>2, QuieterTrans
  <2>4. SameSubs(sub, e)
    <3> HIDE DEF e
    <3> QED
      BY <1>7, <1>11 DEF SameSubs, Alike, SameOwner
  <2> HIDE DEF c3, e
  <2>5. Ok(c3, sub, usr)
    BY <1>2, <1>10, <2>3, QuietOk
  <2>6. Ok(c3, e, usr)
    BY <2>4, <2>5, SameOk
  <2>7. c3[f].conn # "closed" /\ c3[f].kind = co[f].kind /\ c3[f].attach = co[f].attach
    BY <1>4, <2>3 DEF Quieter, Quiet
  <2> DEFINE r == SameHost(f, u, s, slow)
  <2>12. y = FALSE
    BY <1>11
  <2>8. r.c = c3 /\ r.b = e /\ r.att = FALSE
    <3> HIDE DEF y
    <3> QED
      BY <1>0, <2>12
  <2> HIDE DEF r
  <2>9. r.b[s].live /\ r.b[s].user = u /\ r.b[s].state = "ALIVE"
    BY <1>7, <1>11, <2>8 DEF SameOwner
  <2>10. Typed(r.c, r.b, usr) /\ Ok(r.c, r.b, usr)
    BY <1>2, <1>7, <1>10, <2>6, <2>8 DEF Typed
  <2>13. Reached(r.c, r.b)
    BY <2>3, <2>4, <2>8, QuietReached, SameReached
  <2>11. FoundIn(r, f, u, s)
    BY <2>1, <2>7, <2>8, <2>9, <2>10, <2>13 DEF FoundIn
  <2> QED
    BY <2>11 DEF r
<1>12. CASE ~stream
  <2>1. loser = old
    BY <1>12
  <2>2. Moved(co, sub, s, c2, e)
    <3> HIDE DEF c1, c2, e
    <3>1. ASSUME NEW g \in Sockets, g # old, c2[g].attach = s
          PROVE  ~Wait(c2, g) /\ (c2[g].kind = "ws" => ~Held(sub, s))
      <4>1. co[g].attach = s /\ c2[g].kind = co[g].kind /\ (Wait(c2, g) => Wait(co, g))
        BY <1>6, <1>8, <2>1, <3>1 DEF Quieter, Quiet, Wait
      <4> QED
        BY <3>1, <4>1 DEF Ok, OkSockets, Listener
    <3>2. ASSUME NEW g \in Sockets
          PROVE  /\ c2[g].kind = co[g].kind /\ c2[g].done = co[g].done
                 /\ c2[g].conn = "closed" <=> co[g].conn = "closed"
                 /\ Wait(c2, g) => Wait(co, g)
                 /\ c2[g].attach \in {co[g].attach, NULL}
                 /\ co[g].attach # s => c2[g].attach = co[g].attach
                 /\ c2[g].attach = s => ~Wait(c2, g) /\ (c2[g].kind = "ws" => ~Held(sub, s))
      <4>1. CASE g = old
        <5>1. c2[g].attach = NULL /\ NULL # s
          BY <1>9, <2>1, <4>1
        <5> QED
          BY <1>3, <1>6, <1>9, <2>1, <4>1, <5>1 DEF Quieter, Quiet, Wait
      <4>2. CASE g # old
        BY <1>6, <1>8, <2>1, <3>1, <4>2 DEF Quieter, Quiet, Wait
      <4> QED
        BY <4>1, <4>2
    <3>3. e[s].client \in Sockets /\ e[s].state = "ADIED"
      BY <1>7, <1>12
    <3> QED
      BY <1>7, <3>2, <3>3 DEF Moved
  <2>3. Ok(c2, e, usr)
    <3> HIDE DEF c2, e
    <3> QED
      BY <1>2, <2>2, MoveOk
  <2>4. Typed(c2, e, usr)
    BY <1>2, <1>7, <1>8 DEF Typed
  <2>5. Ok(c3, e, usr)
    <3> HIDE DEF c2, c3, e
    <3> QED
      BY <1>10, <2>3, <2>4, QuietOk
  <2>6. c3[f].conn # "closed" /\ c3[f].kind = co[f].kind /\ c3[f].attach = co[f].attach
    <3> HIDE DEF c1, c2, c3
    <3> QED
      BY <1>4, <1>6, <1>8, <1>10, <2>1 DEF Quieter, Quiet
  <2> HIDE DEF c3, e
  <2> DEFINE r == SameHost(f, u, s, slow)
  <2>11. y = TRUE
    BY <1>12
  <2>7. r.c = c3 /\ r.b = e /\ r.att = TRUE
    <3> HIDE DEF y
    <3> QED
      BY <1>0, <2>11
  <2> HIDE DEF r
  <2>8. r.b[s].live /\ r.b[s].user = u /\ r.b[s].client = f
    BY <1>7, <1>12, <2>7 DEF SameOwner
  <2>9. Typed(r.c, r.b, usr) /\ Ok(r.c, r.b, usr)
    BY <1>2, <1>7, <1>10, <2>5, <2>7 DEF Typed
  <2>12. Reached(r.c, r.b)
    <3>1. Reached(c2, e)
      <4> SUFFICES ASSUME NEW q \in Subs, Orphan(e, q) PROVE Led(c2, q)
        BY DEF Reached
      <4>1. q # s /\ Orphan(sub, q)
        BY <1>3, <1>7 DEF Orphan, SameOwner, Held
      <4>2. PICK g \in Sockets : co[g].conn # "closed" /\ co[g].attach = q
        BY <4>1 DEF Reached, Led
      <4>3. c2[g].conn # "closed" /\ c2[g].attach = q
        BY <2>2, <4>1, <4>2 DEF Moved
      <4> QED
        BY <4>3 DEF Led
    <3> QED
      BY <1>10, <2>7, <3>1, QuietReached
  <2>10. FoundIn(r, f, u, s)
    BY <2>6, <2>7, <2>8, <2>9, <2>12 DEF FoundIn
  <2> QED
    BY <2>10 DEF r
<1> QED
  BY <1>11, <1>12

LEMMA FoundOk ==
  ASSUME TypeOK, Ok(co, sub, usr), Reached(co, sub),
         NEW f \in Sockets, NEW u \in Users, NEW s \in Subs, NEW slow \in BOOLEAN, Speaks(f, u, s)
  PROVE  FoundIn(Found(f, u, s, slow), f, u, s)
<1>1. Readable(f) /\ usr[u].st = "on" /\ (co[f].kind = "ws" <=> usr[u].transport = "ws")
  BY DEF Speaks
<1>2. Typed(co, sub, usr) /\ co \in [Sockets -> SocketState] /\ sub \in [Subs -> SubState]
      /\ usr \in [Users -> UserState]
  BY DEF TypeOK, Typed
<1>3. co[f].conn # "closed"
  BY <1>1, ReadableSocket
<1>4. CASE s \notin Lookup(f, u)
  <2> DEFINE a == addsubuser(sub, s, f, u)
             e == [a EXCEPT ![s].pend = TRUE]
  <2>1. /\ a \in [Subs -> SubState]
        /\ \A r \in Subs \ {s} : a[r] = sub[r]
        /\ a[s].live /\ a[s].user = u /\ a[s].client = f /\ ~a[s].wait /\ a[s].state = "ADIED"
    BY AddsCell
  <2>2. Found(f, u, s, slow) = [c |-> co, b |-> e, att |-> TRUE]
    BY <1>4 DEF Found
  <2> HIDE DEF a
  <2>3. e \in [Subs -> SubState] /\ \A r \in Subs \ {s} : e[r] = sub[r]
    <3>1. [a[s] EXCEPT !.pend = TRUE] \in SubState
      <4>1. a[s] \in SubState
        BY <2>1
      <4> QED
        BY <4>1 DEF SubState
    <3> QED
      BY <2>1, <3>1
  <2>4. e[s].live /\ e[s].user = u /\ e[s].client = f /\ ~e[s].wait /\ e[s].state = "ADIED"
    <3>1. e[s] = [a[s] EXCEPT !.pend = TRUE] /\ a[s] \in SubState
      BY <2>1
    <3> HIDE DEF e
    <3>2. /\ e[s].live = a[s].live /\ e[s].user = a[s].user /\ e[s].client = a[s].client
          /\ e[s].wait = a[s].wait /\ e[s].state = a[s].state
      BY <3>1 DEF SubState
    <3> QED
      BY <2>1, <3>2
  <2> HIDE DEF e
  <2>5. Added(co, sub, usr, f, u, s, e, usr)
    BY <1>1, <1>4, <2>3, <2>4 DEF Added, Speaks, Fresh
  <2>6. Ok(co, e, usr)
    BY <1>2, <2>5, AddOk
  <2> DEFINE r == Found(f, u, s, slow)
  <2>7. r.c = co /\ r.b = e /\ r.att = TRUE
    BY <2>2
  <2> HIDE DEF r
  <2>8. Typed(r.c, r.b, usr) /\ Ok(r.c, r.b, usr)
    BY <1>2, <2>3, <2>6, <2>7 DEF Typed
  <2>10. Reached(r.c, r.b)
    BY <2>3, <2>4, <2>7 DEF Reached, Orphan
  <2>9. FoundIn(r, f, u, s)
    BY <1>3, <2>4, <2>7, <2>8, <2>10 DEF FoundIn
  <2> QED
    BY <2>9 DEF r
<1>5. CASE s \in Lookup(f, u)
  <2>0. sub[s].live /\ sub[s].user = u
    BY <1>5 DEF Lookup, SubsOf
  <2>1. CASE sub[s].client # f /\ sub[s].state = "ALIVE"
    <3>1. Found(f, u, s, slow) = SameHost(f, u, s, slow)
      BY <1>5, <2>1 DEF Found
    <3>2. FoundIn(SameHost(f, u, s, slow), f, u, s)
      BY <1>1, <2>0, <2>1, SameHostOk
    <3> QED
      BY <3>1, <3>2
  <2>2. CASE ~(sub[s].client # f /\ sub[s].state = "ALIVE")
    <3> DEFINE e == [sub EXCEPT ![s].client = f]
    <3>1. Found(f, u, s, slow) = [c |-> co, b |-> e, att |-> TRUE]
      BY <1>5, <2>2 DEF Found
    <3>2. e[s] = [sub[s] EXCEPT !.client = f] /\ sub[s] \in SubState
      BY <1>2
    <3>3. \A r \in Subs \ {s} : e[r] = sub[r]
      BY <1>2
    <3>4. e \in [Subs -> SubState]
      <4>1. [sub[s] EXCEPT !.client = f] \in SubState
        BY <3>2 DEF SubState
      <4> QED
        BY <1>2, <4>1
    <3> HIDE DEF e
    <3>5. /\ e[s].live = sub[s].live /\ e[s].user = sub[s].user /\ e[s].client = f
          /\ e[s].wait = sub[s].wait /\ e[s].state = sub[s].state /\ e[s].lost = sub[s].lost
      BY <3>2 DEF SubState
    <3>6. Ok(co, e, usr)
      <4>1. CASE sub[s].client = f
        <5>1. SameSubs(sub, e)
          BY <3>3, <3>5, <4>1 DEF SameSubs, Alike, SameOwner
        <5> QED
          BY <5>1, SameOk
      <4>2. CASE sub[s].state # "ALIVE"
        <5>1. sub[s].state = "ADIED"
          BY <3>2, <4>2 DEF SubState
        <5>2. \A g \in Sockets : co[g].attach = s =>
                 ~Wait(co, g) /\ (co[g].kind = "ws" => ~Held(sub, s))
          BY <4>2 DEF Ok, OkSockets, Listener
        <5>3. Moved(co, sub, s, co, e)
          BY <3>3, <3>5, <5>1, <5>2 DEF Moved, SameOwner
        <5> QED
          BY <1>2, <5>3, MoveOk
      <4> QED
        BY <2>2, <4>1, <4>2
    <3> DEFINE r == Found(f, u, s, slow)
    <3>7. r.c = co /\ r.b = e /\ r.att = TRUE
      BY <3>1
    <3> HIDE DEF r
    <3>8. Typed(r.c, r.b, usr) /\ Ok(r.c, r.b, usr)
      BY <1>2, <3>4, <3>6, <3>7 DEF Typed
    <3>10. Reached(r.c, r.b)
      BY <3>3, <3>5, <3>7 DEF Reached, Orphan
    <3>9. FoundIn(r, f, u, s)
      BY <1>3, <2>0, <3>5, <3>7, <3>8, <3>10 DEF FoundIn
    <3> QED
      BY <3>9 DEF r
  <2> QED
    BY <2>1, <2>2
<1> QED
  BY <1>4, <1>5

-----------------------------------------------------------------------------
(* Attach() ends a message on f.  The tables b and x differ in that the    *)
(* subuser a to attach has been woken in x.                                 *)
Ready(c, b, us, x, f, a) ==
  /\ Typed(c, b, us) /\ Ok(c, b, us) /\ ReachedBut(c, x, a)
  /\ c[f].conn # "closed" /\ c[f].kind = co[f].kind /\ c[f].attach = co[f].attach
  /\ x \in [Subs -> SubState]
  /\ \A s \in Subs : Alike(b, x, s)
  /\ \A s \in Subs : s # a => x[s].state = b[s].state
  /\ \/ a = NULL
     \/ /\ a \in Subs /\ Held(b, a) /\ b[a].client = f /\ x[a].state = "ALIVE"
        /\ c[f].kind = "ws" <=> us[b[a].user].transport = "ws"
     \/ a \in Subs /\ ~Held(b, a) /\ ~Wait(c, f)

LEMMA AttachStep ==
  ASSUME TypeOK, NEW f \in Sockets, co[f].kind = "ws" \/ co[f].attach = NULL,
         NEW c, NEW b, NEW us, NEW x, NEW a, NEW down \in BOOLEAN,
         Ready(c, b, us, x, f, a), Attach(f, c, x, a, down)
  PROVE  /\ Typed(co', sub', us) /\ Ok(co', sub', us) /\ Reached(co', sub')
         /\ corrupt' \in BOOLEAN
<1> DEFINE old == co[f].attach
           drops == co[f].kind = "ws" /\ old # NULL /\ old # a
           c1 == IF down /\ co[f].kind = "http" THEN safe_shutdown(c, {f}) ELSE c
<1>1. /\ co' = [c1 EXCEPT ![f].attach = a, ![f].done = TRUE]
      /\ sub' = IF drops /\ x[old].live THEN [x EXCEPT ![old].state = "ADIED",
                                                        ![old].lost = x[old].wait]
                ELSE x
      /\ corrupt' = (drops /\ ~x[old].live)
  BY DEF Attach
<1>2. c \in [Sockets -> SocketState] /\ x \in [Subs -> SubState] /\ a \in Subs \cup {NULL}
  BY DEF Ready, Typed
<1>3. c1 \in [Sockets -> SocketState] /\ Quieter(c, c1)
  <2>1. CASE down /\ co[f].kind = "http"
    BY <1>2, <2>1, Shutdown
  <2>2. CASE ~(down /\ co[f].kind = "http")
    BY <1>2, <2>2 DEF Quieter, Quiet
  <2> QED
    BY <2>1, <2>2
<1>4. old \in Subs \cup {NULL}
  BY DEF TypeOK, SocketState
<1> HIDE DEF c1
<1>5. co' \in [Sockets -> SocketState] /\ \A g \in Sockets \ {f} : co'[g] = c1[g]
  <2>1. c1[f] \in SocketState
    BY <1>3
  <2>2. [c1[f] EXCEPT !.attach = a, !.done = TRUE] \in SocketState
    BY <1>2, <2>1 DEF SocketState
  <2> QED
    BY <1>1, <1>3, <2>2
<1>6. /\ co'[f].attach = a /\ co'[f].done /\ co'[f].kind = c1[f].kind
      /\ co'[f].conn = c1[f].conn /\ co'[f].burn = c1[f].burn
  <2>1. c1[f] \in SocketState
    BY <1>3
  <2>2. co'[f] = [c1[f] EXCEPT !.attach = a, !.done = TRUE]
    BY <1>1, <1>3
  <2> QED
    BY <2>1, <2>2 DEF SocketState
<1>7. \A g \in Sockets \ {f} : Quiet(c, co', g)
  BY <1>3, <1>5 DEF Quieter, Quiet, Wait
<1>8. /\ co'[f].kind = c[f].kind /\ co'[f].conn # "closed"
      /\ Wait(co', f) => Wait(c, f)
  BY <1>3, <1>6 DEF Quieter, Quiet, Wait, Ready
<1>9. sub' \in [Subs -> SubState] /\ (\A s \in Subs : Alike(x, sub', s))
      /\ (\A s \in Subs : s # old => sub'[s].state = x[s].state)
      /\ (\A s \in Subs : s # old => sub'[s] = x[s])
      /\ (drops /\ x[old].live => sub'[old].state = "ADIED" /\ sub'[old].lost = x[old].wait)
      /\ (~(drops /\ x[old].live) => sub' = x)
  <2>1. CASE drops /\ x[old].live
    <3> DEFINE n == [x[old] EXCEPT !.state = "ADIED", !.lost = x[old].wait]
    <3>1. old \in Subs /\ sub' = [x EXCEPT ![old] = n]
      BY <1>1, <1>2, <1>4, <2>1
    <3>2. x[old] \in SubState /\ sub'[old] = n
      BY <1>2, <3>1
    <3>3. n \in SubState /\ sub'[old].state = "ADIED" /\ sub'[old].lost = x[old].wait
          /\ Alike(x, sub', old)
      BY <3>2 DEF SubState, Alike, SameOwner
    <3>4. sub' \in [Subs -> SubState] /\ \A s \in Subs \ {old} : sub'[s] = x[s]
      <4> HIDE DEF n
      <4> QED
        BY <1>2, <3>1, <3>3
    <3> HIDE DEF old
    <3> QED
      BY <2>1, <3>3, <3>4 DEF Alike, SameOwner
  <2>2. CASE ~(drops /\ x[old].live)
    BY <1>1, <1>2, <2>2 DEF Alike, SameOwner
  <2> QED
    BY <2>1, <2>2
<1>10. \A s \in Subs : Alike(b, sub', s)
  BY <1>9 DEF Ready, Alike, SameOwner
<1>11. ASSUME NEW s \in Subs, s # a
       PROVE  /\ sub'[s].state = b[s].state \/ (s = c[f].attach /\ sub'[s].state = "ADIED")
              /\ s = c[f].attach /\ Held(b, s) => sub'[s].state = "ADIED"
  <2>1. x[s].state = b[s].state /\ c[f].attach = old /\ (Held(b, s) => x[s].live) /\ s # NULL
    BY <1>11 DEF Ready, Alike, SameOwner, Held
  <2>2. CASE s # old
    BY <1>9, <2>1, <2>2
  <2>3. CASE s = old
    <3>1. co[f].kind = "ws" /\ drops
      BY <1>11, <2>1, <2>3
    <3> HIDE DEF drops, old
    <3>2. CASE x[s].live
      BY <1>9, <2>1, <2>3, <3>1, <3>2
    <3>3. CASE ~x[s].live
      BY <1>9, <2>1, <2>3, <3>1, <3>3
    <3> QED
      BY <3>2, <3>3
  <2> QED
    BY <2>2, <2>3
<1>12. a \in Subs => sub'[a].state = x[a].state
  BY <1>9
<1>13. Attached(c, b, us, f, a, co', sub')
  <2> HIDE DEF old, drops
  <2>1. \/ a = NULL
        \/ /\ a \in Subs /\ Held(b, a) /\ b[a].client = f /\ sub'[a].state = "ALIVE"
           /\ c[f].kind = "ws" <=> us[b[a].user].transport = "ws"
        \/ a \in Subs /\ ~Held(b, a) /\ ~Wait(co', f)
    BY <1>8, <1>12 DEF Ready
  <2> QED
    BY <1>6, <1>7, <1>8, <1>10, <1>11, <2>1 DEF Attached
<1>14. Ok(co', sub', us)
  BY <1>13, AttachOk DEF Ready
<1>15. corrupt' \in BOOLEAN
  BY <1>1
<1>16. Reached(co', sub')
  <2> SUFFICES ASSUME NEW s \in Subs, Orphan(sub', s) PROVE Led(co', s)
    BY DEF Reached
  <2>1. CASE s = a
    BY <1>6, <1>8, <2>1 DEF Led
  <2>2. CASE s # a /\ s # old
    <3>1. Orphan(x, s)
      BY <1>9, <2>2 DEF Orphan
    <3>2. PICK g \in Sockets : c[g].conn # "closed" /\ c[g].attach = s
      BY <2>2, <3>1 DEF Ready, ReachedBut, Led
    <3>3. g # f
      BY <2>2, <3>2 DEF Ready
    <3> QED
      BY <1>7, <3>2, <3>3 DEF Led, Quiet
  <2>3. CASE s # a /\ s = old
    <3>1. x[s].live /\ x[s].wait
      BY <1>9 DEF Orphan, Alike, SameOwner, Ready, Ok, OkUsers, OwnedIn
    <3>2. drops
      BY <2>3
    <3>3. sub'[s].lost
      BY <1>9, <2>3, <3>1, <3>2
    <3> QED
      BY <3>3 DEF Orphan
  <2> QED
    BY <2>1, <2>2, <2>3
<1> QED
  BY <1>5, <1>9, <1>14, <1>15, <1>16 DEF Ready, Typed

-----------------------------------------------------------------------------
(* The actions.  Each leaves tables that are typed and satisfy Ok.          *)
Stepped ==
  Typed(co', sub', usr') /\ Ok(co', sub', usr') /\ Reached(co', sub') /\ corrupt' \in BOOLEAN

(* A user is completed, or its latest stamp moves to another of its        *)
(* subusers.                                                                *)
LEMMA UsersOk ==
  ASSUME NEW c, NEW b, NEW us, NEW us2, Typed(c, b, us), Ok(c, b, us),
         \A v \in Users :
            /\ us2[v].transport = us[v].transport
            /\ us2[v].st = "none" <=> us[v].st = "none"
            /\ us2[v].st = "tmp" => us[v].st = "tmp" /\ us2[v].last = us[v].last
            /\ us2[v].last = us[v].last \/ us2[v].last \in SubsOf(b, v)
            /\ us2[v].st = us[v].st \/ us2[v].last \in SubsOf(b, v)
  PROVE  Ok(c, b, us2)
<1>1. \A s \in Subs : b[s].user # NULL => b[s].user \in Users
  BY DEF Typed, SubState
<1>2. OwnedIn(b, us2) /\ TmpAlone(b, us2)
  BY <1>1 DEF Ok, OkUsers, OwnedIn, TmpAlone, Held
<1>3. LastHeld(b, us2)
  BY DEF Ok, OkUsers, LastHeld, SubsOf
<1>4. KindAgrees(c, b, us2)
  BY <1>1 DEF Ok, OkSockets, KindAgrees, Held
<1> QED
  BY <1>2, <1>3, <1>4 DEF Ok, OkUsers, OkSockets

LEMMA BadMessageStep ==
  ASSUME SInv, NEW f \in Sockets, BadMessage(f)
  PROVE  Stepped
<1>1. PICK slow \in BOOLEAN : Attach(f, sendbin(co, f, slow), sub, NULL, TRUE)
  BY DEF BadMessage
<1> DEFINE c == sendbin(co, f, slow)
<1>2. Typed(co, sub, usr) /\ co \in [Sockets -> SocketState]
  BY DEF SInv, TypeOK, Typed
<1>3. c \in [Sockets -> SocketState] /\ Quieter(co, c)
  BY <1>2, Written
<1>4. co[f].conn # "closed" /\ (co[f].kind = "ws" \/ co[f].attach = NULL)
  BY ReadableSocket DEF SInv, BadMessage
<1> HIDE DEF c
<1>5. Ok(c, sub, usr)
  BY <1>2, <1>3, QuietOk DEF SInv
<1>8. ReachedBut(c, sub, NULL)
  BY <1>3, QuietReached DEF SInv, Reached, ReachedBut
<1>6. Ready(c, sub, usr, sub, f, NULL)
  BY <1>2, <1>3, <1>4, <1>5, <1>8 DEF Ready, Typed, Quieter, Quiet, Alike, SameOwner
<1>7. Attach(f, c, sub, NULL, TRUE)
  BY <1>1 DEF c
<1> QED
  BY <1>4, <1>6, <1>7, AttachStep DEF Stepped, BadMessage, SInv

LEMMA ConnectStep ==
  ASSUME SInv, NEW f \in Sockets, NEW u \in Users, NEW s \in Subs, NEW t \in Transports,
         NEW reply \in Replies, Connect(f, u, s, t, reply)
  PROVE  Stepped
<1> DEFINE b == addsubuser(sub, s, f, u)
           st == IF reply = "continue" THEN "on" ELSE "tmp"
<1>1. Typed(co, sub, usr) /\ co \in [Sockets -> SocketState] /\ sub \in [Subs -> SubState]
      /\ usr \in [Users -> UserState]
  BY DEF SInv, TypeOK, Typed
<1>2. /\ b \in [Subs -> SubState]
      /\ \A r \in Subs \ {s} : b[r] = sub[r]
      /\ b[s].live /\ b[s].user = u /\ b[s].client = f /\ ~b[s].wait /\ b[s].state = "ADIED"
  BY AddsCell DEF SInv
<1>3. Readable(f) /\ usr[u].st = "none" /\ Fresh(s) /\ (co[f].kind = "ws" <=> t = "ws")
  BY DEF Connect
<1>4. co[f].conn # "closed" /\ (co[f].kind = "ws" \/ co[f].attach = NULL)
  BY <1>3, ReadableSocket DEF SInv
<1>5. usr' = [usr EXCEPT ![u] = [st |-> st, transport |-> t, last |-> s]]
  BY DEF Connect
<1>6. st \in {"tmp", "on"} /\ t \in TransportKinds
  BY TransportAssumption
<1>7. /\ usr' \in [Users -> UserState] /\ (\A v \in Users \ {u} : usr'[v] = usr[v])
      /\ usr'[u].st = st /\ usr'[u].last = s /\ usr'[u].transport = t
  <2> HIDE DEF st
  <2>1. [st |-> st, transport |-> t, last |-> s] \in UserState
    BY <1>6 DEF UserState
  <2> QED
    BY <1>1, <1>5, <2>1
<1> HIDE DEF b, st
<1>8. Added(co, sub, usr, f, u, s, b, usr')
  BY <1>2, <1>3, <1>6, <1>7 DEF Added, Fresh
<1>9. Ok(co, b, usr') /\ Typed(co, b, usr')
  BY <1>1, <1>2, <1>7, <1>8, AddOk DEF SInv, Typed
<1>12. Reached(co, b)
  BY <1>2 DEF SInv, Reached, Orphan
<1>10. CASE reply = "refuse"
  <2>1. PICK slow \in BOOLEAN : Attach(f, sendbin(co, f, slow), b, NULL, TRUE)
    BY <1>10 DEF Connect, b
  <2> DEFINE c == sendbin(co, f, slow)
  <2>2. c \in [Sockets -> SocketState] /\ Quieter(co, c)
    BY <1>1, Written
  <2>3. Attach(f, c, b, NULL, TRUE)
    BY <2>1
  <2> HIDE DEF c
  <2>4. Ok(c, b, usr')
    BY <1>9, <2>2, QuietOk
  <2>5. Ready(c, b, usr', b, f, NULL)
    <3>1. ReachedBut(c, b, NULL)
      BY <1>12, <2>2, QuietReached DEF Reached, ReachedBut
    <3> QED
      BY <1>2, <1>4, <1>9, <2>2, <2>4, <3>1 DEF Ready, Typed, Quieter, Quiet, Alike, SameOwner
  <2> QED
    BY <1>4, <2>3, <2>5, AttachStep DEF Stepped, SInv
<1>11. CASE reply # "refuse"
  <2> DEFINE p == reply # "hang"
             x == [b EXCEPT ![s].state = "ALIVE", ![s].pend = p]
  <2>1. Attach(f, co, x, s, FALSE)
    BY <1>11 DEF Connect, b
  <2>2. p \in BOOLEAN
    OBVIOUS
  <2> HIDE DEF p
  <2>3. x[s] = [b[s] EXCEPT !.state = "ALIVE", !.pend = p] /\ b[s] \in SubState
    BY <1>2
  <2>4. [b[s] EXCEPT !.state = "ALIVE", !.pend = p] \in SubState
    BY <2>2, <2>3 DEF SubState
  <2>5. x \in [Subs -> SubState] /\ \A r \in Subs \ {s} : x[r] = b[r]
    BY <1>2, <2>4
  <2> HIDE DEF x
  <2>6. Alike(b, x, s) /\ x[s].state = "ALIVE"
    BY <2>3 DEF Alike, SameOwner, SubState
  <2>7. Held(b, s) /\ b[s].client = f /\ b[s].user = u
    BY <1>2 DEF Held
  <2>8. Ready(co, b, usr', x, f, s)
    <3>1. ReachedBut(co, x, s)
      BY <1>12, <2>5 DEF Reached, ReachedBut, Orphan
    <3> QED
      BY <1>3, <1>4, <1>7, <1>9, <2>5, <2>6, <2>7, <3>1 DEF Ready, Alike, SameOwner
  <2> QED
    BY <1>4, <2>1, <2>8, AttachStep DEF Stepped, SInv
<1> QED
  BY <1>10, <1>11

(* The process ends at a null pointer; it leaves the tables alone.          *)
LEMMA NullPointerStep ==
  ASSUME SInv, NullPointer
  PROVE  Stepped
  BY DEF SInv, TypeOK, NullPointer, Stepped, Typed

(* A user that addsubuser() gave no subuser.                                *)
LEMMA BareOk ==
  ASSUME NEW c, NEW b, NEW us, Typed(c, b, us), Ok(c, b, us), NEW u \in Users, us[u].st = "none",
         NEW us2, \A v \in Users \ {u} : us2[v] = us[v], us2[u].st = "tmp", us2[u].last = NULL
  PROVE  Ok(c, b, us2)
<1>1. \A s \in Subs : Held(b, s) => b[s].user \in Users \ {u}
  BY DEF Held, Typed, SubState, Ok, OkUsers, OwnedIn
<1>2. OwnedIn(b, us2)
  BY <1>1 DEF Ok, OkUsers, OwnedIn, Held
<1>3. LastHeld(b, us2)
  BY DEF Ok, OkUsers, LastHeld
<1>4. TmpAlone(b, us2)
  BY <1>1 DEF Ok, OkUsers, TmpAlone
<1>5. KindAgrees(c, b, us2)
  BY <1>1 DEF Ok, OkSockets, KindAgrees
<1> QED
  BY <1>2, <1>3, <1>4, <1>5 DEF Ok, OkUsers, OkSockets

LEMMA ConnectTooLongStep ==
  ASSUME SInv, NEW f \in Sockets, NEW u \in Users, NEW t \in Transports,
         NEW reply \in Replies, ConnectTooLong(f, u, t, reply)
  PROVE  Stepped
<1>1. CASE reply # "refuse"
  BY <1>1, NullPointerStep DEF ConnectTooLong
<1>2. CASE reply = "refuse"
  <2>1. PICK slow \in BOOLEAN : Attach(f, sendbin(co, f, slow), sub, NULL, TRUE)
    BY <1>2 DEF ConnectTooLong
  <2> DEFINE c == sendbin(co, f, slow)
             n == [st |-> "tmp", transport |-> t, last |-> NULL]
  <2>2. usr' = [usr EXCEPT ![u] = n] /\ usr[u].st = "none" /\ Readable(f)
    BY <1>2 DEF ConnectTooLong
  <2>3. /\ Typed(co, sub, usr) /\ co \in [Sockets -> SocketState] /\ sub \in [Subs -> SubState]
        /\ usr \in [Users -> UserState]
    BY DEF SInv, TypeOK, Typed
  <2>4. n \in UserState /\ n.st = "tmp" /\ n.last = NULL
    BY TransportAssumption DEF UserState
  <2>5. c \in [Sockets -> SocketState] /\ Quieter(co, c)
    BY <2>3, Written
  <2>6. co[f].conn # "closed" /\ (co[f].kind = "ws" \/ co[f].attach = NULL)
    BY <2>2, ReadableSocket DEF SInv
  <2>7. Attach(f, c, sub, NULL, TRUE)
    BY <2>1
  <2> HIDE DEF c, n
  <2>8. usr' \in [Users -> UserState] /\ usr'[u] = n /\ \A v \in Users \ {u} : usr'[v] = usr[v]
    BY <2>2, <2>3, <2>4
  <2>9. Ok(c, sub, usr)
    BY <2>3, <2>5, QuietOk DEF SInv
  <2>10. Ok(c, sub, usr')
    <3>1. Typed(c, sub, usr)
      BY <2>3, <2>5 DEF Typed
    <3> QED
      BY <2>2, <2>4, <2>8, <2>9, <3>1, BareOk
  <2>11. ReachedBut(c, sub, NULL)
    BY <2>5, QuietReached DEF SInv, Reached, ReachedBut
  <2>12. Ready(c, sub, usr', sub, f, NULL)
    BY <2>3, <2>5, <2>6, <2>8, <2>10, <2>11 DEF Ready, Typed, Quieter, Quiet, Alike, SameOwner
  <2> QED
    BY <2>6, <2>7, <2>12, AttachStep DEF Stepped, SInv
<1> QED
  BY <1>1, <1>2

(* Raws queued on some subusers.                                            *)
LEMMA QueuedOk ==
  ASSUME TypeOK, NEW S,
         sub' = [s \in Subs |-> IF s \in S THEN [sub[s] EXCEPT !.pend = TRUE] ELSE sub[s]]
  PROVE  sub' \in [Subs -> SubState] /\ SameSubs(sub, sub')
<1>1. ASSUME NEW s \in Subs
      PROVE  /\ sub'[s] \in SubState /\ Alike(sub, sub', s)
             /\ sub'[s].state = sub[s].state /\ sub'[s].lost = sub[s].lost
  <2>1. sub[s] \in SubState
    BY DEF TypeOK
  <2>2. CASE s \in S
    <3>1. sub'[s] = [sub[s] EXCEPT !.pend = TRUE]
      BY <2>2
    <3> QED
      BY <2>1, <3>1 DEF SubState, Alike, SameOwner
  <2>3. CASE s \notin S
    BY <2>1, <2>3 DEF Alike, SameOwner
  <2> QED
    BY <2>2, <2>3
<1>2. sub' = [s \in Subs |-> sub'[s]]
  OBVIOUS
<1>3. sub' \in [Subs -> SubState]
  BY <1>1, <1>2
<1> QED
  BY <1>1, <1>3 DEF SameSubs

LEMMA CompleteConnectStep ==
  ASSUME SInv, NEW u \in Users, CompleteConnect(u)
  PROVE  Stepped
<1>1. Typed(co, sub, usr) /\ usr \in [Users -> UserState] /\ corrupt \in BOOLEAN
  BY DEF SInv, TypeOK, Typed
<1>2. usr' = [usr EXCEPT ![u].st = "on"] /\ usr[u].st = "tmp" /\ UNCHANGED <<co, corrupt>>
  BY DEF CompleteConnect
<1>3. usr[u] \in UserState /\ usr'[u] = [usr[u] EXCEPT !.st = "on"]
  BY <1>1, <1>2
<1>4. [usr[u] EXCEPT !.st = "on"] \in UserState
  BY <1>3 DEF UserState
<1>5. usr' \in [Users -> UserState] /\ \A v \in Users \ {u} : usr'[v] = usr[v]
  BY <1>1, <1>2, <1>4
<1>6. usr'[u].st = "on" /\ usr'[u].transport = usr[u].transport /\ usr'[u].last = usr[u].last
  BY <1>3 DEF UserState
<1>7. Ok(co, sub, usr')
  <2>1. \A v \in Users :
            /\ usr'[v].transport = usr[v].transport
            /\ usr'[v].st = "none" <=> usr[v].st = "none"
            /\ usr'[v].st = "tmp" => usr[v].st = "tmp" /\ usr'[v].last = usr[v].last
            /\ usr'[v].last = usr[v].last \/ usr'[v].last \in SubsOf(sub, v)
            /\ usr'[v].st = usr[v].st \/ usr'[v].last \in SubsOf(sub, v)
    <3>1. PICK s \in Subs : sub[s].live /\ sub[s].user = u
      BY DEF CompleteConnect, SubsOf
    <3>2. Held(sub, s)
      BY <3>1 DEF Held
    <3>3. usr[u].last = s
      BY <1>2, <3>1, <3>2 DEF SInv, Ok, OkUsers, TmpAlone
    <3>4. usr[u].last \in SubsOf(sub, u)
      BY <3>1, <3>3 DEF SubsOf
    <3> QED
      BY <1>2, <1>5, <1>6, <3>4
  <2> QED
    BY <1>1, <2>1, UsersOk DEF SInv
<1>8. sub' \in [Subs -> SubState] /\ SameSubs(sub, sub')
  <2> DEFINE S == SubsOf(sub, u)
  <2>1. sub' = [s \in Subs |-> IF s \in S THEN [sub[s] EXCEPT !.pend = TRUE] ELSE sub[s]]
    BY DEF CompleteConnect
  <2> HIDE DEF S
  <2> QED
    BY <2>1, QueuedOk DEF SInv
<1>9. Ok(co, sub', usr') /\ Reached(co, sub')
  BY <1>7, <1>8, SameOk, SameReached DEF SInv
<1> QED
  BY <1>1, <1>2, <1>5, <1>8, <1>9 DEF Stepped, Typed

LEMMA PostStep ==
  ASSUME SInv, NEW u \in Users, Post(u)
  PROVE  Stepped
<1>1. Typed(co, sub, usr) /\ UNCHANGED <<co, usr, corrupt>> /\ corrupt \in BOOLEAN
  BY DEF SInv, TypeOK, Typed, Post
<1>2. sub' \in [Subs -> SubState] /\ SameSubs(sub, sub')
  <2> DEFINE S == SubsOf(sub, u)
  <2>1. sub' = [s \in Subs |-> IF s \in S THEN [sub[s] EXCEPT !.pend = TRUE] ELSE sub[s]]
    BY DEF Post
  <2> HIDE DEF S
  <2> QED
    BY <2>1, QueuedOk DEF SInv
<1>3. Ok(co, sub', usr) /\ Reached(co, sub')
  BY <1>2, SameOk, SameReached DEF SInv
<1> QED
  BY <1>1, <1>2, <1>3 DEF Stepped, Typed

(* The stamp of u moves to s once s has been found for it.                  *)
LEMMA Touched ==
  ASSUME TypeOK, NEW r, NEW f, NEW u \in Users, NEW s \in Subs, usr[u].st = "on",
         FoundIn(r, f, u, s), Touch(u, s)
  PROVE  /\ usr' \in [Users -> UserState] /\ usr'[u].transport = usr[u].transport
         /\ Ok(r.c, r.b, usr') /\ Typed(r.c, r.b, usr')
<1>1. usr \in [Users -> UserState] /\ usr' = [usr EXCEPT ![u].last = s]
  BY DEF TypeOK, Touch
<1>2. usr[u] \in UserState /\ usr'[u] = [usr[u] EXCEPT !.last = s]
  BY <1>1
<1>3. [usr[u] EXCEPT !.last = s] \in UserState
  BY <1>2 DEF UserState
<1>4. usr' \in [Users -> UserState] /\ \A v \in Users \ {u} : usr'[v] = usr[v]
  BY <1>1, <1>3
<1>5. usr'[u].st = usr[u].st /\ usr'[u].transport = usr[u].transport /\ usr'[u].last = s
  BY <1>2 DEF UserState
<1>6. s \in SubsOf(r.b, u)
  BY DEF FoundIn, SubsOf
<1>7. \A v \in Users :
            /\ usr'[v].transport = usr[v].transport
            /\ usr'[v].st = "none" <=> usr[v].st = "none"
            /\ usr'[v].st = "tmp" => usr[v].st = "tmp" /\ usr'[v].last = usr[v].last
            /\ usr'[v].last = usr[v].last \/ usr'[v].last \in SubsOf(r.b, v)
            /\ usr'[v].st = usr[v].st \/ usr'[v].last \in SubsOf(r.b, v)
  BY <1>4, <1>5, <1>6
<1>8. Ok(r.c, r.b, usr')
  BY <1>7, UsersOk DEF FoundIn
<1> QED
  BY <1>4, <1>5, <1>8 DEF FoundIn, Typed

(* s is woken.                                                              *)
LEMMA Woken ==
  ASSUME NEW b \in [Subs -> SubState], NEW s \in Subs
  PROVE  LET x == [b EXCEPT ![s].state = "ALIVE"] IN
         /\ x \in [Subs -> SubState] /\ x[s].state = "ALIVE"
         /\ \A r \in Subs : Alike(b, x, r) /\ x[r].lost = b[r].lost
         /\ \A r \in Subs \ {s} : x[r] = b[r]
<1> DEFINE x == [b EXCEPT ![s].state = "ALIVE"]
<1>1. b[s] \in SubState /\ x[s] = [b[s] EXCEPT !.state = "ALIVE"]
  OBVIOUS
<1>2. [b[s] EXCEPT !.state = "ALIVE"] \in SubState
  BY <1>1 DEF SubState
<1>3. x \in [Subs -> SubState] /\ \A r \in Subs \ {s} : x[r] = b[r]
  BY <1>2
<1> HIDE DEF x
<1>4. Alike(b, x, s) /\ x[s].state = "ALIVE" /\ x[s].lost = b[s].lost
  BY <1>1 DEF Alike, SameOwner, SubState
<1> QED
  BY <1>3, <1>4 DEF Alike, SameOwner, x

LEMMA CommandStep ==
  ASSUME SInv, NEW f \in Sockets, NEW u \in Users, NEW s \in Subs, Command(f, u, s)
  PROVE  Stepped
<1>1. Speaks(f, u, s) /\ Touch(u, s)
  BY DEF Command
<1>2. PICK slow \in BOOLEAN :
        LET r == Found(f, u, s, slow)
        IN  Attach(f, r.c, [r.b EXCEPT ![s].state = "ALIVE"], IF r.att THEN s ELSE NULL, FALSE)
  BY DEF Command
<1> DEFINE r == Found(f, u, s, slow)
           x == [r.b EXCEPT ![s].state = "ALIVE"]
           a == IF r.att THEN s ELSE NULL
<1>3. FoundIn(r, f, u, s)
  BY <1>1, FoundOk DEF SInv
<1>4. Attach(f, r.c, x, a, FALSE)
  BY <1>2
<1> HIDE DEF r
<1>5. Readable(f) /\ usr[u].st = "on" /\ (co[f].kind = "ws" <=> usr[u].transport = "ws")
  BY <1>1 DEF Speaks
<1>6. co[f].conn # "closed" /\ (co[f].kind = "ws" \/ co[f].attach = NULL)
  BY <1>5, ReadableSocket DEF SInv
<1>7. /\ usr'[u].transport = usr[u].transport
      /\ Ok(r.c, r.b, usr') /\ Typed(r.c, r.b, usr')
  BY <1>1, <1>3, <1>5, Touched DEF SInv
<1>8. /\ x \in [Subs -> SubState] /\ x[s].state = "ALIVE"
      /\ \A q \in Subs : Alike(r.b, x, q)
      /\ \A q \in Subs \ {s} : x[q] = r.b[q]
  <2>1. r.b \in [Subs -> SubState]
    BY <1>7 DEF Typed
  <2> QED
    BY <2>1, Woken
<1> HIDE DEF x
<1>9. Held(r.b, s) /\ r.b[s].user = u
  BY <1>3 DEF FoundIn, Held
<1>10. Ready(r.c, r.b, usr', x, f, a)
  <2>3. ReachedBut(r.c, x, a)
    BY <1>3, <1>8, <1>9 DEF FoundIn, Reached, ReachedBut, Orphan, Alike, SameOwner, Held
  <2>1. CASE r.att
    BY <1>3, <1>5, <1>7, <1>8, <1>9, <2>1, <2>3 DEF Ready, FoundIn
  <2>2. CASE ~r.att
    BY <1>3, <1>7, <1>8, <2>2, <2>3 DEF Ready, FoundIn
  <2> QED
    BY <2>1, <2>2
<1> HIDE DEF a
<1> QED
  BY <1>4, <1>6, <1>10, AttachStep DEF Stepped, SInv

LEMMA CommandInlineStep ==
  ASSUME SInv, NEW f \in Sockets, NEW u \in Users, NEW s \in Subs, CommandInline(f, u, s)
  PROVE  Stepped
<1>1. Speaks(f, u, s) /\ Touch(u, s)
  BY DEF CommandInline
<1>2. PICK slow \in BOOLEAN :
        LET r == Found(f, u, s, slow)
        IN  Attach(f, sendbin(r.c, r.b[s].client, slow), r.b, NULL, TRUE)
  BY DEF CommandInline
<1> DEFINE r == Found(f, u, s, slow)
           c == sendbin(r.c, r.b[s].client, slow)
<1>3. FoundIn(r, f, u, s)
  BY <1>1, FoundOk DEF SInv
<1>4. Attach(f, c, r.b, NULL, TRUE)
  BY <1>2
<1> HIDE DEF r
<1>5. Readable(f) /\ usr[u].st = "on"
  BY <1>1 DEF Speaks
<1>6. co[f].conn # "closed" /\ (co[f].kind = "ws" \/ co[f].attach = NULL)
  BY <1>5, ReadableSocket DEF SInv
<1>7. Ok(r.c, r.b, usr') /\ Typed(r.c, r.b, usr')
  BY <1>1, <1>3, <1>5, Touched DEF SInv
<1>8. r.b[s].client \in Sockets
  BY <1>3, <1>7 DEF FoundIn, Ok, OkUsers, ClientKnown
<1>9. c \in [Sockets -> SocketState] /\ Quieter(r.c, c)
  <2>1. r.c \in [Sockets -> SocketState]
    BY <1>7 DEF Typed
  <2> QED
    BY <1>8, <2>1, Written
<1> HIDE DEF c
<1>10. Ok(c, r.b, usr') /\ Typed(c, r.b, usr')
  BY <1>7, <1>9, QuietOk DEF Typed
<1>12. ReachedBut(c, r.b, NULL)
  BY <1>3, <1>9, QuietReached DEF FoundIn, Reached, ReachedBut
<1>11. Ready(c, r.b, usr', r.b, f, NULL)
  BY <1>3, <1>9, <1>10, <1>12 DEF Ready, FoundIn, Typed, Quieter, Quiet, Alike, SameOwner
<1> QED
  BY <1>4, <1>6, <1>11, AttachStep DEF Stepped, SInv

(* The table of users without u.                                            *)
LEMMA UserGone ==
  ASSUME NEW us \in [Users -> UserState], NEW u \in Users
  PROVE  [us EXCEPT ![u] = NoUser] \in [Users -> UserState]
<1>1. NoUser \in UserState
  BY DEF NoUser, UserState, TransportKinds
<1> HIDE DEF NoUser
<1> QED
  BY <1>1

LEMMA QuitStep ==
  ASSUME SInv, NEW f \in Sockets, NEW u \in Users, NEW s \in Subs, NEW after \in BOOLEAN,
         Quit(f, u, s, after)
  PROVE  Stepped
<1>1. Speaks(f, u, s) /\ usr' = [usr EXCEPT ![u] = NoUser]
  BY DEF Quit
<1>2. PICK slow \in BOOLEAN :
        LET r  == Found(f, u, s, slow)
            b1 == IF after THEN [r.b EXCEPT ![s].state = "ALIVE"] ELSE r.b
            S  == SubsOf(b1, u)
            a  == IF after /\ r.att THEN s ELSE NULL
        IN  Attach(f, delsubuser_co(sendbin(r.c, b1[s].client, slow), b1, S),
                   delsubuser_sub(b1, S), a, TRUE)
  BY DEF Quit
<1> DEFINE r == Found(f, u, s, slow)
           b1 == IF after THEN [r.b EXCEPT ![s].state = "ALIVE"] ELSE r.b
           S == SubsOf(b1, u)
           a == IF after /\ r.att THEN s ELSE NULL
           c == sendbin(r.c, b1[s].client, slow)
           d == delsubuser_co(c, b1, S)
           e == delsubuser_sub(b1, S)
<1>3. FoundIn(r, f, u, s)
  BY <1>1, FoundOk DEF SInv
<1>4. Attach(f, d, e, a, TRUE)
  BY <1>2
<1> HIDE DEF r
<1>5. Readable(f)
  BY <1>1 DEF Speaks
<1>6. co[f].conn # "closed" /\ (co[f].kind = "ws" \/ co[f].attach = NULL)
  BY <1>5, ReadableSocket DEF SInv
<1>7. r.c \in [Sockets -> SocketState] /\ r.b \in [Subs -> SubState] /\ Ok(r.c, r.b, usr)
      /\ usr \in [Users -> UserState]
  BY <1>3 DEF FoundIn, Typed
<1>8. /\ b1 \in [Subs -> SubState]
      /\ \A q \in Subs : Alike(r.b, b1, q)
      /\ \A q \in Subs \ {s} : b1[q] = r.b[q]
      /\ b1[s].state = r.b[s].state \/ (b1[s].state = "ALIVE" /\ after)
      /\ after => b1[s].state = "ALIVE"
  <2>1. CASE after
    BY <1>7, <2>1, Woken
  <2>2. CASE ~after
    BY <1>7, <2>2 DEF Alike, SameOwner
  <2> QED
    BY <2>1, <2>2
<1> HIDE DEF b1
<1>9. S = SubsOf(r.b, u) /\ s \in S /\ S \in SUBSET Subs /\ \A q \in S : Held(r.b, q)
  BY <1>3, <1>8 DEF SubsOf, Alike, SameOwner, Held, FoundIn
<1>10. b1[s].client = r.b[s].client /\ r.b[s].client \in Sockets
  BY <1>3, <1>7, <1>8 DEF FoundIn, Ok, OkUsers, ClientKnown, Alike
<1>11. c \in [Sockets -> SocketState] /\ Quieter(r.c, c)
  BY <1>7, <1>10, Written
<1> HIDE DEF c, S
<1>12. Typed(c, r.b, usr) /\ Ok(c, r.b, usr)
  BY <1>3, <1>7, <1>11, QuietOk DEF FoundIn, Typed
<1>19. Deletable(r.b, S, b1)
  BY <1>8, <1>9 DEF Deletable
<1>13. Deleted(c, r.b, S, b1, d, e)
  BY <1>12, <1>19, DelSubs
<1> HIDE DEF d, e
<1>14. Ok(d, e, usr') /\ Typed(d, e, usr')
  <2>1. Ok(d, e, [usr EXCEPT ![u] = NoUser])
    BY <1>9, <1>12, <1>13, DelUserOk DEF Deleted
  <2>2. [usr EXCEPT ![u] = NoUser] \in [Users -> UserState]
    BY <1>7, UserGone
  <2> QED
    BY <1>1, <1>13, <2>1, <2>2 DEF Typed, Deleted
<1>15. a = NULL \/ (a = s /\ after /\ r.att)
  OBVIOUS
<1>16. a = NULL \/ (a \in Subs /\ ~Held(e, a) /\ ~Wait(d, f))
  BY <1>3, <1>8, <1>9, <1>13, <1>15 DEF FoundIn, Deleted
<1>20. ReachedBut(d, e, a)
  <2>1. Reached(c, r.b)
    BY <1>3, <1>11, QuietReached DEF FoundIn
  <2>2. \A q \in S : b1[q].state = "ALIVE" => r.b[q].state = "ALIVE" \/ q = a
    BY <1>3, <1>8, <1>9 DEF FoundIn
  <2> HIDE DEF a
  <2> QED
    BY <1>12, <1>13, <1>19, <2>1, <2>2, DeletedReached
<1> HIDE DEF a
<1>17. d[f].conn # "closed" /\ d[f].kind = co[f].kind /\ d[f].attach = co[f].attach
  BY <1>3, <1>11, <1>13 DEF FoundIn, Quieter, Quiet, Deleted
<1>18. Ready(d, e, usr', e, f, a)
  BY <1>13, <1>14, <1>16, <1>17, <1>20 DEF Ready, Deleted, Alike, SameOwner
<1> QED
  BY <1>4, <1>6, <1>18, AttachStep DEF Stepped, SInv

LEMMA DelUserStep ==
  ASSUME SInv, NEW u \in Users, DelUser(u)
  PROVE  Stepped
<1> DEFINE S == SubsOf(sub, u)
           d == delsubuser_co(co, sub, S)
           e == delsubuser_sub(sub, S)
<1>1. co' = d /\ sub' = e /\ usr' = [usr EXCEPT ![u] = NoUser] /\ corrupt' = corrupt
  BY DEF DelUser
<1>2. Typed(co, sub, usr) /\ sub \in [Subs -> SubState] /\ usr \in [Users -> UserState]
      /\ corrupt \in BOOLEAN
  BY DEF SInv, TypeOK, Typed
<1>3. S \in SUBSET Subs /\ \A q \in S : Held(sub, q)
  BY DEF SubsOf, Held
<1> HIDE DEF S
<1>7. Deletable(sub, S, sub)
  BY <1>2, <1>3 DEF Deletable, Alike, SameOwner
<1>4. Deleted(co, sub, S, sub, d, e)
  BY <1>2, <1>7, DelSubs DEF SInv
<1> HIDE DEF d, e
<1>5. Ok(d, e, [usr EXCEPT ![u] = NoUser])
  BY <1>2, <1>4, DelUserOk DEF SInv, S, Deleted
<1>6. [usr EXCEPT ![u] = NoUser] \in [Users -> UserState]
  BY <1>2, UserGone
<1>8. Reached(d, e)
  <2>1. ReachedBut(d, e, NULL)
    BY <1>2, <1>4, <1>7, DeletedReached DEF SInv
  <2> QED
    BY <2>1 DEF Reached, ReachedBut
<1> QED
  BY <1>1, <1>2, <1>4, <1>5, <1>6, <1>8 DEF Stepped, Typed, Deleted

LEMMA IdleSubStep ==
  ASSUME SInv, NEW s \in Subs, IdleSub(s)
  PROVE  Stepped
<1> DEFINE S == {s}
           d == delsubuser_co(co, sub, S)
           e == delsubuser_sub(sub, S)
<1>1. co' = d /\ sub' = e /\ usr' = usr /\ corrupt' = corrupt
  BY DEF IdleSub
<1>2. Typed(co, sub, usr) /\ sub \in [Subs -> SubState] /\ usr \in [Users -> UserState]
      /\ corrupt \in BOOLEAN
  BY DEF SInv, TypeOK, Typed
<1>3. S \in SUBSET Subs /\ \A q \in S : Held(sub, q)
  BY DEF IdleSub, Held
<1>4. \A v \in Users : usr[v].st # "none" => usr[v].last \notin S
  BY DEF IdleSub, Idle, SInv, Ok, OkUsers, LastHeld
<1> HIDE DEF S
<1>8. Deletable(sub, S, sub)
  BY <1>2, <1>3 DEF Deletable, Alike, SameOwner
<1>5. Deleted(co, sub, S, sub, d, e)
  BY <1>2, <1>8, DelSubs DEF SInv
<1> HIDE DEF d, e
<1>6. Released(co, sub, usr, d, S, e, usr)
  BY <1>3, <1>4, <1>5 DEF Released, Deleted
<1>7. Ok(d, e, usr)
  BY <1>2, <1>5, <1>6, ReleaseOk DEF SInv, Deleted
<1>9. Reached(d, e)
  <2>1. ReachedBut(d, e, NULL)
    BY <1>2, <1>5, <1>8, DeletedReached DEF SInv
  <2> QED
    BY <2>1 DEF Reached, ReachedBut
<1> QED
  BY <1>1, <1>2, <1>5, <1>7, <1>9 DEF Stepped, Typed, Deleted

(* A field that nobody else depends on changes.                             *)
LEMMA Noted ==
  ASSUME NEW b \in [Subs -> SubState], NEW s \in Subs, NEW v \in BOOLEAN
  PROVE  /\ [b EXCEPT ![s].pend = v] \in [Subs -> SubState]
         /\ SameSubs(b, [b EXCEPT ![s].pend = v])
         /\ [b EXCEPT ![s].burn = v] \in [Subs -> SubState]
         /\ SameSubs(b, [b EXCEPT ![s].burn = v])
<1> DEFINE p == [b EXCEPT ![s].pend = v]
           q == [b EXCEPT ![s].burn = v]
<1>1. /\ b[s] \in SubState /\ p[s] = [b[s] EXCEPT !.pend = v]
      /\ q[s] = [b[s] EXCEPT !.burn = v]
      /\ \A r \in Subs \ {s} : p[r] = b[r] /\ q[r] = b[r]
  OBVIOUS
<1>2. [b[s] EXCEPT !.pend = v] \in SubState /\ [b[s] EXCEPT !.burn = v] \in SubState
  BY <1>1 DEF SubState
<1>3. p \in [Subs -> SubState] /\ q \in [Subs -> SubState]
  BY <1>2
<1> HIDE DEF p, q
<1>4. /\ Alike(b, p, s) /\ p[s].state = b[s].state /\ p[s].lost = b[s].lost
      /\ Alike(b, q, s) /\ q[s].state = b[s].state /\ q[s].lost = b[s].lost
  BY <1>1 DEF Alike, SameOwner, SubState
<1>5. SameSubs(b, p) /\ SameSubs(b, q)
  BY <1>1, <1>4 DEF SameSubs, Alike, SameOwner
<1> QED
  BY <1>3, <1>5 DEF p, q

(* do_died() of a subuser of a polling user.                                *)
LEMMA DiedStep ==
  ASSUME NEW c, NEW b, NEW us, Typed(c, b, us), Ok(c, b, us), NEW s \in Subs, Held(b, s),
         us[b[s].user].transport = "poll"
  PROVE  /\ Typed(do_died_co(c, b, s), do_died_sub(b, s), us)
         /\ Ok(do_died_co(c, b, s), do_died_sub(b, s), us)
         /\ Quieter(c, do_died_co(c, b, s))
         /\ Reached(c, b) => Reached(do_died_co(c, b, s), do_died_sub(b, s))
<1> DEFINE d == do_died_co(c, b, s)
           e == do_died_sub(b, s)
<1>1. c \in [Sockets -> SocketState] /\ b \in [Subs -> SubState] /\ us \in [Users -> UserState]
  BY DEF Typed
<1>2. b[s].client \in Sockets
  BY DEF Ok, OkUsers, ClientKnown, Held
<1>3. /\ d \in [Sockets -> SocketState] /\ Quieter(c, d)
      /\ b[s].state = "ALIVE" => ~Wait(d, b[s].client)
  <2>1. CASE b[s].state = "ALIVE"
    <3>1. d = safe_shutdown(c, {b[s].client})
      BY <2>1 DEF do_died_co
    <3> QED
      BY <1>1, <1>2, <3>1, Shutdown
  <2>2. CASE b[s].state # "ALIVE"
    BY <1>1, <2>2 DEF do_died_co, Quieter, Quiet
  <2> QED
    BY <2>1, <2>2
<1>4. /\ b[s] \in SubState /\ e[s] = [b[s] EXCEPT !.state = "ADIED"]
      /\ \A r \in Subs \ {s} : e[r] = b[r]
  BY <1>1 DEF do_died_sub
<1>5. e \in [Subs -> SubState]
  <2>1. [b[s] EXCEPT !.state = "ADIED"] \in SubState
    BY <1>4 DEF SubState
  <2> QED
    BY <1>1, <2>1 DEF do_died_sub
<1> HIDE DEF d, e
<1>6. Alike(b, e, s) /\ e[s].state = "ADIED" /\ e[s].lost = b[s].lost
  BY <1>4 DEF Alike, SameOwner, SubState
<1>7. \A r \in Subs : Alike(b, e, r)
  BY <1>4, <1>6 DEF Alike, SameOwner
<1>8. \A r \in Subs \ {s} : e[r].state = b[r].state
  BY <1>4
<1>9. us[b[s].user].transport # "ws"
  OBVIOUS
<1>10. Ok(d, e, us)
  BY <1>3, <1>6, <1>7, <1>8, <1>9, DiedOk
<1>11. Reached(c, b) => Reached(d, e)
  <2>1. NoNewOrphan(b, e)
    BY <1>4, <1>6 DEF NoNewOrphan, Orphan, Alike, SameOwner
  <2> QED
    BY <1>3, <2>1, ReachKept
<1> QED
  BY <1>1, <1>3, <1>5, <1>10, <1>11 DEF Typed, d, e

LEMMA FlushStep ==
  ASSUME SInv, NEW s \in Subs, Flush(s)
  PROVE  Stepped
<1>1. Flushable(s) /\ UNCHANGED <<usr, corrupt>>
  BY DEF Flush
<1>2. Typed(co, sub, usr) /\ co \in [Sockets -> SocketState] /\ sub \in [Subs -> SubState]
      /\ usr \in [Users -> UserState] /\ corrupt \in BOOLEAN
  BY DEF SInv, TypeOK, Typed
<1>3. Held(sub, s) /\ sub[s].client \in Sockets
  BY <1>1 DEF Flushable, Held, SInv, Ok, OkUsers, ClientKnown
<1> DEFINE f == sub[s].client
           b1 == [sub EXCEPT ![s].pend = FALSE]
<1>4. PICK slow \in BOOLEAN :
        LET c1       == sendbin(co, f, slow)
            finished == co[f].conn = "closed" \/ (~co[f].out /\ ~slow)
        IN  IF ~finished
            THEN co' = c1 /\ sub' = [b1 EXCEPT ![s].burn = TRUE]
            ELSE IF ClosesAfterAnswer(sub[s].user)
            THEN co' = do_died_co(c1, b1, s) /\ sub' = do_died_sub(b1, s)
            ELSE co' = c1 /\ sub' = b1
  BY DEF Flush
<1> DEFINE c1 == sendbin(co, f, slow)
<1>5. c1 \in [Sockets -> SocketState] /\ Quieter(co, c1)
  BY <1>2, <1>3, Written
<1>6. b1 \in [Subs -> SubState] /\ SameSubs(sub, b1)
  BY <1>2, Noted
<1>7. \/ co' = c1 /\ sub' = [b1 EXCEPT ![s].burn = TRUE]
      \/ /\ ClosesAfterAnswer(sub[s].user)
         /\ co' = do_died_co(c1, b1, s) /\ sub' = do_died_sub(b1, s)
      \/ co' = c1 /\ sub' = b1
  BY <1>4
<1> HIDE DEF c1, b1
<1>8. Typed(c1, b1, usr) /\ Ok(c1, b1, usr) /\ Reached(c1, b1)
  <2>1. Ok(c1, sub, usr) /\ Reached(c1, sub)
    BY <1>2, <1>5, QuietOk, QuietReached DEF SInv
  <2> QED
    BY <1>2, <1>5, <1>6, <2>1, SameOk, SameReached DEF Typed
<1>9. CASE co' = c1 /\ sub' = [b1 EXCEPT ![s].burn = TRUE]
  <2>1. sub' \in [Subs -> SubState] /\ SameSubs(b1, sub')
    BY <1>6, <1>9, Noted
  <2>2. Ok(c1, sub', usr) /\ Reached(c1, sub')
    BY <1>8, <2>1, SameOk, SameReached
  <2> QED
    BY <1>1, <1>2, <1>5, <1>9, <2>1, <2>2 DEF Stepped, Typed
<1>10. CASE /\ ClosesAfterAnswer(sub[s].user)
            /\ co' = do_died_co(c1, b1, s) /\ sub' = do_died_sub(b1, s)
  <2>1. Held(b1, s) /\ usr[b1[s].user].transport = "poll"
    BY <1>3, <1>6, <1>10 DEF SameSubs, Alike, SameOwner, Held, ClosesAfterAnswer
  <2>2. Typed(co', sub', usr) /\ Ok(co', sub', usr) /\ Reached(co', sub')
    BY <1>8, <1>10, <2>1, DiedStep
  <2> QED
    BY <1>1, <1>2, <2>2 DEF Stepped
<1>11. CASE co' = c1 /\ sub' = b1
  BY <1>1, <1>2, <1>8, <1>11 DEF Stepped
<1> QED
  BY <1>7, <1>9, <1>10, <1>11

LEMMA AcceptStep ==
  ASSUME SInv, NEW f \in Sockets, NEW k \in Kinds, NEW h \in Hosts, Accept(f, k, h)
  PROVE  Stepped
<1> DEFINE n == [Closed EXCEPT !.conn = "open", !.kind = k, !.host = h]
<1>1. co' = [co EXCEPT ![f] = n] /\ UNCHANGED <<sub, usr, corrupt>> /\ co[f].conn = "closed"
  BY DEF Accept
<1>2. Typed(co, sub, usr) /\ co \in [Sockets -> SocketState] /\ sub \in [Subs -> SubState]
      /\ usr \in [Users -> UserState] /\ corrupt \in BOOLEAN
  BY DEF SInv, TypeOK, Typed
<1>3. n \in SocketState /\ n.attach = NULL
  BY KindAssumption DEF Closed, SocketState
<1> HIDE DEF n
<1>4. co' \in [Sockets -> SocketState] /\ co'[f] = n /\ \A g \in Sockets \ {f} : co'[g] = co[g]
  BY <1>1, <1>2, <1>3
<1>5. \A s \in Subs : s # NULL
  OBVIOUS
<1>6. Unattached(co') /\ KindAgrees(co', sub, usr)
  BY <1>3, <1>4, <1>5 DEF SInv, Ok, OkSockets, Unattached, KindAgrees
<1>7. AliveIn(co', sub)
  BY <1>1, <1>4 DEF SInv, Ok, OkSockets, OkUsers, ClientKnown, AliveIn, Held
<1>8. Listener(co', sub)
  BY <1>3, <1>4, <1>5 DEF SInv, Ok, OkSockets, Listener, Wait
<1>9. Ok(co', sub, usr)
  BY <1>6, <1>7, <1>8 DEF SInv, Ok, OkSockets
<1>10. Reached(co', sub)
  BY <1>1, <1>4 DEF SInv, Reached, Led
<1> QED
  BY <1>1, <1>2, <1>4, <1>9, <1>10 DEF Stepped, Typed

(* A socket is shut down at once, or its buffer has drained.                *)
LEMMA Lowered ==
  ASSUME NEW c \in [Sockets -> SocketState], NEW f \in Sockets
  PROVE  /\ c[f].conn # "closed" => /\ [c EXCEPT ![f].conn = "shut"] \in [Sockets -> SocketState]
                                    /\ Quieter(c, [c EXCEPT ![f].conn = "shut"])
         /\ [c EXCEPT ![f].out = FALSE] \in [Sockets -> SocketState]
         /\ Quieter(c, [c EXCEPT ![f].out = FALSE])
<1> DEFINE p == [c EXCEPT ![f].conn = "shut"]
           q == [c EXCEPT ![f].out = FALSE]
<1>1. /\ c[f] \in SocketState /\ p[f] = [c[f] EXCEPT !.conn = "shut"]
      /\ q[f] = [c[f] EXCEPT !.out = FALSE]
      /\ \A g \in Sockets \ {f} : p[g] = c[g] /\ q[g] = c[g]
  OBVIOUS
<1>2. [c[f] EXCEPT !.conn = "shut"] \in SocketState /\ [c[f] EXCEPT !.out = FALSE] \in SocketState
  BY <1>1 DEF SocketState
<1>3. p \in [Sockets -> SocketState] /\ q \in [Sockets -> SocketState]
  BY <1>2
<1> HIDE DEF p, q
<1>4. (c[f].conn # "closed" => Quiet(c, p, f)) /\ Quiet(c, q, f)
  BY <1>1 DEF SocketState, Quiet, Wait
<1>5. \A g \in Sockets \ {f} : Quiet(c, p, g) /\ Quiet(c, q, g)
  BY <1>1 DEF Quiet, Wait
<1>6. (c[f].conn # "closed" => Quieter(c, p)) /\ Quieter(c, q)
  BY <1>4, <1>5 DEF Quieter
<1> QED
  BY <1>3, <1>6 DEF p, q

LEMMA PeerCloseStep ==
  ASSUME SInv, NEW f \in Sockets, PeerClose(f)
  PROVE  Stepped
<1>1. co' = [co EXCEPT ![f].conn = "shut"] /\ UNCHANGED <<sub, usr, corrupt>>
      /\ co[f].conn # "closed"
  BY DEF PeerClose
<1>2. Typed(co, sub, usr) /\ co \in [Sockets -> SocketState] /\ corrupt \in BOOLEAN
  BY DEF SInv, TypeOK, Typed
<1>3. co' \in [Sockets -> SocketState] /\ Quieter(co, co')
  BY <1>1, <1>2, Lowered
<1>4. Ok(co', sub, usr) /\ Reached(co', sub)
  BY <1>2, <1>3, QuietOk, QuietReached DEF SInv
<1> QED
  BY <1>1, <1>2, <1>3, <1>4 DEF Stepped, Typed

LEMMA DrainStep ==
  ASSUME SInv, NEW f \in Sockets, Drain(f)
  PROVE  Stepped
<1> DEFINE s == co[f].attach
           c1 == [co EXCEPT ![f].out = FALSE]
           sent == s # NULL /\ sub[s].live /\ sub[s].burn
           dies == sent /\ sub[s].user # NULL /\ ClosesAfterAnswer(sub[s].user)
           c2 == IF dies THEN do_died_co(c1, sub, s) ELSE c1
           b2 == IF dies THEN do_died_sub(sub, s) ELSE sub
<1>1. /\ co' = IF co[f].burn THEN [c2 EXCEPT ![f].conn = "shut"] ELSE c2
      /\ sub' = IF sent THEN [b2 EXCEPT ![s].burn = FALSE] ELSE sub
      /\ corrupt' = Dangling(f) /\ usr' = usr /\ co[f].conn # "closed"
  BY DEF Drain
<1>2. Typed(co, sub, usr) /\ co \in [Sockets -> SocketState] /\ sub \in [Subs -> SubState]
      /\ usr \in [Users -> UserState]
  BY DEF SInv, TypeOK, Typed
<1>3. c1 \in [Sockets -> SocketState] /\ Quieter(co, c1)
  BY <1>2, Lowered
<1>4. s \in Subs \cup {NULL}
  BY <1>2 DEF SocketState
<1>5. Dangling(f) \in BOOLEAN
  BY <1>2, <1>4 DEF Dangling, SubState
<1> HIDE DEF c1
<1>6. Typed(c1, sub, usr) /\ Ok(c1, sub, usr) /\ Reached(c1, sub)
  BY <1>2, <1>3, QuietOk, QuietReached DEF SInv, Typed
<1>7. /\ Typed(c2, b2, usr) /\ Ok(c2, b2, usr) /\ Reached(c2, b2) /\ Quieter(c1, c2)
      /\ ~dies => b2 = sub
  <2>1. CASE dies
    <3>1. s \in Subs /\ Held(sub, s) /\ usr[sub[s].user].transport = "poll"
      BY <1>4, <2>1 DEF Held, ClosesAfterAnswer
    <3>2. c2 = do_died_co(c1, sub, s) /\ b2 = do_died_sub(sub, s)
      BY <2>1
    <3> HIDE DEF s
    <3>3. /\ Typed(do_died_co(c1, sub, s), do_died_sub(sub, s), usr)
          /\ Ok(do_died_co(c1, sub, s), do_died_sub(sub, s), usr)
          /\ Quieter(c1, do_died_co(c1, sub, s))
          /\ Reached(do_died_co(c1, sub, s), do_died_sub(sub, s))
      BY <1>6, <3>1, DiedStep
    <3> QED
      BY <2>1, <3>2, <3>3
  <2>2. CASE ~dies
    <3>1. c2 = c1 /\ b2 = sub
      BY <2>2
    <3> QED
      BY <1>6, <3>1 DEF Quieter, Quiet
  <2> QED
    BY <2>1, <2>2
<1>8. ~sent => ~dies
  OBVIOUS
<1> HIDE DEF c2, b2, dies, sent, s
<1>9. c2 \in [Sockets -> SocketState] /\ b2 \in [Subs -> SubState]
  BY <1>7 DEF Typed
<1>10. c2[f].conn # "closed"
  BY <1>1, <1>3, <1>7 DEF Quieter, Quiet
<1>11. co' \in [Sockets -> SocketState] /\ Quieter(c2, co')
  <2>1. CASE co[f].burn
    BY <1>1, <1>9, <1>10, <2>1, Lowered
  <2>2. CASE ~co[f].burn
    BY <1>1, <1>9, <2>2 DEF Quieter, Quiet
  <2> QED
    BY <2>1, <2>2
<1>12. Ok(co', b2, usr) /\ Reached(co', b2)
  BY <1>7, <1>11, QuietOk, QuietReached
<1>13. sub' \in [Subs -> SubState] /\ SameSubs(b2, sub')
  <2>1. CASE sent
    <3>1. s \in Subs /\ sub' = [b2 EXCEPT ![s].burn = FALSE]
      BY <1>1, <1>4, <2>1 DEF sent
    <3> QED
      BY <1>9, <3>1, Noted
  <2>2. CASE ~sent
    BY <1>1, <1>7, <1>8, <1>9, <2>2 DEF SameSubs, Alike, SameOwner
  <2> QED
    BY <2>1, <2>2
<1>14. Ok(co', sub', usr) /\ Reached(co', sub')
  BY <1>12, <1>13, SameOk, SameReached
<1> QED
  BY <1>1, <1>2, <1>5, <1>11, <1>13, <1>14 DEF Stepped, Typed

LEMMA HangupStep ==
  ASSUME SInv, NEW f \in Sockets, Hangup(f)
  PROVE  Stepped
<1> DEFINE s == co[f].attach
           d == [co EXCEPT ![f] = Closed]
<1>1. co' = d /\ corrupt' = Dangling(f) /\ co[f].conn = "shut"
  BY DEF Hangup
<1>2. Typed(co, sub, usr) /\ co \in [Sockets -> SocketState] /\ sub \in [Subs -> SubState]
      /\ usr \in [Users -> UserState] /\ Ok(co, sub, usr)
  BY DEF SInv, TypeOK, Typed
<1>3. s \in Subs \cup {NULL}
  BY <1>2 DEF SocketState
<1>4. Dangling(f) \in BOOLEAN
  BY <1>2, <1>3 DEF Dangling, SubState
<1>5. d \in [Sockets -> SocketState] /\ \A g \in Sockets \ {f} : d[g] = co[g]
  <2>1. Closed \in SocketState
    BY DEF Closed, SocketState
  <2> HIDE DEF Closed
  <2> QED
    BY <1>2, <2>1
<1>6. d[f].attach = NULL
  BY <1>2 DEF Closed
<1>7. \A r \in Subs : Held(sub, r) /\ sub[r].state = "ALIVE" /\ sub[r].client = f => r = s
  BY <1>2 DEF Ok, OkSockets, AliveIn
<1>8. \A r \in Subs : Alike(sub, sub, r)
  BY DEF Alike, SameOwner
(* Who waits to be freed by another socket is still led to; one that       *)
(* waited for f is freed.                                                   *)
<1>12. ASSUME NoNewOrphan(sub, sub'), s \in Subs => ~Orphan(sub', s)
       PROVE  Reached(d, sub')
  <2> SUFFICES ASSUME NEW r \in Subs, Orphan(sub', r) PROVE Led(d, r)
    BY DEF Reached
  <2>1. PICK g \in Sockets : co[g].conn # "closed" /\ co[g].attach = r
    BY <1>12 DEF NoNewOrphan, SInv, Reached, Led
  <2>2. g # f
    BY <1>12, <2>1
  <2> QED
    BY <1>5, <2>1, <2>2 DEF Led
<1>13. s \in Subs /\ ~sub[s].wait => ~Orphan(sub, s)
  BY <1>2 DEF Ok, OkUsers, OwnedIn, Orphan
(* Nobody was served on f.                                                  *)
<1>9. ASSUME s = NULL \/ ~Held(sub, s) \/ sub[s].client # f
      PROVE  Ok(d, sub, usr)
  <2>1. \A r \in Subs : Held(sub, r) /\ sub[r].state = "ALIVE" => sub[r].client # f
    BY <1>7, <1>9
  <2> QED
    BY <1>2, <1>8, <2>1, CloseOk
<1>10. CASE s = NULL \/ Dangling(f)
  <2>1. s = NULL \/ ~Held(sub, s)
    BY <1>10 DEF Dangling, Held
  <2>2. UNCHANGED <<sub, usr>>
    BY <1>10 DEF Hangup
  <2>3. Reached(d, sub')
    <3>1. s \in Subs => ~Orphan(sub', s)
      BY <1>10, <2>2 DEF Dangling, Orphan
    <3> QED
      BY <1>12, <2>2, <3>1 DEF NoNewOrphan
  <2> QED
    BY <1>1, <1>2, <1>4, <1>5, <1>9, <2>1, <2>2, <2>3 DEF Stepped, Typed
<1>11. CASE ~(s = NULL \/ Dangling(f))
  <2>1. s \in Subs /\ sub[s].live /\ Disconnect(s, f)
    BY <1>3, <1>11 DEF Hangup, Dangling
  <2> HIDE DEF s, d
  <2>2. CASE sub[s].wait
    <3>1. sub' = [sub EXCEPT ![s] = Freed] /\ UNCHANGED usr
      BY <2>1, <2>2 DEF Disconnect
    <3>2. ~Held(sub, s)
      BY <1>2, <2>1, <2>2 DEF Ok, OkUsers, Orphaned
    <3>3. Ok(d, sub, usr)
      BY <1>9, <3>2
    <3>4. sub' \in [Subs -> SubState] /\ ~sub'[s].live /\ \A r \in Subs \ {s} : sub'[r] = sub[r]
      <4>1. Freed \in SubState /\ ~Freed.live
        BY DEF Freed, SubState
      <4> HIDE DEF Freed
      <4> QED
        BY <1>2, <2>1, <3>1, <4>1
    <3>5. \A g \in Sockets : d[g].attach = s => ~Wait(d, g)
      BY <2>1, <3>2, <3>3 DEF Ok, OkSockets, Listener
    <3>6. \A v \in Users : usr[v].st # "none" => usr[v].last # s
      BY <2>1, <3>2, <3>3 DEF Ok, OkUsers, LastHeld, Held
    <3> DEFINE S == {s}
    <3>7. Released(d, sub, usr, d, S, sub', usr)
      BY <2>1, <3>4, <3>5, <3>6 DEF Released
    <3>8. Quieter(d, d) /\ Typed(d, sub, usr)
      BY <1>2, <1>5 DEF Quieter, Quiet, Typed
    <3>9. Ok(d, sub', usr)
      <4> HIDE DEF S
      <4> QED
        BY <1>5, <3>3, <3>7, <3>8, ReleaseOk
    <3>10. Reached(d, sub')
      BY <1>12, <2>1, <3>4 DEF NoNewOrphan, Orphan
    <3> QED
      BY <1>1, <1>2, <1>4, <1>5, <3>1, <3>4, <3>9, <3>10 DEF Stepped, Typed
  <2>3. CASE ~sub[s].wait /\ sub[s].client # f
    <3>1. UNCHANGED <<sub, usr>>
      BY <2>1, <2>3 DEF Disconnect
    <3>2. Reached(d, sub')
      <4>1. ~Orphan(sub', s)
        BY <1>13, <2>1, <2>3, <3>1
      <4> QED
        BY <1>12, <3>1, <4>1 DEF NoNewOrphan
    <3> QED
      BY <1>1, <1>2, <1>4, <1>5, <1>9, <2>3, <3>1, <3>2 DEF Stepped, Typed
  <2>4. CASE ~sub[s].wait /\ sub[s].client = f
    <3> DEFINE u == sub[s].user
               b1 == [sub EXCEPT ![s].state = "ADIED"]
    <3>1. /\ sub[s] \in SubState /\ b1[s] = [sub[s] EXCEPT !.state = "ADIED"]
          /\ \A r \in Subs \ {s} : b1[r] = sub[r]
      BY <1>2, <2>1
    <3>2. b1 \in [Subs -> SubState]
      <4>1. [sub[s] EXCEPT !.state = "ADIED"] \in SubState
        BY <3>1 DEF SubState
      <4> QED
        BY <1>2, <2>1, <4>1
    <3>3. \/ /\ u # NULL /\ usr[u].st = "tmp"
             /\ sub' = delsubuser_sub(b1, SubsOf(b1, u))
             /\ usr' = [usr EXCEPT ![u] = NoUser]
          \/ sub' = b1 /\ usr' = usr
      BY <2>1, <2>4 DEF Disconnect
    <3> HIDE DEF b1
    <3>4. Alike(sub, b1, s) /\ b1[s].state = "ADIED" /\ b1[s].lost = sub[s].lost
      BY <3>1 DEF Alike, SameOwner, SubState
    <3>8. NoNewOrphan(sub, b1) /\ ~Orphan(b1, s)
      BY <1>13, <2>1, <2>4, <3>1, <3>4 DEF NoNewOrphan, Orphan, Alike, SameOwner
    <3>5. Ok(d, b1, usr) /\ Typed(d, b1, usr)
      <4>1. \A r \in Subs : Alike(sub, b1, r)
        BY <3>1, <3>4 DEF Alike, SameOwner
      <4>2. \A r \in Subs : b1[r].state = sub[r].state \/ (sub[r].client = f /\ b1[r].state = "ADIED")
        BY <2>4, <3>1, <3>4
      <4>3. \A r \in Subs : Held(sub, r) /\ b1[r].state = "ALIVE" => sub[r].client # f
        BY <1>7, <3>1, <3>4
      <4> QED
        BY <1>2, <1>5, <3>2, <4>1, <4>2, <4>3, CloseOk DEF d, Typed
    <3>6. CASE /\ u # NULL /\ usr[u].st = "tmp"
               /\ sub' = delsubuser_sub(b1, SubsOf(b1, u))
               /\ usr' = [usr EXCEPT ![u] = NoUser]
      <4>1. u \in Users
        BY <3>1, <3>6 DEF SubState
      <4> DEFINE S == SubsOf(b1, u)
      <4>2. \A r \in S : r \in Subs /\ Held(b1, r) /\ b1[r].user = u
        BY <3>6 DEF SubsOf, Held
      <4>3. S \subseteq {s}
        <5>1. Held(sub, s) /\ Held(b1, s) /\ b1[s].user = u
          BY <2>1, <3>4, <3>6 DEF Alike, SameOwner, Held
        <5>2. s = usr[u].last /\ \A r \in S : r = usr[u].last
          BY <2>1, <3>5, <3>6, <4>2, <5>1 DEF Ok, OkUsers, TmpAlone
        <5> QED
          BY <5>2
      <4> HIDE DEF S
      <4>4. \A r \in Subs : sub'[r] = IF r \notin S THEN b1[r] ELSE Freed
        BY <3>4, <3>6, <4>3 DEF delsubuser_sub, S
      <4>5. Freed \in SubState /\ ~Freed.live
        BY DEF Freed, SubState
      <4>6. sub' \in [Subs -> SubState]
        <5>1. sub' = [r \in Subs |-> sub'[r]]
          BY <3>6 DEF delsubuser_sub
        <5> HIDE DEF Freed
        <5> QED
          BY <3>2, <4>4, <4>5, <5>1
      <4>7. \A r \in S : ~sub'[r].live
        BY <4>2, <4>4, <4>5
      <4>8. \A g \in Sockets : d[g].attach \in S => ~Wait(d, g)
        BY <2>1, <3>4, <3>5, <4>3 DEF Ok, OkSockets, Listener
      <4>9. Quieter(d, d)
        BY DEF Quieter, Quiet
      <4>10. \A r \in Subs \ S : sub'[r] = b1[r]
        BY <4>4
      <4>11. Ok(d, sub', [usr EXCEPT ![u] = NoUser])
        <5> HIDE DEF u
        <5> QED
          BY <1>5, <3>5, <4>1, <4>7, <4>8, <4>9, <4>10, DelUserOk DEF S
      <4>12. [usr EXCEPT ![u] = NoUser] \in [Users -> UserState]
        <5> HIDE DEF u
        <5> QED
          BY <1>2, <4>1, UserGone
      <4>13. Reached(d, sub')
        <5>1. NoNewOrphan(sub, sub') /\ ~Orphan(sub', s)
          BY <2>1, <3>8, <4>7, <4>10 DEF NoNewOrphan, Orphan
        <5> QED
          BY <1>12, <5>1
      <4> QED
        BY <1>1, <1>4, <1>5, <3>6, <4>6, <4>11, <4>12, <4>13 DEF Stepped, Typed
    <3>7. CASE sub' = b1 /\ usr' = usr
      <4>1. Reached(d, sub')
        BY <1>12, <3>7, <3>8
      <4> QED
        BY <1>1, <1>4, <3>5, <3>7, <4>1 DEF Stepped
    <3> QED
      BY <3>3, <3>6, <3>7
  <2> QED
    BY <2>2, <2>3, <2>4
<1> QED
  BY <1>10, <1>11

(* The unsigned counter stays one.                                          *)
LEMMA Wraps ==
  ASSUME NEW n \in 0 .. (UINT - 1)
  PROVE  (n + 1) % UINT \in 0 .. (UINT - 1) /\ Decremented(n) \in 0 .. (UINT - 1)
  BY UintAssumption DEF Decremented

LEMMA InitOk == Init => SInv
<1> SUFFICES ASSUME Init PROVE SInv
  OBVIOUS
<1>1. Closed \in SocketState /\ Freed \in SubState /\ NoUser \in UserState
  BY DEF Closed, SocketState, Freed, SubState, NoUser, UserState, TransportKinds
<1>2. Closed.attach = NULL /\ ~Freed.live /\ NoUser.st = "none"
  BY DEF Closed, Freed, NoUser
<1>3. /\ \A f \in Sockets : co[f] = Closed
      /\ \A s \in Subs : sub[s] = Freed
      /\ \A u \in Users : usr[u] = NoUser
  BY DEF Init
<1>4. TypeOK
  <2> HIDE DEF Closed, Freed, NoUser
  <2>1. co \in [Sockets -> SocketState] /\ sub \in [Subs -> SubState] /\ usr \in [Users -> UserState]
    BY <1>1 DEF Init
  <2>2. nConnected \in 0 .. (UINT - 1)
    BY UintAssumption DEF Init
  <2>3. corrupt \in BOOLEAN
    BY DEF Init
  <2> QED
    BY <2>1, <2>2, <2>3 DEF TypeOK
<1>5. OkUsers(sub, usr)
  BY <1>2, <1>3 DEF OkUsers, OwnedIn, LastHeld, TmpAlone, Orphaned, ClientKnown, Held
<1>6. OkSockets(co, sub, usr)
  <2>1. \A s \in Subs : s # NULL
    OBVIOUS
  <2> QED
    BY <1>2, <1>3, <2>1 DEF OkSockets, Unattached, KindAgrees, AliveIn, Listener, Held
<1>7. Reached(co, sub)
  BY <1>2, <1>3 DEF Reached, Orphan
<1> QED
  BY <1>4, <1>5, <1>6, <1>7 DEF SInv, Ok

LEMMA NextOk == SInv /\ [Next]_vars => SInv'
<1> SUFFICES ASSUME SInv, [Next]_vars PROVE SInv'
  OBVIOUS
<1>1. CASE UNCHANGED vars
  BY <1>1 DEF vars, SInv, TypeOK, Ok, OkUsers, OkSockets, OwnedIn, LastHeld, TmpAlone, Orphaned,
       ClientKnown, Unattached, KindAgrees, AliveIn, Listener, Held, Wait, Reached, Orphan, Led
<1>2. CASE Next
  <2> DEFINE Counted == nConnected' \in {nConnected, (nConnected + 1) % UINT, Decremented(nConnected)}
  <2>1. Stepped
    BY <1>2, BadMessageStep, PeerCloseStep, DrainStep, HangupStep, AcceptStep, ConnectStep,
       CommandStep, CommandInlineStep, QuitStep, ConnectTooLongStep, NullPointerStep,
       CompleteConnectStep, DelUserStep, PostStep, IdleSubStep, FlushStep
       DEF Next, SpeaksTooLong, CompleteConnectNull
  <2>2. Counted
    <3>1. ASSUME NEW f \in Sockets, BadMessage(f) \/ PeerClose(f) \/ Drain(f) \/ Hangup(f)
          PROVE  Counted
      BY <3>1 DEF BadMessage, PeerClose, Drain, Hangup, Disconnect
    <3>2. ASSUME NEW f \in Sockets, NEW k \in Kinds, NEW h \in Hosts, Accept(f, k, h)
          PROVE  Counted
      BY <3>2 DEF Accept
    <3>3. ASSUME NEW f \in Sockets, NEW u \in Users, NEW s \in Subs,
                 \/ \E t \in Transports, r \in Replies : Connect(f, u, s, t, r)
                 \/ Command(f, u, s) \/ CommandInline(f, u, s)
                 \/ \E after \in BOOLEAN : Quit(f, u, s, after)
          PROVE  Counted
      <4>1. CASE \E t \in Transports, r \in Replies : Connect(f, u, s, t, r)
        BY <4>1 DEF Connect
      <4>2. CASE Command(f, u, s) \/ CommandInline(f, u, s)
        BY <4>2 DEF Command, CommandInline
      <4>3. CASE \E after \in BOOLEAN : Quit(f, u, s, after)
        BY <4>3 DEF Quit
      <4> QED
        BY <3>3, <4>1, <4>2, <4>3
    <3>6. ASSUME NEW f \in Sockets, NEW u \in Users,
                 \/ \E t \in Transports, r \in Replies : ConnectTooLong(f, u, t, r)
                 \/ SpeaksTooLong(f, u)
          PROVE  Counted
      BY <3>6 DEF ConnectTooLong, SpeaksTooLong, NullPointer
    <3>4. ASSUME NEW u \in Users,
                 CompleteConnect(u) \/ CompleteConnectNull(u) \/ DelUser(u) \/ Post(u)
          PROVE  Counted
      BY <3>4 DEF CompleteConnect, CompleteConnectNull, NullPointer, DelUser, Post
    <3>5. ASSUME NEW s \in Subs, IdleSub(s) \/ Flush(s)
          PROVE  Counted
      BY <3>5 DEF IdleSub, Flush
    <3> HIDE DEF Counted
    <3> QED
      BY <1>2, <3>1, <3>2, <3>3, <3>4, <3>5, <3>6 DEF Next
  <2>3. nConnected' \in 0 .. (UINT - 1)
    <3>1. nConnected \in 0 .. (UINT - 1)
      BY DEF SInv, TypeOK
    <3> QED
      BY <2>2, <3>1, Wraps
  <2>4. TypeOK'
    BY <2>1, <2>3 DEF Stepped, Typed, TypeOK
  <2>5. Ok(co, sub, usr)'
    BY <2>1 DEF Stepped, Ok, OkUsers, OkSockets, OwnedIn, LastHeld, TmpAlone, Orphaned,
       ClientKnown, Unattached, KindAgrees, AliveIn, Listener, Held, Wait
  <2>6. Reached(co, sub)'
    BY <2>1 DEF Stepped, Reached, Orphan, Led
  <2> QED
    BY <2>4, <2>5, <2>6 DEF SInv
<1> QED
  BY <1>1, <1>2

LEMMA Invariance == Spec => []SInv
  BY InitOk, NextOk, PTL DEF Spec

(* Every table stays well-formed and the unsigned count of connected users *)
(* stays in its range, whatever order requests, time-outs, scripts and     *)
(* hang-ups come in.                                                        *)
THEOREM SessionTyped == Spec => []TypeOK
<1>1. SInv => TypeOK
  BY DEF SInv
<1> QED
  BY <1>1, Invariance, PTL

(* Raws are never written to the connection of another session: a subuser  *)
(* that check_timeout() may flush is the one its socket is attached to,    *)
(* and that socket is not closed, although descriptors are reused.         *)
THEOREM AliveIsAttached == Spec => []AliveAttached
<1>1. SInv => AliveAttached
  BY DEF SInv, Ok, OkSockets, AliveIn, AliveAttached, Served, Held
<1> QED
  BY <1>1, Invariance, PTL

(* At most one connection attached to a subuser waits for an answer: a     *)
(* second one of the same host has replaced the first or been refused.     *)
THEOREM SingleListener == Spec => []OneListener
<1>1. SInv => OneListener
  <2> SUFFICES ASSUME SInv, NEW f \in Sockets, NEW g \in Sockets, f # g, co[f].attach # NULL,
                      co[f].attach = co[g].attach, Waiting(f), Waiting(g)
               PROVE  FALSE
    BY DEF OneListener
  <2>1. co[f].attach \in Subs
    BY DEF SInv, TypeOK, SocketState
  <2>2. Wait(co, f) /\ Wait(co, g)
    BY DEF Waiting, Wait
  <2> QED
    BY <2>1, <2>2 DEF SInv, Ok, OkSockets, Listener
<1> QED
  BY <1>1, Invariance, PTL

(* check_timeout(), QUIT and hang-ups never leave a user without a         *)
(* subuser: the one with the latest stamp goes with the user only, so that *)
(* what is posted has a queue to go to.  A user without one never had one: *)
(* its host was longer than MAX_HOST_LENGTH, a hook answered its CONNECT   *)
(* inline, and it is still temporary (adduser() ignores that addsubuser()  *)
(* returned NULL).                                                          *)
THEOREM NeverWithoutSubuser == Spec => []AlwaysASubuser
<1>1. SInv => AlwaysASubuser
  BY DEF SInv, Ok, OkUsers, LastHeld, AlwaysASubuser, SubsOf
<1> QED
  BY <1>1, Invariance, PTL

(* Every allocated subuser has a user that exists, or is marked to be      *)
(* freed and a connection that is still to be closed points to it, so that *)
(* ape_disconnect() will free it; or else a WebSocket has dropped its      *)
(* pointer to a marked subuser (parser_ready_websocket()), which is then   *)
(* never freed.  deluser() leaves none behind that points to the user it   *)
(* freed.                                                                   *)
THEOREM SubusersOwned == Spec => []Owned
<1>1. SInv => Owned
  BY DEF SInv, Ok, OkUsers, OwnedIn, Reached, Orphan, Led, Owned
<1> QED
  BY <1>1, Invariance, PTL

=============================================================================
