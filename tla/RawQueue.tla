------------------------------ MODULE RawQueue ------------------------------
(***************************************************************************)
(* The raws (messages to the client) queued for the subusers of one user:  *)
(* src/src/raw.c, and from src/src/users.c the part that opens and closes  *)
(* queues (addsubuser, subuser_restor, delsubuser).                        *)
(*                                                                         *)
(* A raw is a heap cell shared by the queues it was posted to, with a      *)
(* reference count.  A queue is a chain of slots that grows and never      *)
(* shrinks; the slots in use come first and a null slot ends them.  There  *)
(* is one for each priority: send_raws() walks the high one backwards and  *)
(* then the low one forwards.                                              *)
(*                                                                         *)
(* The raws of interest are those a client builds the member list of a     *)
(* channel from.  view[s] is what the client behind s has built from the   *)
(* raws it was sent; a subuser that opens late gets the member list at     *)
(* high priority and a copy of what another subuser still has queued.      *)
(*                                                                         *)
(* A definition Name_Fault states a plausible slip in the code of Name; no *)
(* action uses it.                                                         *)
(***************************************************************************)
EXTENDS Integers, FiniteSets, SequencesExt

CONSTANTS
  Subs,      \* subusers of the user (a bound)
  Others,    \* other users that come and go on the channel
  Me,        \* the user
  Cells,     \* heap cells for raws (a bound)
  LowSize,   \* slots a low priority chain starts with (32 in the code)
  HighSize,  \* slots a high priority chain starts with (8)
  AddSize,   \* slots a full chain grows by (16)
  MaxQueue,  \* bound on the raws queued for a subuser at one priority
  NULL,
  OFF        \* the view of a client that is not on the channel

ASSUME SizeAssumption == /\ LowSize \in Nat \ {0} /\ HighSize \in Nat \ {0}
                         /\ AddSize \in Nat \ {0} /\ MaxQueue \in Nat
ASSUME MeAssumption == Me \notin Others
ASSUME CellAssumption == NULL \notin Cells
ASSUME OffAssumption == \A m \in SUBSET (Others \cup {Me}) : m # OFF

VARIABLES
  raw,      \* the cells: live (allocated), ref (refcount), ev (the contents)
  pool,     \* raw_pools of each subuser
  subs,     \* user->subuser, the list of subusers, newest first
  nsub,     \* user->nsub
  members,  \* the members of the channel
  view      \* what the client behind each subuser was told

vars == <<raw, pool, subs, nsub, members, view>>

All == Others \cup {Me}
Event == [t : {"JOIN", "LEFT"}, u : All] \cup [t : {"CHANNEL"}, m : SUBSET All]
           \cup [t : {"DATA"}]
Data == [t |-> "DATA"]

Chain == [slots : Seq(Cells \cup {NULL}), foot : Nat, nraw : Nat, size : Nat]

TypeOK ==
  /\ raw \in [Cells -> [live : BOOLEAN, ref : Int, ev : Event]]
  /\ pool \in [Subs -> [low : Chain, high : Chain]]
  /\ subs \in Seq(Subs)
  /\ nsub \in Nat
  /\ members \subseteq All
  /\ view \in [Subs -> {OFF} \cup SUBSET All]

-----------------------------------------------------------------------------
(* Chains of slots.                                                        *)

Null(n) == [i \in 1 .. n |-> NULL]
init_raw_pool(n) == [slots |-> Null(n), foot |-> 1, nraw |-> 0, size |-> n]
NewPools == [low |-> init_raw_pool(LowSize), high |-> init_raw_pool(HighSize)]

(* post_raw_sub(): the raw goes into the slot of the foot.  When that is   *)
(* the last one, the chain is continued behind it first.                    *)
Posted_GrowsLate(c, r) ==
  LET full == c.nraw = c.size
  IN [slots |-> [(IF full THEN SubSeq(c.slots, 1, c.foot) \o Null(AddSize) ELSE c.slots)
                    EXCEPT ![c.foot] = r],
      foot  |-> c.foot + 1,
      nraw  |-> c.nraw + 1,
      size  |-> IF full THEN c.size + AddSize ELSE c.size]
Posted(c, r) ==
  LET full == c.nraw + 1 = c.size
  IN [slots |-> [(IF full THEN SubSeq(c.slots, 1, c.foot) \o Null(AddSize) ELSE c.slots)
                    EXCEPT ![c.foot] = r],
      foot  |-> c.foot + 1,
      nraw  |-> c.nraw + 1,
      size  |-> IF full THEN c.size + AddSize ELSE c.size]

PostedLow(p, r)  == [p EXCEPT !.low = Posted(@, r)]
PostedAll(c, rs) ==
  LET after[n \in 0 .. Len(rs)] == IF n = 0 THEN c ELSE Posted(after[n - 1], rs[n])
  IN  after[Len(rs)]

(* The walks of send_raws() and addsubuser(): from the head up to the first *)
(* null slot, from the foot down to the head.                               *)
Forward(c) ==
  LET n == CHOOSE k \in 0 .. Len(c.slots) :
             /\ \A i \in 1 .. k : c.slots[i] # NULL
             /\ k = Len(c.slots) \/ c.slots[k + 1] = NULL
  IN  SubSeq(c.slots, 1, n)
Backward(c) ==
  LET n == CHOOSE k \in 0 .. c.foot - 1 :
             /\ \A i \in k + 1 .. c.foot - 1 : c.slots[i] # NULL
             /\ k = 0 \/ c.slots[k] = NULL
  IN  Reverse(SubSeq(c.slots, n + 1, c.foot - 1))

Sent_LowFirst(p) == Forward(p.low) \o Backward(p.high)
Sent(p) == Backward(p.high) \o Forward(p.low)

(* Every slot visited is emptied, and the feet go back to the heads.        *)
Emptied(c) == [slots |-> Null(Len(c.slots)), foot |-> 1, nraw |-> 0, size |-> c.size]

-----------------------------------------------------------------------------
(* Raws.                                                                   *)

Free == {r \in Cells : ~raw[r].live}
Fresh == CHOOSE r \in Free : TRUE
Distinct(n) == {f \in [1 .. n -> Free] : IsInjective(f)}
forge_raw(rw, r, ev, ref) == [rw EXCEPT ![r] = [live |-> TRUE, ref |-> ref, ev |-> ev]]

(* free_raw() for every reference of the sequence rs: a raw goes when its  *)
(* count falls to zero, or below it for one that was never shared.          *)
Dropped(rs, r) == Cardinality({i \in DOMAIN rs : rs[i] = r})
Released(rw, rs) ==
  [r \in Cells |->
     LET k == Dropped(rs, r)
     IN  IF k = 0 THEN rw[r]
         ELSE IF rw[r].ref - k <= 0 THEN [live |-> FALSE, ref |-> 0, ev |-> Data]
         ELSE [rw[r] EXCEPT !.ref = @ - k]]

(* addsubuser() shares the raws rs with one more queue: a count of zero    *)
(* stands for the single queue the raw was posted to.                       *)
Shared_NoFirst(rw, rs) ==
  [r \in Cells |-> IF Dropped(rs, r) = 0 THEN rw[r] ELSE [rw[r] EXCEPT !.ref = @ + 1]]
Shared(rw, rs) ==
  [r \in Cells |-> IF Dropped(rs, r) = 0 THEN rw[r]
                   ELSE [rw[r] EXCEPT !.ref = IF @ = 0 THEN 2 ELSE @ + 1]]

-----------------------------------------------------------------------------

Live == ToSet(subs)
Low(S, r) == [s \in Subs |-> IF s \in S THEN PostedLow(pool[s], r) ELSE pool[s]]
Room == \A s \in Live : pool[s].low.nraw < MaxQueue

(* post_raw(): one reference for each subuser.                              *)
post_raw(ev) ==
  /\ Room
  /\ Free # {}
  /\ raw' = forge_raw(raw, Fresh, ev, Cardinality(Live))
  /\ pool' = Low(Live, Fresh)

Init ==
  /\ raw = [r \in Cells |-> [live |-> FALSE, ref |-> 0, ev |-> Data]]
  /\ pool = [s \in Subs |-> NewPools]
  /\ \E s \in Subs : subs = <<s>>
  /\ nsub = 1
  /\ members = {}
  /\ view = [s \in Subs |-> OFF]

(* Another user joins or leaves; the user is told when it is there.         *)
OtherJoin(o) ==
  /\ o \notin members
  /\ members' = members \cup {o}
  /\ IF Me \in members THEN post_raw([t |-> "JOIN", u |-> o])
                       ELSE UNCHANGED <<raw, pool>>
  /\ UNCHANGED <<subs, nsub, view>>

OtherLeft(o) ==
  /\ o \in members
  /\ members' = members \ {o}
  /\ IF Me \in members THEN post_raw([t |-> "LEFT", u |-> o])
                       ELSE UNCHANGED <<raw, pool>>
  /\ UNCHANGED <<subs, nsub, view>>

(* The user joins (and gets the member list) or leaves.                     *)
MeJoin ==
  /\ Me \notin members
  /\ members' = members \cup {Me}
  /\ post_raw([t |-> "CHANNEL", m |-> members'])
  /\ UNCHANGED <<subs, nsub, view>>

MeLeft ==
  /\ Me \in members
  /\ members' = members \ {Me}
  /\ post_raw([t |-> "LEFT", u |-> Me])
  /\ UNCHANGED <<subs, nsub, view>>

(* post_raw_sub() of a raw for one subuser alone (an error, a SESSION      *)
(* answer): its count stays zero.                                           *)
PostOne(s) ==
  /\ s \in Live
  /\ Room
  /\ Free # {}
  /\ raw' = forge_raw(raw, Fresh, Data, 0)
  /\ pool' = Low({s}, Fresh)
  /\ UNCHANGED <<subs, nsub, members, view>>

(* SEND on s: the other subusers of the sender get a copy, which is forged *)
(* only when nsub says that there are any (post_to_pipe).                   *)
Copies == nsub > 1

SendFrom(s) ==
  /\ s \in Live
  /\ Copies
  /\ Room
  /\ Free # {}
  /\ raw' = forge_raw(raw, Fresh, Data, Cardinality(Live \ {s}))
  /\ pool' = Low(Live \ {s}, Fresh)
  /\ UNCHANGED <<subs, nsub, members, view>>

(* A request through another host: addsubuser() copies what is queued at   *)
(* low priority for the newest subuser, subuser_restor() then posts the    *)
(* member list, if the user is on the channel, and IDENT.                   *)
Snapshot == IF Me \in members THEN <<[t |-> "CHANNEL", m |-> members]>> ELSE << >>

AddSub(s) ==
  /\ s \notin Live
  /\ Room
  /\ LET copy == Forward(pool[subs[1]].low)
         evs  == Snapshot \o <<Data>>
         rs   == CHOOSE f \in Distinct(Len(evs)) : TRUE
     IN /\ Distinct(Len(evs)) # {}
        /\ raw' = [r \in Cells |-> IF r \in ToSet(rs)
                     THEN [live |-> TRUE, ref |-> 0,
                           ev |-> evs[CHOOSE i \in DOMAIN rs : rs[i] = r]]
                     ELSE Shared(raw, copy)[r]]
        /\ pool' = [pool EXCEPT ![s] = [low  |-> PostedAll(init_raw_pool(LowSize), copy),
                                        high |-> PostedAll(init_raw_pool(HighSize), rs)]]
  /\ subs' = <<s>> \o subs
  /\ nsub' = nsub + 1
  /\ view' = [view EXCEPT ![s] = OFF]
  /\ UNCHANGED members

(* delsubuser() of one of several: it is unlinked, and whatever its chains *)
(* hold is released (a null slot is no cell).                               *)
Held(s) == pool[s].low.slots \o pool[s].high.slots
DelSub(s) ==
  /\ Len(subs) > 1
  /\ \E i \in DOMAIN subs : subs[i] = s /\ subs' = RemoveAt(subs, i)
  /\ raw' = Released(raw, Held(s))
  /\ pool' = [pool EXCEPT ![s] = NewPools]
  /\ nsub' = nsub - 1
  /\ view' = [view EXCEPT ![s] = OFF]
  /\ UNCHANGED members

(* The client applies a raw to the member list it shows.                    *)
Apply(v, ev) ==
  IF ev.t = "CHANNEL" THEN ev.m
  ELSE IF ev.t = "DATA" \/ v = OFF THEN v
  ELSE IF ev.t = "JOIN" THEN v \cup {ev.u}
  ELSE IF ev.u = Me THEN OFF
  ELSE v \ {ev.u}
Told(v, rs) ==
  LET after[n \in 0 .. Len(rs)] ==
        IF n = 0 THEN v ELSE Apply(after[n - 1], raw[rs[n]].ev)
  IN  after[Len(rs)]

send_raws(s) ==
  /\ s \in Live
  /\ pool[s].low.nraw + pool[s].high.nraw > 0
  /\ view' = [view EXCEPT ![s] = Told(@, Sent(pool[s]))]
  /\ raw' = Released(raw, Sent(pool[s]))
  /\ pool' = [pool EXCEPT ![s] = [low |-> Emptied(@.low), high |-> Emptied(@.high)]]
  /\ UNCHANGED <<subs, nsub, members>>

Next ==
  \/ \E o \in Others : OtherJoin(o) \/ OtherLeft(o)
  \/ MeJoin \/ MeLeft
  \/ \E s \in Subs : PostOne(s) \/ SendFrom(s) \/ AddSub(s) \/ DelSub(s) \/ send_raws(s)

Spec == Init /\ [][Next]_vars

-----------------------------------------------------------------------------
(* Properties.                                                             *)

(* References and queues agree: a raw in a queue is allocated, one that is *)
(* allocated is in a queue (nothing leaks), and its count is the number of *)
(* queues that hold it, or zero for the only one.                           *)
Holders(r) == {s \in Live : \E i \in DOMAIN Held(s) : Held(s)[i] = r}
RefCountExact ==
  \A r \in Cells :
     /\ raw[r].live <=> Holders(r) # {}
     /\ raw[r].live => \/ raw[r].ref = Cardinality(Holders(r))
                       \/ raw[r].ref = 0 /\ Cardinality(Holders(r)) = 1

(* The slots in use come first and a null slot always follows them, however *)
(* often the chain grew or was emptied: the walks that stop at a null slot *)
(* see all that is queued and never run off the chain.                      *)
Terminated(c) ==
  /\ c.size = Len(c.slots) /\ c.nraw < c.size /\ c.foot = c.nraw + 1
  /\ \A i \in 1 .. Len(c.slots) : c.slots[i] # NULL <=> i <= c.nraw
ChainsTerminated ==
  \A s \in Live : Terminated(pool[s].low) /\ Terminated(pool[s].high)

(* What a client will show once its queue is sent is the member list,      *)
(* through whichever host it came and whenever it opened: the list sent at *)
(* high priority and the older JOIN and LEFT copied from another queue do  *)
(* not contradict each other in the end.                                    *)
ClientsCatchUp ==
  \A s \in Live : Told(view[s], Sent(pool[s])) =
                    IF Me \in members THEN members ELSE OFF

=============================================================================
