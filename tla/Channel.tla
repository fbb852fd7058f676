------------------------------ MODULE Channel ------------------------------
(***************************************************************************)
(* Channels, their members, operator levels and bans: src/src/channel.c    *)
(* with the commands of src/src/cmd.c and the script calls of              *)
(* src/modules/libape-spidermonkey.c that drive it.                        *)
(*                                                                         *)
(* The code keeps membership twice: every CHANNEL has a list of userslist  *)
(* cells (user, level) and every USERS a list of CHANLIST cells.  Here the *)
(* first list is level[c] (0 when the user has no cell) and the second is  *)
(* chan_foot[u]; the order inside the lists is abstracted.                 *)
(*                                                                         *)
(* The raws JOIN, LEFT and CHANNEL that the code posts are what a client   *)
(* builds its roster from.  Raws of one subuser are delivered in the order *)
(* they were posted, so the effect of a raw is applied to the roster of    *)
(* its addressee (seen) when it is posted.  Error raws (ALREADY_ON_CHANNEL,*)
(* UNKNOWN_CHANNEL, NOT_IN_CHANNEL, SETLEVEL_ERROR, CANT_JOIN_CHANNEL, the *)
(* YOU_ARE_BANNED answer) touch none of this state: a command that ends in *)
(* one is a stuttering step.                                               *)
(*                                                                         *)
(* A definition Name_Fault states a plausible slip in the code of Name; no *)
(* action uses it.                                                         *)
(***************************************************************************)
EXTENDS Naturals, FiniteSets

CONSTANTS
  Users,      \* the users (struct USERS)
  Names,      \* valid channel names, as isvalidchan() accepts them
  StarNames,  \* the names that begin with '*'
  Ips,        \* client addresses
  IpOf,       \* the address each user connected from
  AutoOp,     \* the users with FLG_AUTOOP
  LevelMax,   \* the highest level a user may give (32 in the code)
  BanTerms,   \* the durations passed to ban(), in clock units
  MaxTime     \* bound on the clock

ASSUME NamesAssumption == StarNames \subseteq Names
ASSUME IpAssumption == IpOf \in [Users -> Ips]
ASSUME LevelAssumption == LevelMax \in Nat /\ LevelMax > 1
ASSUME TimeAssumption == MaxTime \in Nat /\ BanTerms \subseteq Nat

VARIABLES
  connected,  \* users that exist (g_ape->uHead list)
  exists,     \* channels in g_ape->hLusers
  flags,      \* CHANNEL.flags
  level,      \* CHANNEL.head: level of each member, 0 for the others
  chan_foot,  \* USERS.chan_foot
  banned,     \* CHANNEL.banned: entries <<ip, expire>>
  now,        \* time(NULL)
  seen,       \* seen[u][c]: the members of c the raws posted to u describe
  forced,     \* history: memberships made by a script, without a ban check
  ceiling     \* history: highest level the server or an AUTOOP user gave in c

vars == <<connected, exists, flags, level, chan_foot, banned, now, seen,
          forced, ceiling>>

NONINTERACTIVE == "NONINTERACTIVE"
AUTODESTROY    == "AUTODESTROY"
Flags          == {NONINTERACTIVE, AUTODESTROY}

Levels  == 0 .. LevelMax
Ban     == Ips \X Nat

TypeOK ==
  /\ connected \subseteq Users
  /\ exists \subseteq Names
  /\ flags \in [Names -> SUBSET Flags]
  /\ level \in [Names -> [Users -> Levels]]
  /\ chan_foot \in [Users -> SUBSET Names]
  /\ banned \in [Names -> SUBSET Ban]
  /\ now \in Nat
  /\ seen \in [Users -> [Names -> SUBSET Users]]
  /\ forced \subseteq Users \X Names
  /\ ceiling \in [Names -> Levels]

Init ==
  /\ connected = {}
  /\ exists = {}
  /\ flags = [c \in Names |-> {}]
  /\ level = [c \in Names |-> [u \in Users |-> 0]]
  /\ chan_foot = [u \in Users |-> {}]
  /\ banned = [c \in Names |-> {}]
  /\ now = 0
  /\ seen = [u \in Users |-> [c \in Names |-> {}]]
  /\ forced = {}
  /\ ceiling = [c \in Names |-> 1]

-----------------------------------------------------------------------------
(* Reading the state.                                                      *)

Members(c)     == {u \in Users : level[c][u] > 0}
isonchannel(u, c) == c \in chan_foot[u]
Interactive(c) == NONINTERACTIVE \notin flags[c]
Expired(b)     == b[2] < now

(* flags given to a new channel: the caller's, plus the one of a '*' name.  *)
NewFlags(c, fl) == fl \cup (IF c \in StarNames THEN {NONINTERACTIVE} ELSE {})

-----------------------------------------------------------------------------
(* join() on a channel whose flags are fl: a cell of level 1 in each of the *)
(* two lists; JOIN to the members already there and the user list to the   *)
(* newcomer, both only on an interactive channel.                           *)
JoinRaws_ListBeforeCell(u, c) ==
  [v \in Users |-> [seen[v] EXCEPT ![c] =
     IF v = u THEN Members(c)
     ELSE IF v \in Members(c) THEN @ \cup {u} ELSE @]]
JoinRaws(u, c) ==
  [v \in Users |-> [seen[v] EXCEPT ![c] =
     IF v = u THEN Members(c) \cup {u}
     ELSE IF v \in Members(c) THEN @ \cup {u} ELSE @]]

join(u, c, fl) ==
  /\ level' = [level EXCEPT ![c][u] = 1]
  /\ chan_foot' = [chan_foot EXCEPT ![u] = @ \cup {c}]
  /\ seen' = IF NONINTERACTIVE \in fl THEN seen ELSE JoinRaws(u, c)

(* left() for every <<user, channel>> of D that is a membership, in any    *)
(* order: both cells are freed, LEFT goes to the one who leaves and, on an *)
(* interactive channel, to those who stay; an AUTODESTROY channel that     *)
(* becomes empty is removed with its bans (rmchan).                         *)
Leaving(D, c) == {u \in Users : <<u, c>> \in D /\ isonchannel(u, c)}
Staying(D, c) == Members(c) \ Leaving(D, c)
Destroyed_NotYetEmpty(D) == {c \in exists : /\ Leaving(D, c) # {}
                                            /\ AUTODESTROY \in flags[c]}
Destroyed_OnlyInteractive(D) == {c \in exists : /\ Leaving(D, c) # {}
                                                /\ Staying(D, c) = {}
                                                /\ Interactive(c)
                                                /\ AUTODESTROY \in flags[c]}
Destroyed(D)  == {c \in exists : /\ Leaving(D, c) # {}
                                 /\ Staying(D, c) = {}
                                 /\ AUTODESTROY \in flags[c]}

left(D) ==
  /\ level' = [c \in Names |-> [u \in Users |->
                 IF u \in Leaving(D, c) THEN 0 ELSE level[c][u]]]
  /\ chan_foot' = [u \in Users |->
                     {c \in chan_foot[u] : u \notin Leaving(D, c)}]
  /\ seen' = [u \in Users |-> [c \in Names |->
                IF u \in Leaving(D, c) THEN {}
                ELSE IF u \in Staying(D, c) /\ Interactive(c)
                     THEN seen[u][c] \ Leaving(D, c)
                     ELSE seen[u][c]]]
  /\ forced' = {f \in forced : f[1] \notin Leaving(D, f[2])}

(* The channels of G leave hLusers and are freed, their ban lists too;     *)
(* bn is the table of ban lists the step would otherwise leave behind.     *)
FreeChannels(G, bn) ==
  /\ exists' = exists \ G
  /\ flags' = [c \in Names |-> IF c \in G THEN {} ELSE flags[c]]
  /\ banned' = [c \in Names |-> IF c \in G THEN {} ELSE bn[c]]
  /\ ceiling' = [c \in Names |-> IF c \in G THEN 1 ELSE ceiling[c]]

-----------------------------------------------------------------------------
(* Users come and go.                                                      *)

adduser(u) ==
  /\ u \notin connected
  /\ connected' = connected \cup {u}
  /\ UNCHANGED <<exists, flags, level, chan_foot, banned, now, seen, forced,
                 ceiling>>

(* deluser(): left_all(), then the user is unlinked and freed.              *)
deluser(u) ==
  /\ u \in connected
  /\ connected' = connected \ {u}
  /\ left({u} \X chan_foot[u])
  /\ FreeChannels(Destroyed({u} \X chan_foot[u]), banned)
  /\ UNCHANGED now

-----------------------------------------------------------------------------
(* Client commands.                                                        *)

(* JOIN of a name nobody uses: the channel is made with AUTODESTROY.        *)
cmd_join_new(u, c) ==
  /\ u \in connected
  /\ c \notin exists
  /\ exists' = exists \cup {c}
  /\ flags' = [flags EXCEPT ![c] = NewFlags(c, {AUTODESTROY})]
  /\ join(u, c, NewFlags(c, {AUTODESTROY}))
  /\ UNCHANGED <<connected, banned, now, forced, ceiling>>

(* getban(): the entries of the list that forbid ip, and the lists it may  *)
(* leave behind.  The walk frees the expired entries it meets and stops at *)
(* the first entry for ip, so without such an entry it frees them all.     *)
InForce_StrictlyLater(c, ip) == {b \in banned[c] : b[1] = ip /\ b[2] > now}
InForce(c, ip) == {b \in banned[c] : b[1] = ip /\ ~Expired(b)}
Pruned_TooEarly(c, ip) == {{b \in banned[c] : b[2] > now}}
Pruned(c, ip)  ==
  LET old == {b \in banned[c] : Expired(b)}
  IN  IF InForce(c, ip) = {} THEN {banned[c] \ old}
      ELSE {banned[c] \ gone : gone \in SUBSET old}

(* JOIN of an existing channel: refused when getban() finds the address.   *)
cmd_join_existing(u, c) ==
  /\ u \in connected
  /\ c \in exists
  /\ ~isonchannel(u, c)
  /\ \E rest \in Pruned(c, IpOf[u]) :
        banned' = [banned EXCEPT ![c] = rest]
  /\ \/ /\ InForce(c, IpOf[u]) # {}
        /\ UNCHANGED <<level, chan_foot, seen>>
     \/ /\ InForce(c, IpOf[u]) = {}
        /\ join(u, c, flags[c])
  /\ UNCHANGED <<connected, exists, flags, now, forced, ceiling>>

(* LEFT, and user.left() of a script, which is left() under the same       *)
(* conditions.                                                              *)
cmd_left(u, c) ==
  /\ u \in connected
  /\ c \in exists
  /\ isonchannel(u, c)
  /\ left({<<u, c>>})
  /\ FreeChannels(Destroyed({<<u, c>>}), banned)
  /\ UNCHANGED <<connected, now>>

-----------------------------------------------------------------------------
(* Calls made by scripts and plugins.                                      *)

(* Ape.mkChan: a channel that outlives its members.                         *)
sm_mkchan(c) ==
  /\ c \notin exists
  /\ exists' = exists \cup {c}
  /\ flags' = [flags EXCEPT ![c] = NewFlags(c, {})]
  /\ UNCHANGED <<connected, level, chan_foot, banned, now, seen, forced,
                 ceiling>>

(* Ape.rmChan: rmchan() makes the channel silent, takes every member off   *)
(* it (each still gets its own LEFT) and frees it.                          *)
rmchan(c) ==
  /\ c \in exists
  /\ left(Members(c) \X {c})
  /\ FreeChannels({c}, banned)
  /\ UNCHANGED <<connected, now>>

(* user.join(): join() with no look at the ban list; nothing happens when  *)
(* the user is already there.                                               *)
sm_join(u, c) ==
  /\ u \in connected
  /\ c \in exists
  /\ ~isonchannel(u, c)
  /\ join(u, c, flags[c])
  /\ forced' = forced \cup {<<u, c>>}
  /\ UNCHANGED <<connected, exists, flags, banned, now, ceiling>>

(* setlevel() by a user: both must be members, and without FLG_AUTOOP the  *)
(* actor may neither give more than it has nor touch one who has more.      *)
MaySetLevel_AnyGrant(actif, passif, c, lvl) ==
  /\ level[c][actif] > 0
  /\ level[c][passif] > 0
  /\ \/ actif \in AutoOp
     \/ level[c][passif] <= level[c][actif]
MaySetLevel(actif, passif, c, lvl) ==
  /\ level[c][actif] > 0
  /\ level[c][passif] > 0
  /\ \/ actif \in AutoOp
     \/ lvl <= level[c][actif] /\ level[c][passif] <= level[c][actif]

LevelInRange(lvl) == lvl >= 1 /\ lvl <= LevelMax

Raise(c, lvl) == [ceiling EXCEPT ![c] = IF lvl > @ THEN lvl ELSE @]

setlevel(actif, passif, c, lvl) ==
  /\ actif \in connected
  /\ c \in exists
  /\ LevelInRange(lvl)
  /\ MaySetLevel(actif, passif, c, lvl)
  /\ level' = [level EXCEPT ![c][passif] = lvl]
  /\ ceiling' = IF actif \in AutoOp THEN Raise(c, lvl) ELSE ceiling
  /\ UNCHANGED <<connected, exists, flags, chan_foot, banned, now, seen,
                 forced>>

(* setlevel() with no actor: the server itself, up to one level less, on a *)
(* non-interactive channel.  On an interactive one the raw that reports it *)
(* describes the actor with get_json_object_user(NULL), which writes       *)
(* through a null pointer: the process ends, and no behaviour goes on.     *)
setlevel_server(passif, c, lvl) ==
  /\ c \in exists
  /\ ~Interactive(c)
  /\ level[c][passif] > 0
  /\ lvl > 0 /\ lvl < LevelMax
  /\ level' = [level EXCEPT ![c][passif] = lvl]
  /\ ceiling' = Raise(c, lvl)
  /\ UNCHANGED <<connected, exists, flags, chan_foot, banned, now, seen,
                 forced>>

(* ban() by a user: every member with that address leaves; one entry is    *)
(* added, and only when there is such a member.  When they were the last   *)
(* ones of an AUTODESTROY channel, the channel goes and the new entry with *)
(* it.  The walk over the members is one step: it reads the next cell      *)
(* before left() frees the current one, and no other cell goes with it.     *)
ban(c, ip, term) ==
  LET hit == {u \in Members(c) : IpOf[u] = ip}
      new == [banned EXCEPT ![c] = @ \cup {<<ip, now + term>>}]
  IN /\ c \in exists
     /\ hit # {}
     /\ left(hit \X {c})
     /\ FreeChannels(Destroyed(hit \X {c}), new)
     /\ UNCHANGED <<connected, now>>

(* rmban(): also frees the expired entries it walks over.                   *)
rmban(c, ip) ==
  /\ c \in exists
  /\ banned' = [banned EXCEPT ![c] =
                  {b \in @ : ~Expired(b) /\ b[1] # ip}]
  /\ UNCHANGED <<connected, exists, flags, level, chan_foot, now, seen,
                 forced, ceiling>>

Tick ==
  /\ now < MaxTime
  /\ now' = now + 1
  /\ UNCHANGED <<connected, exists, flags, level, chan_foot, banned, seen,
                 forced, ceiling>>

-----------------------------------------------------------------------------

Next ==
  \/ \E u \in Users : adduser(u) \/ deluser(u)
  \/ \E u \in Users, c \in Names :
        \/ cmd_join_new(u, c)
        \/ cmd_join_existing(u, c)
        \/ cmd_left(u, c)
        \/ sm_join(u, c)
  \/ \E c \in Names : sm_mkchan(c) \/ rmchan(c)
  \/ \E a, p \in Users, c \in Names, l \in 0 .. LevelMax + 1 :
        setlevel(a, p, c, l) \/ setlevel_server(p, c, l)
  \/ \E c \in Names, ip \in Ips :
        \/ \E term \in BanTerms : ban(c, ip, term)
        \/ rmban(c, ip)
  \/ Tick

Spec == Init /\ [][Next]_vars

-----------------------------------------------------------------------------
(* Properties.                                                             *)

(* The two membership lists agree: a user has a cell in CHANNEL.head       *)
(* exactly when the channel has one in USERS.chan_foot, whatever mix of    *)
(* join, left, ban, rmchan and deluser went before; members are connected  *)
(* and their channels exist, so that neither list points to freed memory.  *)
MembershipSymmetric ==
  /\ \A u \in Users, c \in Names : level[c][u] > 0 <=> c \in chan_foot[u]
  /\ \A u \in Users : chan_foot[u] # {} => u \in connected
  /\ \A u \in Users : chan_foot[u] \subseteq exists

(* No channel made by JOIN survives its last member: left() removes it on  *)
(* every path (LEFT, QUIT, timeout, ban, script), so names do not leak.    *)
NoEmptyAutodestroy ==
  \A c \in exists : AUTODESTROY \in flags[c] => Members(c) # {}

(* What a client knows is what is so: on an interactive channel the raws   *)
(* posted to a member describe exactly the members; a user who is not on   *)
(* the channel has been told so, whoever took it off.                      *)
RosterExact ==
  \A u \in Users, c \in Names :
     seen[u][c] = IF c \in chan_foot[u] /\ Interactive(c)
                  THEN Members(c) ELSE {}

(* A ban in force keeps its address off the channel: ban() takes every     *)
(* such member away and JOIN lets none in again until the entry expires;   *)
(* only a script, which skips getban(), can put one there.                 *)
NoBannedMember ==
  \A c \in Names : \A b \in banned[c], u \in Members(c) :
     (~Expired(b) /\ b[1] = IpOf[u]) => <<u, c>> \in forced

(* Levels come from above: however the members of a channel promote and    *)
(* demote each other with setlevel(), none gets past the highest level that *)
(* an AUTOOP user, or on a silent channel the server, ever gave on it       *)
(* (level 1, of a plain join, at least).                                    *)
LevelsGranted ==
  \A c \in Names, u \in Users : level[c][u] <= ceiling[c]

(* A ban is forgotten only when it has expired, when rmban() names its     *)
(* address, or with its channel: neither a JOIN that prunes the list nor   *)
(* another ban() loses one.                                                 *)
BanForgotten(c, b) ==
  \/ Expired(b)
  \/ c \notin exists'
  \/ rmban(c, b[1])
BanLasts ==
  [][\A c \in Names : \A b \in banned[c] \ banned'[c] : BanForgotten(c, b)]_vars

-----------------------------------------------------------------------------
(* The inductive invariant behind the safety properties.                   *)

(* A name that is not in use carries nothing over to its next channel.      *)
AbsentClean ==
  /\ \A c \in Names \ exists : flags[c] = {} /\ banned[c] = {}
  /\ \A c \in Names : ceiling[c] > 0

IInv ==
  /\ TypeOK
  /\ MembershipSymmetric
  /\ NoEmptyAutodestroy
  /\ RosterExact
  /\ NoBannedMember
  /\ LevelsGranted
  /\ AbsentClean

=============================================================================
