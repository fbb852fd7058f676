--------------------------- MODULE ChannelProofs ---------------------------
(* Proofs about Channel, for every set of users, names and addresses.      *)
EXTENDS Channel, TLAPS

USE LevelAssumption, NamesAssumption, IpAssumption, TimeAssumption

(* left() and FreeChannels() keep the types, whoever leaves.               *)
LEMMA LeftType ==
  ASSUME TypeOK, NEW D, left(D)
  PROVE  /\ level' \in [Names -> [Users -> Levels]]
         /\ chan_foot' \in [Users -> SUBSET Names]
         /\ seen' \in [Users -> [Names -> SUBSET Users]]
         /\ forced' \subseteq Users \X Names
  BY DEF TypeOK, left, Levels

LEMMA FreeType ==
  ASSUME TypeOK, NEW G, NEW bn \in [Names -> SUBSET Ban], FreeChannels(G, bn)
  PROVE  /\ exists' \subseteq Names
         /\ flags' \in [Names -> SUBSET Flags]
         /\ banned' \in [Names -> SUBSET Ban]
         /\ ceiling' \in [Names -> Levels]
  BY DEF TypeOK, FreeChannels, Levels

LEMMA JoinType ==
  ASSUME TypeOK, NEW u \in Users, NEW c \in Names, NEW fl, join(u, c, fl)
  PROVE  /\ level' \in [Names -> [Users -> Levels]]
         /\ chan_foot' \in [Users -> SUBSET Names]
         /\ seen' \in [Users -> [Names -> SUBSET Users]]
  BY DEF TypeOK, join, JoinRaws, Levels, Members

LEMMA TypeStep == TypeOK /\ [Next]_vars => TypeOK'
<1> SUFFICES ASSUME TypeOK, [Next]_vars PROVE TypeOK'
  OBVIOUS
<1>1. CASE UNCHANGED vars
  BY <1>1 DEF TypeOK, vars
<1>2. ASSUME NEW u \in Users, adduser(u) PROVE TypeOK'
  BY <1>2 DEF TypeOK, adduser
<1>3. ASSUME NEW u \in Users, deluser(u) PROVE TypeOK'
  BY <1>3, LeftType, FreeType DEF TypeOK, deluser
<1>4. ASSUME NEW u \in Users, NEW c \in Names, cmd_join_new(u, c) PROVE TypeOK'
  <2>1. NewFlags(c, {AUTODESTROY}) \in SUBSET Flags
    BY DEF NewFlags, Flags
  <2> QED
    BY <1>4, <2>1, JoinType DEF TypeOK, cmd_join_new
<1>5. ASSUME NEW u \in Users, NEW c \in Names, cmd_join_existing(u, c) PROVE TypeOK'
  <2>1. banned' \in [Names -> SUBSET Ban]
    BY <1>5 DEF TypeOK, cmd_join_existing, Pruned
  <2> QED
    BY <1>5, <2>1, JoinType DEF TypeOK, cmd_join_existing
<1>6. ASSUME NEW u \in Users, NEW c \in Names, cmd_left(u, c) PROVE TypeOK'
  BY <1>6, LeftType, FreeType DEF TypeOK, cmd_left
<1>7. ASSUME NEW u \in Users, NEW c \in Names, sm_join(u, c) PROVE TypeOK'
  BY <1>7, JoinType DEF TypeOK, sm_join
<1>8. ASSUME NEW c \in Names, sm_mkchan(c) PROVE TypeOK'
  <2>1. NewFlags(c, {}) \in SUBSET Flags
    BY DEF NewFlags, Flags
  <2> QED
    BY <1>8, <2>1 DEF TypeOK, sm_mkchan
<1>9. ASSUME NEW c \in Names, rmchan(c) PROVE TypeOK'
  BY <1>9, LeftType, FreeType DEF TypeOK, rmchan
<1>10. ASSUME NEW a \in Users, NEW p \in Users, NEW c \in Names, NEW l \in 0 .. LevelMax + 1,
              setlevel(a, p, c, l)
       PROVE TypeOK'
  BY <1>10 DEF TypeOK, setlevel, LevelInRange, Raise, Levels
<1>11. ASSUME NEW p \in Users, NEW c \in Names, NEW l \in 0 .. LevelMax + 1,
              setlevel_server(p, c, l)
       PROVE TypeOK'
  BY <1>11 DEF TypeOK, setlevel_server, Raise, Levels
<1>12. ASSUME NEW c \in Names, NEW ip \in Ips, NEW term \in BanTerms, ban(c, ip, term)
       PROVE TypeOK'
  <2> DEFINE new == [banned EXCEPT ![c] = @ \cup {<<ip, now + term>>}]
  <2>1. new \in [Names -> SUBSET Ban]
    BY DEF TypeOK, Ban
  <2> QED
    BY <1>12, <2>1, LeftType, FreeType DEF TypeOK, ban
<1>13. ASSUME NEW c \in Names, NEW ip \in Ips, rmban(c, ip) PROVE TypeOK'
  BY <1>13 DEF TypeOK, rmban
<1>14. CASE Tick
  BY <1>14 DEF TypeOK, Tick
<1> QED
  BY <1>1, <1>2, <1>3, <1>4, <1>5, <1>6, <1>7, <1>8, <1>9, <1>10, <1>11,
     <1>12, <1>13, <1>14 DEF Next

(* Every state of the channel layer is well typed: levels stay within the  *)
(* code's range whoever sets them.                                          *)
THEOREM TypeCorrect == Spec => []TypeOK
<1>1. Init => TypeOK
  BY DEF Init, TypeOK, Levels
<1> QED
  BY <1>1, TypeStep, PTL DEF Spec

-----------------------------------------------------------------------------
(* What each of the three building blocks does to the lists, in terms of   *)
(* who is a member before and after.                                        *)

LEMMA LeftLists ==
  ASSUME TypeOK, NEW D, left(D)
  PROVE  /\ \A u \in Users, c \in Names :
               level'[c][u] = IF u \in Leaving(D, c) THEN 0 ELSE level[c][u]
         /\ \A u \in Users, c \in Names :
               c \in chan_foot'[u] <=> c \in chan_foot[u] /\ u \notin Leaving(D, c)
  BY DEF TypeOK, left

(* left() treats the two lists alike, and nobody is left on a channel that *)
(* it hands to rmchan().                                                    *)
LEMMA LeftSymmetric ==
  ASSUME TypeOK, MembershipSymmetric, NEW D, left(D),
         NEW u \in Users, NEW c \in Names
  PROVE  /\ level'[c][u] > 0 <=> c \in chan_foot'[u]
         /\ c \in chan_foot'[u] => c \in chan_foot[u]
         /\ c \in chan_foot'[u] => c \notin Destroyed(D)
<1>1. level[c][u] \in Nat
  BY DEF TypeOK, Levels
<1>2. level'[c][u] > 0 <=> level[c][u] > 0 /\ u \notin Leaving(D, c)
  BY <1>1, LeftLists
<1>3. c \in chan_foot'[u] <=> c \in chan_foot[u] /\ u \notin Leaving(D, c)
  BY LeftLists
<1>4. level[c][u] > 0 <=> c \in chan_foot[u]
  BY DEF MembershipSymmetric
<1>5. c \in chan_foot'[u] => u \in Staying(D, c)
  BY <1>3, <1>4 DEF Staying, Members
<1> QED
  BY <1>2, <1>3, <1>4, <1>5 DEF Destroyed

LEMMA LeaveSymmetric ==
  ASSUME TypeOK, chan_foot' \in [Users -> SUBSET Names], MembershipSymmetric,
         NEW D, left(D), NEW G, exists' = exists \ G,
         \A u \in Users, c \in G : c \notin chan_foot'[u],
         connected' \subseteq connected,
         \A u \in Users : chan_foot'[u] # {} => u \notin connected \ connected'
  PROVE  MembershipSymmetric'
<1>1. \A u \in Users, c \in Names : level'[c][u] > 0 <=> c \in chan_foot'[u]
  BY LeftSymmetric
<1>2. \A u \in Users : chan_foot'[u] \subseteq chan_foot[u]
  BY LeftSymmetric
<1>3. \A u \in Users : chan_foot'[u] # {} => u \in connected'
  BY <1>2 DEF MembershipSymmetric
<1>4. \A u \in Users : chan_foot'[u] \subseteq exists'
  BY <1>2 DEF MembershipSymmetric
<1> QED
  BY <1>1, <1>3, <1>4 DEF MembershipSymmetric

(* Who leaves in deluser(), rmchan() and ban().                             *)
LEMMA LeavingUser ==
  ASSUME NEW u \in Users, NEW c \in Names
  PROVE  Leaving({u} \X chan_foot[u], c) = IF c \in chan_foot[u] THEN {u} ELSE {}
  BY DEF Leaving, isonchannel

LEMMA LeavingChannel ==
  ASSUME MembershipSymmetric, NEW c \in Names, NEW d \in Names,
         NEW S \in SUBSET Members(c)
  PROVE  Leaving(S \X {c}, d) = IF d = c THEN S ELSE {}
  BY DEF Leaving, isonchannel, Members, MembershipSymmetric

LEMMA JoinSymmetric ==
  ASSUME TypeOK, MembershipSymmetric, NEW u \in Users, NEW c \in Names, NEW fl,
         join(u, c, fl), u \in connected, connected' = connected,
         c \in exists', exists \subseteq exists'
  PROVE  MembershipSymmetric'
<1>1. \A v \in Users, d \in Names :
         level'[d][v] = IF v = u /\ d = c THEN 1 ELSE level[d][v]
  BY DEF TypeOK, join
<1>2. \A v \in Users :
         chan_foot'[v] = IF v = u THEN chan_foot[v] \cup {c} ELSE chan_foot[v]
  BY DEF TypeOK, join
<1>3. \A v \in Users, d \in Names : level'[d][v] > 0 <=> d \in chan_foot'[v]
  <2> SUFFICES ASSUME NEW v \in Users, NEW d \in Names
               PROVE  level'[d][v] > 0 <=> d \in chan_foot'[v]
    OBVIOUS
  <2>1. level[d][v] > 0 <=> d \in chan_foot[v]
    BY DEF MembershipSymmetric
  <2>2. CASE v = u /\ d = c
    <3>1. level'[d][v] = 1
      BY <2>2, <1>1
    <3>2. d \in chan_foot'[v]
      BY <2>2, <1>2
    <3> QED
      BY <3>1, <3>2
  <2>3. CASE ~(v = u /\ d = c)
    <3>1. level'[d][v] = level[d][v]
      BY <2>3, <1>1
    <3>2. d \in chan_foot'[v] <=> d \in chan_foot[v]
      BY <2>3, <1>2
    <3> QED
      BY <2>1, <3>1, <3>2
  <2> QED
    BY <2>2, <2>3
<1>4. \A v \in Users : chan_foot'[v] # {} => v \in connected'
  BY <1>2 DEF MembershipSymmetric
<1>5. ASSUME NEW v \in Users PROVE chan_foot'[v] \subseteq exists'
  <2>1. chan_foot'[v] \subseteq chan_foot[v] \cup {c}
    BY <1>2
  <2>2. chan_foot[v] \subseteq exists
    BY DEF MembershipSymmetric
  <2> QED
    BY <2>1, <2>2
<1> QED
  BY <1>3, <1>4, <1>5 DEF MembershipSymmetric

LEMMA SymStep == TypeOK /\ MembershipSymmetric /\ [Next]_vars => MembershipSymmetric'
<1> SUFFICES ASSUME TypeOK, MembershipSymmetric, [Next]_vars PROVE MembershipSymmetric'
  OBVIOUS
<1>1. CASE UNCHANGED vars
  BY <1>1 DEF MembershipSymmetric, vars
<1>2. ASSUME NEW u \in Users, adduser(u) PROVE MembershipSymmetric'
  BY <1>2 DEF MembershipSymmetric, adduser
<1>3. ASSUME NEW u \in Users, deluser(u) PROVE MembershipSymmetric'
  <2> DEFINE D == {u} \X chan_foot[u]
  <2>1. left(D) /\ FreeChannels(Destroyed(D), banned)
    BY <1>3 DEF deluser
  <2>2. chan_foot' \in [Users -> SUBSET Names]
    BY <2>1, LeftType
  <2>3. chan_foot'[u] = {}
    <3>1. \A c \in chan_foot[u] : c \in Names /\ u \in Leaving(D, c)
      BY LeavingUser DEF TypeOK
    <3>2. \A c \in Names : c \notin chan_foot'[u]
      BY <2>1, <3>1, LeftLists
    <3> QED
      BY <2>2, <3>2
  <2>4. \A v \in Users, c \in Destroyed(D) : c \notin chan_foot'[v]
    BY <2>1, LeftSymmetric DEF TypeOK, Destroyed
  <2> HIDE DEF D
  <2> QED
    BY <1>3, <2>1, <2>2, <2>3, <2>4, LeaveSymmetric DEF deluser, FreeChannels
<1>4. ASSUME NEW u \in Users, NEW c \in Names, cmd_join_new(u, c) PROVE MembershipSymmetric'
  BY <1>4, JoinSymmetric DEF cmd_join_new
<1>5. ASSUME NEW u \in Users, NEW c \in Names, cmd_join_existing(u, c) PROVE MembershipSymmetric'
  <2>1. CASE UNCHANGED <<level, chan_foot, seen>>
    BY <1>5, <2>1 DEF MembershipSymmetric, cmd_join_existing
  <2>2. CASE join(u, c, flags[c])
    BY <1>5, <2>2, JoinSymmetric DEF cmd_join_existing
  <2> QED
    BY <1>5, <2>1, <2>2 DEF cmd_join_existing
<1>6. ASSUME NEW u \in Users, NEW c \in Names, cmd_left(u, c) PROVE MembershipSymmetric'
  <2> DEFINE D == {<<u, c>>}
  <2>1. left(D) /\ FreeChannels(Destroyed(D), banned)
    BY <1>6 DEF cmd_left
  <2>2. chan_foot' \in [Users -> SUBSET Names]
    BY <2>1, LeftType
  <2>3. \A v \in Users, d \in Destroyed(D) : d \notin chan_foot'[v]
    BY <2>1, LeftSymmetric DEF TypeOK, Destroyed
  <2> HIDE DEF D
  <2> QED
    BY <1>6, <2>1, <2>2, <2>3, LeaveSymmetric DEF cmd_left, FreeChannels
<1>7. ASSUME NEW u \in Users, NEW c \in Names, sm_join(u, c) PROVE MembershipSymmetric'
  BY <1>7, JoinSymmetric DEF sm_join
<1>8. ASSUME NEW c \in Names, sm_mkchan(c) PROVE MembershipSymmetric'
  BY <1>8 DEF TypeOK, MembershipSymmetric, sm_mkchan
<1>9. ASSUME NEW c \in Names, rmchan(c) PROVE MembershipSymmetric'
  <2> DEFINE D == Members(c) \X {c}
  <2>1. left(D) /\ FreeChannels({c}, banned)
    BY <1>9 DEF rmchan
  <2>2. chan_foot' \in [Users -> SUBSET Names]
    BY <2>1, LeftType
  <2>3. \A v \in Users : c \notin chan_foot'[v]
    <3>1. Leaving(D, c) = Members(c)
      BY LeavingChannel
    <3> QED
      BY <2>1, <3>1, LeftLists DEF Members, MembershipSymmetric
  <2>4. exists' = exists \ {c} /\ connected' = connected
    BY <1>9, <2>1 DEF rmchan, FreeChannels
  <2>5. \A v \in Users, d \in {c} : d \notin chan_foot'[v]
    BY <2>3
  <2> HIDE DEF D
  <2> QED
    BY <2>1, <2>2, <2>4, <2>5, LeaveSymmetric
<1>10. ASSUME NEW a \in Users, NEW p \in Users, NEW c \in Names, NEW l \in 0 .. LevelMax + 1,
              setlevel(a, p, c, l)
       PROVE MembershipSymmetric'
  BY <1>10 DEF TypeOK, MembershipSymmetric, setlevel, MaySetLevel, LevelInRange, Levels
<1>11. ASSUME NEW p \in Users, NEW c \in Names, NEW l \in 0 .. LevelMax + 1,
              setlevel_server(p, c, l)
       PROVE MembershipSymmetric'
  BY <1>11 DEF TypeOK, MembershipSymmetric, setlevel_server, Levels
<1>12. ASSUME NEW c \in Names, NEW ip \in Ips, NEW term \in BanTerms, ban(c, ip, term)
       PROVE MembershipSymmetric'
  <2> DEFINE D == {u \in Members(c) : IpOf[u] = ip} \X {c}
             new == [banned EXCEPT ![c] = @ \cup {<<ip, now + term>>}]
  <2>1. left(D) /\ FreeChannels(Destroyed(D), new)
    BY <1>12 DEF ban
  <2>2. chan_foot' \in [Users -> SUBSET Names]
    BY <2>1, LeftType
  <2>3. \A v \in Users, d \in Destroyed(D) : d \notin chan_foot'[v]
    BY <2>1, LeftSymmetric DEF TypeOK, Destroyed
  <2> HIDE DEF D
  <2> QED
    BY <1>12, <2>1, <2>2, <2>3, LeaveSymmetric DEF ban, FreeChannels
<1>13. ASSUME NEW c \in Names, NEW ip \in Ips, rmban(c, ip) PROVE MembershipSymmetric'
  BY <1>13 DEF MembershipSymmetric, rmban
<1>14. CASE Tick
  BY <1>14 DEF MembershipSymmetric, Tick
<1> QED
  BY <1>1, <1>2, <1>3, <1>4, <1>5, <1>6, <1>7, <1>8, <1>9, <1>10, <1>11,
     <1>12, <1>13, <1>14 DEF Next

(* The two membership lists always agree, and neither points to a freed    *)
(* user or channel.                                                         *)
THEOREM MembershipAgreement == Spec => []MembershipSymmetric
<1>1. Init => TypeOK /\ MembershipSymmetric
  BY DEF Init, TypeOK, Levels, MembershipSymmetric
<1> QED
  BY <1>1, TypeStep, SymStep, PTL DEF Spec

-----------------------------------------------------------------------------
(* The other safety properties hang together: a roster is right only while *)
(* the flags of an unused name are clean, a ban holds only while left()    *)
(* and join() keep the two lists alike.  They are proved as one inductive  *)
(* invariant, IInv, from what a leave and a join do to each part.           *)

(* Everything left() and FreeChannels() do, as seen by one user on one     *)
(* channel: G is what is freed, and nobody stays on a freed channel.        *)
LEMMA LeaveEffect ==
  ASSUME TypeOK, MembershipSymmetric, NEW D, left(D), NEW u \in Users, NEW c \in Names
  PROVE  /\ u \in Members(c)' <=> u \in Members(c) /\ u \notin Leaving(D, c)
         /\ c \in chan_foot'[u] <=> u \in Members(c)'
         /\ Members(c)' = Staying(D, c)
         /\ level'[c][u] <= level[c][u]
         /\ u \in Members(c) <=> c \in chan_foot[u]
<1>1. \A v \in Users : level[c][v] \in Nat
  BY DEF TypeOK, Levels
<1>2. \A v \in Users : level'[c][v] = IF v \in Leaving(D, c) THEN 0 ELSE level[c][v]
  BY LeftLists
<1>3. \A v \in Users : v \in Members(c)' <=> v \in Members(c) /\ v \notin Leaving(D, c)
  BY <1>1, <1>2 DEF Members
<1>4. c \in chan_foot'[u] <=> c \in chan_foot[u] /\ u \notin Leaving(D, c)
  BY LeftLists
<1>5. u \in Members(c) <=> c \in chan_foot[u]
  BY DEF Members, MembershipSymmetric
<1>6. Members(c)' = Staying(D, c)
  BY <1>3 DEF Members, Staying
<1>7. level'[c][u] <= level[c][u]
  BY <1>1, <1>2
<1> QED
  BY <1>3, <1>4, <1>5, <1>6, <1>7

LEMMA FreeEffect ==
  ASSUME TypeOK, NEW G, NEW bn, FreeChannels(G, bn), NEW c \in Names
  PROVE  /\ c \in exists' <=> c \in exists /\ c \notin G
         /\ flags'[c] = IF c \in G THEN {} ELSE flags[c]
         /\ banned'[c] = IF c \in G THEN {} ELSE bn[c]
         /\ ceiling'[c] = IF c \in G THEN 1 ELSE ceiling[c]
  BY DEF TypeOK, FreeChannels

LEMMA LeaveKeeps ==
  ASSUME IInv, NEW D, left(D), NEW G, NEW bn \in [Names -> SUBSET Ban],
         FreeChannels(G, bn), now' = now,
         Destroyed(D) \subseteq G,
         \A c \in Names : c \in G => Staying(D, c) = {},
         \A c \in Names \ exists : bn[c] = {},
         \A c \in Names : \A b \in bn[c] \ banned[c] : \A u \in Members(c) :
            b[1] = IpOf[u] => u \in Leaving(D, c)
  PROVE  /\ NoEmptyAutodestroy'
         /\ RosterExact'
         /\ NoBannedMember'
         /\ LevelsGranted'
         /\ AbsentClean'
<1> USE DEF IInv
<1>1. NoEmptyAutodestroy'
  <2> SUFFICES ASSUME NEW c \in exists', AUTODESTROY \in flags'[c]
               PROVE  Members(c)' # {}
    BY DEF NoEmptyAutodestroy
  <2>1. c \in Names /\ c \in exists /\ c \notin G
    BY FreeEffect, FreeType DEF TypeOK
  <2>2. AUTODESTROY \in flags[c] /\ Members(c) # {}
    BY <2>1, FreeEffect DEF NoEmptyAutodestroy
  <2>3. Members(c)' = Staying(D, c)
    BY <2>1, <2>2, LeaveEffect DEF Members
  <2>4. Leaving(D, c) = {} => Staying(D, c) = Members(c)
    BY DEF Staying
  <2> QED
    BY <2>1, <2>2, <2>3, <2>4 DEF Destroyed
<1>2. RosterExact'
  <2> SUFFICES ASSUME NEW u \in Users, NEW c \in Names
               PROVE  seen'[u][c] = IF c \in chan_foot'[u] /\ NONINTERACTIVE \notin flags'[c]
                                    THEN Members(c)' ELSE {}
    BY DEF RosterExact, Interactive
  <2>1. seen'[u][c] = IF u \in Leaving(D, c) THEN {}
                      ELSE IF u \in Staying(D, c) /\ Interactive(c)
                           THEN seen[u][c] \ Leaving(D, c)
                           ELSE seen[u][c]
    BY DEF left
  <2>2. seen[u][c] = IF c \in chan_foot[u] /\ Interactive(c) THEN Members(c) ELSE {}
    BY DEF RosterExact
  <2>3. /\ c \in chan_foot'[u] <=> u \in Staying(D, c)
        /\ Members(c)' = Staying(D, c)
        /\ u \in Members(c) <=> c \in chan_foot[u]
    BY LeaveEffect DEF Staying
  <2>4. c \notin G => flags'[c] = flags[c]
    BY FreeEffect
  <2>5. c \in G => Staying(D, c) = {}
    OBVIOUS
  <2> QED
    BY <2>1, <2>2, <2>3, <2>4, <2>5 DEF Staying, Interactive
<1>3. NoBannedMember'
  <2> SUFFICES ASSUME NEW c \in Names, NEW b \in banned'[c], NEW u \in Members(c)',
                      ~(b[2] < now), b[1] = IpOf[u]
               PROVE  <<u, c>> \in forced'
    BY DEF NoBannedMember, Expired
  <2>1. u \in Users
    BY DEF Members
  <2>2. u \in Members(c) /\ u \notin Leaving(D, c)
    BY <2>1, LeaveEffect
  <2>3. b \in bn[c]
    BY FreeEffect
  <2>4. b \in banned[c]
    BY <2>2, <2>3
  <2>5. <<u, c>> \in forced
    BY <2>2, <2>4 DEF NoBannedMember, Expired
  <2> QED
    BY <2>2, <2>5 DEF left
<1>4. LevelsGranted'
  <2> SUFFICES ASSUME NEW c \in Names, NEW u \in Users
               PROVE  level'[c][u] <= ceiling'[c]
    BY DEF LevelsGranted
  <2>1. /\ level[c][u] \in Nat
        /\ level[c][u] <= ceiling[c]
        /\ ceiling[c] \in Nat
    BY DEF TypeOK, Levels, LevelsGranted
  <2>2. level'[c][u] = IF u \in Leaving(D, c) THEN 0 ELSE level[c][u]
    BY LeftLists
  <2>3. c \in G => level'[c][u] = 0
    BY <2>1, <2>2 DEF Staying, Members
  <2>4. ceiling'[c] = IF c \in G THEN 1 ELSE ceiling[c]
    BY FreeEffect
  <2> QED
    BY <2>1, <2>2, <2>3, <2>4
<1>5. AbsentClean'
  <2>1. ASSUME NEW c \in Names \ exists' PROVE flags'[c] = {} /\ banned'[c] = {}
    BY <2>1, FreeEffect DEF AbsentClean
  <2>2. ASSUME NEW c \in Names PROVE ceiling'[c] > 0
    BY <2>2, FreeEffect DEF AbsentClean
  <2> QED
    BY <2>1, <2>2 DEF AbsentClean
<1> QED
  BY <1>1, <1>2, <1>3, <1>4, <1>5

(* join() adds one member to one channel, which was not on it.              *)
LEMMA JoinEffect ==
  ASSUME TypeOK, MembershipSymmetric, NEW u \in Users, NEW c \in Names, NEW fl,
         join(u, c, fl), NEW d \in Names
  PROVE  /\ Members(d)' = IF d = c THEN Members(d) \cup {u} ELSE Members(d)
         /\ \A v \in Users : d \in chan_foot'[v] <=> d \in chan_foot[v] \/ (v = u /\ d = c)
         /\ \A v \in Users : v \in Members(d) <=> d \in chan_foot[v]
         /\ \A v \in Users : level'[d][v] = IF v = u /\ d = c THEN 1 ELSE level[d][v]
<1>1. \A v \in Users : level'[d][v] = IF v = u /\ d = c THEN 1 ELSE level[d][v]
  BY DEF TypeOK, join
<1>2. \A v \in Users : d \in chan_foot'[v] <=> d \in chan_foot[v] \/ (v = u /\ d = c)
  BY DEF TypeOK, join
<1>3. \A v \in Users : v \in Members(d) <=> d \in chan_foot[v]
  BY DEF Members, MembershipSymmetric
<1>4. Members(d)' = IF d = c THEN Members(d) \cup {u} ELSE Members(d)
  BY <1>1 DEF Members
<1> QED
  BY <1>1, <1>2, <1>3, <1>4

LEMMA JoinRoster ==
  ASSUME IInv, NEW u \in Users, NEW c \in Names, join(u, c, flags'[c]),
         ~isonchannel(u, c),
         \A d \in Names \ {c} : flags'[d] = flags[d],
         Members(c) # {} => flags'[c] = flags[c]
  PROVE  RosterExact'
<1> USE DEF IInv
<1> SUFFICES ASSUME NEW v \in Users, NEW d \in Names
             PROVE  seen'[v][d] = IF d \in chan_foot'[v] /\ NONINTERACTIVE \notin flags'[d]
                                  THEN Members(d)' ELSE {}
  BY DEF RosterExact, Interactive
<1>1. seen[v][d] = IF d \in chan_foot[v] /\ NONINTERACTIVE \notin flags[d] THEN Members(d) ELSE {}
  BY DEF RosterExact, Interactive
<1>2. /\ Members(d)' = IF d = c THEN Members(d) \cup {u} ELSE Members(d)
      /\ d \in chan_foot'[v] <=> d \in chan_foot[v] \/ (v = u /\ d = c)
      /\ v \in Members(d) <=> d \in chan_foot[v]
  BY JoinEffect
<1>3. CASE d # c
  <2>1. seen'[v][d] = seen[v][d]
    BY <1>3 DEF join, JoinRaws, TypeOK
  <2> QED
    BY <1>1, <1>2, <1>3, <2>1
<1>4. CASE d = c /\ NONINTERACTIVE \in flags'[c]
  <2>1. seen'[v][d] = seen[v][d]
    BY <1>4 DEF join
  <2>2. seen[v][d] = {}
    BY <1>1, <1>2, <1>4
  <2> QED
    BY <1>4, <2>1, <2>2
<1>5. CASE d = c /\ NONINTERACTIVE \notin flags'[c]
  <2>1. seen'[v][c] = IF v = u THEN Members(c) \cup {u}
                      ELSE IF v \in Members(c) THEN seen[v][c] \cup {u} ELSE seen[v][c]
    BY <1>5 DEF join, JoinRaws, TypeOK
  <2> QED
    BY <1>1, <1>2, <1>5, <2>1
<1> QED
  BY <1>3, <1>4, <1>5

LEMMA JoinLevels ==
  ASSUME IInv, NEW u \in Users, NEW c \in Names, NEW fl, join(u, c, fl),
         ceiling' = ceiling
  PROVE  LevelsGranted'
<1> SUFFICES ASSUME NEW d \in Names, NEW v \in Users PROVE level'[d][v] <= ceiling[d]
  BY DEF LevelsGranted
<1>1. level'[d][v] = IF v = u /\ d = c THEN 1 ELSE level[d][v]
  BY JoinEffect DEF IInv
<1>2. ceiling[d] \in Nat /\ ceiling[d] > 0 /\ level[d][v] <= ceiling[d]
  BY DEF IInv, AbsentClean, LevelsGranted, TypeOK, Levels
<1> QED
  BY <1>1, <1>2

(* A join keeps the bans when the newcomer is not banned or is forced in.   *)
LEMMA JoinBans ==
  ASSUME IInv, NEW u \in Users, NEW c \in Names, NEW fl, join(u, c, fl), now' = now,
         \A d \in Names : banned'[d] \subseteq banned[d],
         forced \subseteq forced',
         <<u, c>> \in forced' \/ \A b \in banned[c] : b[1] = IpOf[u] => Expired(b)
  PROVE  NoBannedMember'
<1> SUFFICES ASSUME NEW d \in Names, NEW b \in banned'[d], NEW v \in Members(d)',
                    ~(b[2] < now), b[1] = IpOf[v]
             PROVE  <<v, d>> \in forced'
  BY DEF NoBannedMember, Expired
<1>1. b \in banned[d]
  OBVIOUS
<1>2. v \in Members(d) \/ (v = u /\ d = c)
  BY JoinEffect DEF IInv
<1>3. CASE v \in Members(d)
  BY <1>1, <1>3 DEF IInv, NoBannedMember, Expired
<1>4. CASE v = u /\ d = c
  BY <1>1, <1>4 DEF Expired
<1> QED
  BY <1>2, <1>3, <1>4

(* The parts of IInv that TypeStep and SymStep leave to be shown.           *)
Kept == NoEmptyAutodestroy /\ RosterExact /\ NoBannedMember /\ LevelsGranted /\ AbsentClean

(* A step that touches no list and adds no ban, while time may pass.        *)
LEMMA IdleKeeps ==
  ASSUME IInv, UNCHANGED <<exists, flags, level, chan_foot, seen, forced, ceiling>>,
         \A c \in Names : banned'[c] \subseteq banned[c],
         now' \in Nat, now <= now'
  PROVE  Kept'
<1>1. \A c \in Names : Members(c)' = Members(c) /\ Interactive(c)' = Interactive(c)
  BY DEF Members, Interactive
<1>2. NoEmptyAutodestroy'
  BY <1>1 DEF IInv, TypeOK, NoEmptyAutodestroy
<1>3. RosterExact'
  BY <1>1 DEF IInv, RosterExact
<1>4. NoBannedMember'
  <2> SUFFICES ASSUME NEW c \in Names, NEW b \in banned'[c], NEW u \in Members(c),
                      ~(b[2] < now'), b[1] = IpOf[u]
               PROVE  <<u, c>> \in forced
    BY <1>1 DEF NoBannedMember, Expired
  <2>1. b \in banned[c] /\ b[2] \in Nat /\ now \in Nat
    BY DEF IInv, TypeOK, Ban
  <2>2. ~(b[2] < now)
    BY <2>1
  <2> QED
    BY <2>1, <2>2 DEF IInv, NoBannedMember, Expired
<1>5. LevelsGranted'
  BY DEF IInv, LevelsGranted
<1>6. AbsentClean'
  BY DEF IInv, AbsentClean
<1> QED
  BY <1>2, <1>3, <1>4, <1>5, <1>6 DEF Kept

LEMMA KeptStep == IInv /\ [Next]_vars => Kept'
<1> SUFFICES ASSUME IInv, [Next]_vars PROVE Kept'
  OBVIOUS
<1>0. TypeOK /\ MembershipSymmetric /\ banned \in [Names -> SUBSET Ban] /\ now \in Nat
  BY DEF IInv, TypeOK
<1>1. CASE UNCHANGED vars
  BY <1>0, <1>1, IdleKeeps DEF vars
<1>2. ASSUME NEW u \in Users, adduser(u) PROVE Kept'
  BY <1>0, <1>2, IdleKeeps DEF adduser
<1>3. ASSUME NEW u \in Users, deluser(u) PROVE Kept'
  <2> DEFINE D == {u} \X chan_foot[u]
  <2>1. left(D) /\ FreeChannels(Destroyed(D), banned) /\ now' = now
    BY <1>3 DEF deluser
  <2> HIDE DEF D
  <2>2. \A d \in Names : d \in Destroyed(D) => Staying(D, d) = {}
    BY DEF Destroyed
  <2>3. \A d \in Names \ exists : banned[d] = {}
    BY DEF IInv, AbsentClean
  <2> QED
    BY <1>0, <2>1, <2>2, <2>3, LeaveKeeps DEF Kept
<1>4. ASSUME NEW u \in Users, NEW c \in Names, cmd_join_new(u, c) PROVE Kept'
  <2>1. ~isonchannel(u, c) /\ Members(c) = {}
    BY <1>0, <1>4 DEF cmd_join_new, MembershipSymmetric, isonchannel, Members
  <2>2. /\ flags'[c] = NewFlags(c, {AUTODESTROY})
        /\ \A d \in Names \ {c} : flags'[d] = flags[d]
        /\ join(u, c, flags'[c])
    BY <1>0, <1>4 DEF cmd_join_new, TypeOK
  <2>3. NoEmptyAutodestroy'
    <3> SUFFICES ASSUME NEW d \in exists', AUTODESTROY \in flags'[d] PROVE Members(d)' # {}
      BY DEF NoEmptyAutodestroy
    <3>1. d \in Names /\ (d # c => d \in exists)
      BY <1>0, <1>4 DEF cmd_join_new, TypeOK
    <3>2. Members(d)' = IF d = c THEN Members(d) \cup {u} ELSE Members(d)
      BY <1>0, <2>2, <3>1, JoinEffect
    <3> QED
      BY <2>2, <3>1, <3>2 DEF IInv, NoEmptyAutodestroy
  <2>4. RosterExact'
    BY <2>1, <2>2, JoinRoster
  <2>5. NoBannedMember'
    BY <1>4, <2>2, JoinBans DEF cmd_join_new, IInv, AbsentClean
  <2>6. LevelsGranted'
    BY <1>4, <2>2, JoinLevels DEF cmd_join_new
  <2>7. AbsentClean'
    BY <1>4, <2>2 DEF cmd_join_new, IInv, AbsentClean
  <2> QED
    BY <2>3, <2>4, <2>5, <2>6, <2>7 DEF Kept
<1>5. ASSUME NEW u \in Users, NEW c \in Names, cmd_join_existing(u, c) PROVE Kept'
  <2>1. \A d \in Names : banned'[d] \subseteq banned[d]
    BY <1>0, <1>5 DEF cmd_join_existing, Pruned
  <2>2. UNCHANGED <<connected, exists, flags, now, forced, ceiling>>
    BY <1>5 DEF cmd_join_existing
  <2>3. AbsentClean'
    BY <2>1, <2>2 DEF IInv, AbsentClean
  <2>4. CASE UNCHANGED <<level, chan_foot, seen>>
    BY <1>0, <2>1, <2>2, <2>4, IdleKeeps
  <2>5. CASE InForce(c, IpOf[u]) = {} /\ join(u, c, flags[c])
    <3>1. \A b \in banned[c] : b[1] = IpOf[u] => Expired(b)
      BY <2>5 DEF InForce
    <3>2. NoEmptyAutodestroy'
      BY <1>0, <2>2, <2>5, JoinEffect DEF IInv, NoEmptyAutodestroy, TypeOK
    <3>3. RosterExact'
      BY <1>5, <2>2, <2>5, JoinRoster DEF cmd_join_existing
    <3>4. NoBannedMember'
      BY <2>1, <2>2, <2>5, <3>1, JoinBans
    <3>5. LevelsGranted'
      BY <2>2, <2>5, JoinLevels
    <3> QED
      BY <2>3, <3>2, <3>3, <3>4, <3>5 DEF Kept
  <2> QED
    BY <1>5, <2>4, <2>5 DEF cmd_join_existing
<1>6. ASSUME NEW u \in Users, NEW c \in Names, cmd_left(u, c) PROVE Kept'
  <2> DEFINE D == {<<u, c>>}
  <2>1. left(D) /\ FreeChannels(Destroyed(D), banned) /\ now' = now
    BY <1>6 DEF cmd_left
  <2> HIDE DEF D
  <2>2. \A d \in Names : d \in Destroyed(D) => Staying(D, d) = {}
    BY DEF Destroyed
  <2>3. \A d \in Names \ exists : banned[d] = {}
    BY DEF IInv, AbsentClean
  <2> QED
    BY <1>0, <2>1, <2>2, <2>3, LeaveKeeps DEF Kept
<1>7. ASSUME NEW u \in Users, NEW c \in Names, sm_join(u, c) PROVE Kept'
  <2>1. join(u, c, flags[c]) /\ UNCHANGED <<connected, exists, flags, banned, now, ceiling>>
    BY <1>7 DEF sm_join
  <2>2. NoEmptyAutodestroy'
    BY <1>0, <2>1, JoinEffect DEF IInv, NoEmptyAutodestroy, TypeOK
  <2>3. RosterExact'
    BY <1>7, <2>1, JoinRoster DEF sm_join
  <2>4. NoBannedMember'
    BY <1>7, <2>1, JoinBans DEF sm_join
  <2>5. LevelsGranted'
    BY <2>1, JoinLevels
  <2>6. AbsentClean'
    BY <2>1 DEF IInv, AbsentClean
  <2> QED
    BY <2>2, <2>3, <2>4, <2>5, <2>6 DEF Kept
<1>8. ASSUME NEW c \in Names, sm_mkchan(c) PROVE Kept'
  <2>1. /\ flags'[c] = NewFlags(c, {})
        /\ \A d \in Names \ {c} : flags'[d] = flags[d]
        /\ exists' = exists \cup {c}
        /\ UNCHANGED <<connected, level, chan_foot, banned, now, seen, forced, ceiling>>
    BY <1>0, <1>8 DEF sm_mkchan, TypeOK
  <2>2. \A v \in Users : c \notin chan_foot[v]
    BY <1>0, <1>8 DEF sm_mkchan, MembershipSymmetric
  <2>3. NoEmptyAutodestroy'
    BY <1>0, <2>1 DEF IInv, NoEmptyAutodestroy, Members, NewFlags, AUTODESTROY, NONINTERACTIVE, TypeOK
  <2>4. RosterExact'
    <3> SUFFICES ASSUME NEW v \in Users, NEW d \in Names
                 PROVE  seen[v][d] = IF d \in chan_foot[v] /\ NONINTERACTIVE \notin flags'[d]
                                     THEN Members(d) ELSE {}
      BY <2>1 DEF RosterExact, Interactive, Members
    <3> QED
      BY <2>1, <2>2 DEF IInv, RosterExact, Interactive
  <2>5. NoBannedMember' /\ LevelsGranted'
    BY <2>1 DEF IInv, NoBannedMember, LevelsGranted, Members, Expired
  <2>6. AbsentClean'
    BY <2>1 DEF IInv, AbsentClean
  <2> QED
    BY <2>3, <2>4, <2>5, <2>6 DEF Kept
<1>9. ASSUME NEW c \in Names, rmchan(c) PROVE Kept'
  <2> DEFINE D == Members(c) \X {c}
  <2>1. left(D) /\ FreeChannels({c}, banned) /\ now' = now
    BY <1>9 DEF rmchan
  <2>2. \A d \in Names : Leaving(D, d) = IF d = c THEN Members(c) ELSE {}
    BY <1>0, LeavingChannel
  <2>3. Staying(D, c) = {} /\ Destroyed(D) \subseteq {c}
    BY <1>0, <2>2 DEF Staying, Destroyed, TypeOK
  <2> HIDE DEF D
  <2> QED
    BY <1>0, <2>1, <2>3, LeaveKeeps DEF Kept, IInv, AbsentClean
<1>10. ASSUME NEW a \in Users, NEW p \in Users, NEW c \in Names, NEW l \in 0 .. LevelMax + 1,
              setlevel(a, p, c, l)
       PROVE Kept'
  <2>1. /\ level' = [level EXCEPT ![c][p] = l]
        /\ l \in 1 .. LevelMax /\ level[c][p] > 0
        /\ a \in AutoOp \/ l <= level[c][a]
        /\ ceiling' = IF a \in AutoOp THEN Raise(c, l) ELSE ceiling
        /\ UNCHANGED <<connected, exists, flags, chan_foot, banned, now, seen, forced>>
    BY <1>10 DEF setlevel, LevelInRange, MaySetLevel
  <2>2. \A d \in Names : Members(d)' = Members(d)
    BY <1>0, <2>1 DEF Members, TypeOK, Levels
  <2>3. LevelsGranted' /\ \A d \in Names : ceiling'[d] > 0
    BY <1>0, <2>1 DEF IInv, LevelsGranted, AbsentClean, TypeOK, Levels, Raise
  <2> QED
    BY <1>0, <2>1, <2>2, <2>3 DEF IInv, Kept, NoEmptyAutodestroy, RosterExact, NoBannedMember,
       AbsentClean, Interactive, Expired, TypeOK
<1>11. ASSUME NEW p \in Users, NEW c \in Names, NEW l \in 0 .. LevelMax + 1,
              setlevel_server(p, c, l)
       PROVE Kept'
  <2>1. /\ level' = [level EXCEPT ![c][p] = l]
        /\ l \in 1 .. LevelMax /\ level[c][p] > 0
        /\ ceiling' = Raise(c, l)
        /\ UNCHANGED <<connected, exists, flags, chan_foot, banned, now, seen, forced>>
    BY <1>11 DEF setlevel_server
  <2>2. \A d \in Names : Members(d)' = Members(d)
    BY <1>0, <2>1 DEF Members, TypeOK, Levels
  <2>3. LevelsGranted' /\ \A d \in Names : ceiling'[d] > 0
    BY <1>0, <2>1 DEF IInv, LevelsGranted, AbsentClean, TypeOK, Levels, Raise
  <2> QED
    BY <1>0, <2>1, <2>2, <2>3 DEF IInv, Kept, NoEmptyAutodestroy, RosterExact, NoBannedMember,
       AbsentClean, Interactive, Expired, TypeOK
<1>12. ASSUME NEW c \in Names, NEW ip \in Ips, NEW term \in BanTerms, ban(c, ip, term)
       PROVE Kept'
  <2> DEFINE hit == {u \in Members(c) : IpOf[u] = ip}
             new == [banned EXCEPT ![c] = @ \cup {<<ip, now + term>>}]
  <2>1. left(hit \X {c}) /\ FreeChannels(Destroyed(hit \X {c}), new) /\ now' = now
    BY <1>12 DEF ban
  <2>2. new \in [Names -> SUBSET Ban]
    BY <1>0 DEF TypeOK, Ban
  <2>3. \A d \in Names \ exists : new[d] = {}
    BY <1>0, <1>12 DEF IInv, AbsentClean, ban
  <2>4. \A d \in Names : \A b \in new[d] \ banned[d] : \A u \in Members(d) :
           b[1] = IpOf[u] => u \in Leaving(hit \X {c}, d)
    <3>1. Leaving(hit \X {c}, c) = hit
      BY <1>0, LeavingChannel
    <3>2. \A d \in Names : \A b \in new[d] \ banned[d] : d = c /\ b[1] = ip
      BY <1>0
    <3> QED
      BY <3>1, <3>2
  <2> DEFINE D == hit \X {c}
  <2>5. /\ Destroyed(D) \subseteq Destroyed(D)
        /\ \A d \in Names : d \in Destroyed(D) => Staying(D, d) = {}
    BY DEF Destroyed
  <2> HIDE DEF hit, new, D
  <2>6. left(D) /\ FreeChannels(Destroyed(D), new)
    BY <2>1 DEF D
  <2>7. \A d \in Names : \A b \in new[d] \ banned[d] : \A u \in Members(d) :
           b[1] = IpOf[u] => u \in Leaving(D, d)
    BY <2>4 DEF D
  <2> QED
    BY <2>1, <2>2, <2>3, <2>5, <2>6, <2>7, LeaveKeeps DEF Kept
<1>13. ASSUME NEW c \in Names, NEW ip \in Ips, rmban(c, ip) PROVE Kept'
  <2>1. \A d \in Names : banned'[d] \subseteq banned[d]
    BY <1>0, <1>13 DEF rmban
  <2> QED
    BY <1>0, <1>13, <2>1, IdleKeeps DEF rmban
<1>14. CASE Tick
  BY <1>0, <1>14, IdleKeeps DEF Tick
<1> QED
  BY <1>1, <1>2, <1>3, <1>4, <1>5, <1>6, <1>7, <1>8, <1>9, <1>10, <1>11,
     <1>12, <1>13, <1>14 DEF Next

(* The invariant of the whole channel layer, from which the theorems below *)
(* are read off.                                                            *)
LEMMA Invariance == Spec => []IInv
<1>1. Init => IInv
  BY DEF Init, IInv, TypeOK, Levels, MembershipSymmetric, NoEmptyAutodestroy, RosterExact,
     NoBannedMember, LevelsGranted, AbsentClean, Members, Interactive
<1>2. IInv /\ [Next]_vars => IInv'
  BY TypeStep, SymStep, KeptStep DEF IInv, Kept
<1> QED
  BY <1>1, <1>2, PTL DEF Spec

(* No channel made by JOIN outlives its last member, on whichever path the *)
(* member went.                                                             *)
THEOREM NamesReclaimed == Spec => []NoEmptyAutodestroy
  BY Invariance, PTL DEF IInv

(* The JOIN, LEFT and CHANNEL raws posted to a client always add up to the *)
(* membership the server holds.                                             *)
THEOREM RostersExact == Spec => []RosterExact
  BY Invariance, PTL DEF IInv

(* A banned address is on the channel only where a script put it there.     *)
THEOREM BansHold == Spec => []NoBannedMember
  BY Invariance, PTL DEF IInv

(* No promotion among members (setlevel()) gets past what an AUTOOP user,  *)
(* or on a silent channel the server itself, gave.                          *)
THEOREM NoEscalation == Spec => []LevelsGranted
  BY Invariance, PTL DEF IInv

(* A ban is lost only by expiry, by rmban() of its address or with its     *)
(* channel: the pruning in getban(), other bans, leaves and the removal of *)
(* other channels all keep it.                                              *)
THEOREM BansLast == Spec => BanLasts
<1>1. ASSUME TypeOK, [Next]_vars, NEW c \in Names, NEW b \in banned[c] \ banned'[c]
      PROVE  BanForgotten(c, b)
  <2> USE <1>1
  <2>0. banned \in [Names -> SUBSET Ban]
    BY DEF TypeOK
  <2>1. ASSUME NEW G, NEW bn, FreeChannels(G, bn), banned[c] \subseteq bn[c]
        PROVE  c \notin exists'
    BY <2>1, FreeEffect
  <2>2. CASE UNCHANGED banned
    BY <2>2
  <2>3. ASSUME NEW u \in Users, deluser(u) PROVE c \notin exists'
    BY <2>1, <2>3 DEF deluser
  <2>4. ASSUME NEW u \in Users, NEW d \in Names, cmd_join_existing(u, d) PROVE Expired(b)
    <3>1. PICK rest \in Pruned(d, IpOf[u]) : banned' = [banned EXCEPT ![d] = rest]
      BY <2>4 DEF cmd_join_existing
    <3>2. d = c /\ b \notin rest
      BY <2>0, <3>1
    <3> QED
      BY <3>1, <3>2 DEF Pruned
  <2>5. ASSUME NEW u \in Users, NEW d \in Names, cmd_left(u, d) PROVE c \notin exists'
    BY <2>1, <2>5 DEF cmd_left
  <2>6. ASSUME NEW d \in Names, rmchan(d) PROVE c \notin exists'
    BY <2>1, <2>6 DEF rmchan
  <2>7. ASSUME NEW d \in Names, NEW ip \in Ips, NEW term \in BanTerms, ban(d, ip, term)
        PROVE  c \notin exists'
    <3> DEFINE D == {u \in Members(d) : IpOf[u] = ip} \X {d}
               new == [banned EXCEPT ![d] = @ \cup {<<ip, now + term>>}]
    <3>1. FreeChannels(Destroyed(D), new)
      BY <2>7 DEF ban
    <3>2. banned[c] \subseteq new[c]
      BY <2>0
    <3> HIDE DEF D, new
    <3> QED
      BY <2>1, <3>1, <3>2
  <2>8. ASSUME NEW d \in Names, NEW ip \in Ips, rmban(d, ip)
        PROVE  Expired(b) \/ rmban(c, b[1])
    <3>1. d = c /\ (Expired(b) \/ b[1] = ip)
      BY <2>0, <2>8 DEF rmban
    <3> QED
      BY <2>8, <3>1
  <2>9. UNCHANGED banned \/ Next
    BY DEF vars
  <2> QED
    BY <2>2, <2>3, <2>4, <2>5, <2>6, <2>7, <2>8, <2>9
       DEF BanForgotten, Next, adduser, cmd_join_new, sm_join, sm_mkchan, setlevel,
           setlevel_server, Tick
<1>2. TypeOK /\ [Next]_vars
        => [\A c \in Names : \A b \in banned[c] \ banned'[c] : BanForgotten(c, b)]_vars
  BY <1>1
<1> QED
  BY <1>2, TypeCorrect, PTL DEF Spec, BanLasts

=============================================================================
