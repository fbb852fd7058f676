----------------------------- MODULE MCScripts -----------------------------
(***************************************************************************)
(* Instance of Scripts: two users, two channels, one custom pipe.  Two     *)
(* spellings of a name, all keys in two buckets so that chains have more   *)
(* than one cell.                                                           *)
(***************************************************************************)
EXTENDS Scripts

CONSTANTS u1, u2, c1, c2, p1

MCUsers  == {u1, u2}
MCChans  == {c1, c2}
MCKeys   == {"room", "Room", "hall", u1, u2, c1, c2, p1}
MCLower  == [k \in MCKeys |-> IF k = "Room" THEN "room" ELSE k]
MCBucket == [k \in MCKeys |-> IF k = "hall" THEN 1 ELSE 0]
MCInstalls ==
  {[calls |-> {"members", "users"},    names |-> {"Room"}],
   [calls |-> {"members", "channels"}, names |-> {"Room"}],
   [calls |-> {"users"},               names |-> {"Room", "hall"}],
   [calls |-> {"channels"},            names |-> {"Room", "hall"}],
   [calls |-> {"values"},              names |-> {"Room"}],
   [calls |-> {"pipes", "values"},     names |-> {}]}
MCSymmetry == Permutations(MCUsers) \cup Permutations(MCChans)

=============================================================================
