--------------------------- MODULE TimerContract ---------------------------
(***************************************************************************)
(* What setTimeout, setInterval and add_periodical promise to their        *)
(* callers: "Execute a function after specified delay", "Calls a function  *)
(* repeatedly, with a fixed time delay between each call", "Exec callback  *)
(* times x each sec".  A timer is called in the very tick in which its     *)
(* delay has run out, no tick begins while one is due, it is called as     *)
(* often as was asked, and not at all once it has been cleared.            *)
(***************************************************************************)
EXTENDS Naturals

CONSTANTS
  Ids,     \* timer identifiers
  Delays,  \* delays that may be asked for
  Times,   \* numbers of calls that may be asked for, 0 for ever
  Start,   \* the timers the server starts with
  NONE

VARIABLES
  pending,  \* id |-> [left, need, times, cleared], or NONE
  calling   \* the timer whose function runs, or NONE

vars == <<pending, calling>>

Live == {i \in Ids : pending[i] # NONE}
Due(i) == i \in Live /\ pending[i].left = 0

(* The number of calls still to come after the present one, 0 for ever:    *)
(* the present one is the last when a single one remained.                  *)
Last(p) == p.times = 1
Rearmed(p) == [p EXCEPT !.left = p.need,
                        !.times = IF p.times = 0 THEN 0 ELSE p.times - 1]

Set(i, ms, times) ==
  /\ i \notin Live
  /\ pending' = [pending EXCEPT ![i] = [left |-> ms, need |-> ms, times |-> times,
                                        cleared |-> FALSE]]
  /\ UNCHANGED calling

Clear(i) ==
  /\ i \in Live
  /\ pending' = [pending EXCEPT ![i].cleared = TRUE]
  /\ UNCHANGED calling

Tick ==
  /\ calling = NONE
  /\ \A i \in Live : ~Due(i)
  /\ pending' = [i \in Ids |-> IF i \in Live
                              THEN [pending[i] EXCEPT !.left = @ - 1]
                              ELSE NONE]
  /\ UNCHANGED calling

Call(i) ==
  /\ calling = NONE
  /\ Due(i)
  /\ ~pending[i].cleared
  /\ calling' = i
  /\ UNCHANGED pending

(* The function returns: the timer is armed again, unless this was its     *)
(* last call or it was cleared in the meantime.                             *)
Return ==
  /\ calling # NONE
  /\ calling' = NONE
  /\ LET p == pending[calling]
     IN  pending' = [pending EXCEPT ![calling] =
                       IF Last(p) \/ p.cleared THEN NONE ELSE Rearmed(p)]

(* A cleared timer goes when it is due, without a call.                     *)
Drop(i) ==
  /\ calling = NONE
  /\ Due(i)
  /\ pending[i].cleared
  /\ pending' = [pending EXCEPT ![i] = NONE]
  /\ UNCHANGED calling

Next ==
  \/ Tick
  \/ Return
  \/ \E i \in Ids : Clear(i) \/ Call(i) \/ Drop(i)
  \/ \E i \in Ids, ms \in Delays, times \in Times : Set(i, ms, times)

Init == pending = Start /\ calling = NONE

Spec == Init /\ [][Next]_vars
=============================================================================
