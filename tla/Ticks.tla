------------------------------- MODULE Ticks -------------------------------
(***************************************************************************)
(* The timers of src/src/ticks.c and the script functions on top of them   *)
(* (setTimeout, setInterval, clearTimeout, clearInterval of                *)
(* src/modules/libape-spidermonkey.c).                                     *)
(*                                                                         *)
(* Timers are kept in a list in which each one stores only the delay that  *)
(* separates it from the one before it.  process_tick() is called once per *)
(* elapsed millisecond; it runs the functions of the timers that are due   *)
(* while they are still in the list, and those functions set and clear     *)
(* timers.  So process_tick() is not one step here: each call of a timer's *)
(* function, what the function does, and its return are steps of their own.*)
(*                                                                         *)
(* A definition Name_Fault states a plausible slip in the code of Name; no *)
(* action uses it.                                                         *)
(***************************************************************************)
EXTENDS Integers, Sequences, FiniteSetsExt

CONSTANTS
  Delays,     \* the delays that scripts ask for
  Times,      \* how often a timer may be asked to run; 0 is for ever
  CoreDelay,  \* the period of check_timeout(), which main() installs
  MaxTimers,  \* bound on the number of timers ever set
  NONE

Ids    == 0 .. (MaxTimers - 1)
CoreId == 0

ASSUME DelayAssumption == Delays \subseteq Nat /\ CoreDelay \in Nat \ {0}
ASSUME TimesAssumption == Times \subseteq Nat
ASSUME BoundAssumption == MaxTimers \in Nat \ {0}

(* A timer as the contract sees it.                                        *)
Pending == [left : Int, need : Nat, times : Nat, cleared : BOOLEAN]

ASSUME NoneAssumption == NONE \notin Ids /\ NONE \notin Pending

VARIABLES
  timers,   \* g_ape->timers.timers
  ntimers,  \* g_ape->timers.ntimers
  phase,    \* "idle": outside process_tick(); "tick": at its loop condition;
            \* "call": in the function of the timer cur
  cur,      \* identifier of the timer being run, or NONE
  last      \* lastcall

vars == <<timers, ntimers, phase, cur, last>>

Timer == [id : Ids, ticks_need : Nat, delta : Int, times : Nat,
          protect : BOOLEAN, cleared : BOOLEAN]

TypeOK ==
  /\ timers \in Seq(Timer)
  /\ ntimers \in 0 .. MaxTimers
  /\ phase \in {"idle", "tick", "call"}
  /\ cur \in Ids \cup {NONE}
  /\ last \in BOOLEAN

CoreTimer == [id |-> CoreId, ticks_need |-> CoreDelay, delta |-> CoreDelay,
              times |-> 0, protect |-> TRUE, cleared |-> FALSE]

Init ==
  /\ timers = <<CoreTimer>>
  /\ ntimers = 1
  /\ phase = "idle"
  /\ cur = NONE
  /\ last = FALSE

-----------------------------------------------------------------------------
(* Until(l)[i] is the delay that remains to the i-th timer of the list.     *)
Until(l) ==
  LET s[i \in 0 .. Len(l)] == IF i = 0 THEN 0 ELSE s[i - 1] + l[i].delta
  IN  s

IndexOf(l, id) == CHOOSE i \in 1 .. Len(l) : l[i].id = id
After(l, id)   == SubSeq(l, IndexOf(l, id) + 1, Len(l))
InList(l, id)  == \E i \in 1 .. Len(l) : l[i].id = id

(* The loop of add_timeout(): t goes before the first timer that is not    *)
(* due earlier, which from then on counts from t.                           *)
Inserted_NextUnchanged(l, t) ==
  LET u == Until(l)
      k == Min({i \in 1 .. Len(l) : t.ticks_need <= u[i]} \cup {Len(l) + 1})
      d == t.ticks_need - u[k - 1]
  IN SubSeq(l, 1, k - 1) \o <<[t EXCEPT !.delta = d]>> \o SubSeq(l, k, Len(l))
Inserted(l, t) ==
  LET u == Until(l)
      k == Min({i \in 1 .. Len(l) : t.ticks_need <= u[i]} \cup {Len(l) + 1})
      d == t.ticks_need - u[k - 1]
  IN SubSeq(l, 1, k - 1) \o <<[t EXCEPT !.delta = d]>>
       \o [i \in 1 .. Len(l) - k + 1 |->
             IF i = 1 THEN [l[k] EXCEPT !.delta = @ - d] ELSE l[k + i - 1]]

(* Script code runs: in the function of a timer, or in a request.           *)
Scripting == phase \in {"idle", "call"}

(* add_timeout() (n = 1) and add_periodical(), from setTimeout and          *)
(* setInterval.                                                             *)
add_periodical(ms, n) ==
  /\ Scripting
  /\ ntimers < MaxTimers
  /\ timers' = Inserted(timers, [id |-> ntimers, ticks_need |-> ms, delta |-> ms,
                                 times |-> n, protect |-> FALSE, cleared |-> FALSE])
  /\ ntimers' = ntimers + 1
  /\ UNCHANGED <<phase, cur, last>>

(* clearTimeout, clearInterval: the timer stays in the list, marked; the   *)
(* timers of the server itself are protected.                               *)
Clearable_Any(t) == TRUE
Clearable(t) == ~t.protect

clear_timeout(id) ==
  /\ Scripting
  /\ InList(timers, id)
  /\ LET i == IndexOf(timers, id)
     IN /\ Clearable(timers[i])
        /\ timers' = [timers EXCEPT ![i].cleared = TRUE]
  /\ UNCHANGED <<ntimers, phase, cur, last>>

-----------------------------------------------------------------------------
(* process_tick().                                                         *)

StartTick ==
  /\ phase = "idle"
  /\ timers # << >>
  /\ timers' = [timers EXCEPT ![1].delta = @ - 1]
  /\ phase' = "tick"
  /\ UNCHANGED <<ntimers, cur, last>>

(* The loop condition: the delta++ at the end of the body and the --delta  *)
(* of the condition leave the delta of the next timer as it was.            *)
HeadDue == timers # << >> /\ timers[1].delta <= 0

EndTick ==
  /\ phase = "tick"
  /\ ~HeadDue
  /\ phase' = "idle"
  /\ UNCHANGED <<timers, ntimers, cur, last>>

(* times > 0 && --times: 0 stands for "for ever" and is left alone.          *)
Counted(n) == IF n > 0 THEN n - 1 ELSE n

(* The head is due and its function is called.                              *)
Call ==
  /\ phase = "tick"
  /\ HeadDue
  /\ ~timers[1].cleared
  /\ cur' = timers[1].id
  /\ last' = (timers[1].times = 1)
  /\ timers' = [timers EXCEPT ![1].times = Counted(@)]
  /\ phase' = "call"
  /\ UNCHANGED ntimers

(* The head is due but was cleared: ape_sm_timer_wrapper() does not call   *)
(* the script and makes this the last call.                                 *)
Discard ==
  /\ phase = "tick"
  /\ HeadDue
  /\ timers[1].cleared
  /\ timers' = Tail(timers)
  /\ UNCHANGED <<ntimers, phase, cur, last>>

(* The function has returned.  The list goes on behind cur, wherever cur   *)
(* now is, and cur is set again unless this was its last call.              *)
Return ==
  LET t    == timers[IndexOf(timers, cur)]
      rest == After(timers, cur)
  IN /\ phase = "call"
     /\ timers' = IF last \/ t.cleared THEN rest ELSE Inserted(rest, t)
     /\ phase' = "tick"
     /\ cur' = NONE
     /\ last' = FALSE
     /\ UNCHANGED ntimers

Next ==
  \/ StartTick \/ EndTick \/ Call \/ Discard \/ Return
  \/ \E ms \in Delays, n \in Times : add_periodical(ms, n)
  \/ \E id \in Ids : clear_timeout(id)

Spec == Init /\ [][Next]_vars

(* The main loop calls process_tick() for every millisecond that passes,   *)
(* and the functions it calls return.                                       *)
Fairness == WF_vars(StartTick) /\ WF_vars(EndTick) /\ WF_vars(Call)
              /\ WF_vars(Discard) /\ WF_vars(Return)

FairSpec == Spec /\ Fairness

-----------------------------------------------------------------------------
(* Properties.                                                             *)

(* The list, read as the contract sees it: times as they were before the   *)
(* present call.                                                            *)
PendingOf(id) ==
  IF ~InList(timers, id) THEN NONE
  ELSE LET i == IndexOf(timers, id)
           t == timers[i]
       IN  [left |-> Until(timers)[i], need |-> t.ticks_need,
            times |-> IF cur = id /\ (t.times > 0 \/ last) THEN t.times + 1 ELSE t.times,
            cleared |-> t.cleared]

StartOf(id) == IF id = CoreId THEN [left |-> CoreDelay, need |-> CoreDelay,
                                    times |-> 0, cleared |-> FALSE]
               ELSE NONE

C == INSTANCE TimerContract WITH pending <- [id \in Ids |-> PendingOf(id)],
                                 Start   <- [id \in Ids |-> StartOf(id)],
                                 calling <- cur

(* The delta list implements the contract of the timers: every step of     *)
(* ticks.c is a step of TimerContract or changes nothing it speaks of, so  *)
(* with delays of at least 1 each timer is called in exactly the tick that *)
(* was asked for, whatever the functions of other timers set and clear.    *)
MeetsContract == C!Spec

(* No script can stop the server's own timer: check_timeout() is called    *)
(* again and again (that is what flushes the queues and ends idle users).   *)
CoreTimerRuns == []<>(cur = CoreId)

=============================================================================
