------------------------- MODULE MCIntervalScheduler -------------------------
(***************************************************************************)
(* An instance of IntervalScheduler for TLC: one callback with intervals   *)
(* that do and do not divide each other, and two callbacks of one interval *)
(* for a few units of time.                                                *)
(***************************************************************************)
EXTENDS IntervalScheduler

CONSTANTS Second, Short, SharedTime

\* The policy of a scheduler created without WithSchedulerBackoff, with an
\* initial delay of one unit.
DefaultPolicy == [initial |-> 0, multiplier |-> 0, max |-> 0]

\* Policies around each clamp: unset fields, an initial delay above the limit,
\* a multiplier of one, a maximum above and below the hour.
Policies == [initial : {0, 7, 90}, multiplier : {0, 1, 3}, max : {0, 40, 600, 5000}]

\* A retry waits, and never longer than any limit, whichever of them binds
\* and however many failures came before.
ASSUME DelaysWithinLimits ==
  \A policy \in Policies, interval \in {1, 30, 60, 300, 3600, 7200}, attempt \in 1..14 :
    LET delay == Delay(policy, interval, attempt)
    IN 0 < delay /\ \A limit \in Limits(policy, interval) : delay <= limit

\* While there is a second callback: one interval, one retry, and little
\* time.  The bound forbids only steps of callers and of the clock, and some
\* outcomes.
Shared(s) ==
  /\ s.interval = Short /\ s.maxWindow = Short /\ s.attempt <= 1
  /\ s.lastEnd >= StartTime - Short
  /\ s.pending # None => s.pending.interval = Short

SharedBound ==
  Second \in DOMAIN states =>
    /\ now <= SharedTime
    /\ \A id \in DOMAIN states : Shared(states[id])
    /\ \A id \in DOMAIN running : running[id].outcome = "retry" => states[id].attempt = 0

MCNext == Next /\ SharedBound'

MCSpec == Init /\ [][MCNext]_vars /\ Fairness

=============================================================================
