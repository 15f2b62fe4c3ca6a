-------------------------- MODULE IntervalScheduler --------------------------
(***************************************************************************)
(* The collection scheduler of internal/collection/intervals.go.           *)
(*                                                                         *)
(* One goroutine (run) owns a map of callback states.  Each turn of its    *)
(* loop first dispatches every due callback, each in a goroutine of its    *)
(* own, re-arms one timer, and then waits for a request (add, remove,      *)
(* stop), for the completion of a callback, or for the timer.  All         *)
(* channels but a timer's are unbuffered, so a request or a completion is  *)
(* one step of the loop together with its sender.                          *)
(*                                                                         *)
(* Times are integers.  The clock moves by one between any two steps.      *)
(***************************************************************************)
EXTENDS Integers, FiniteSets, ExponentialBackoff

CONSTANTS
  Ids,          \* callback ids (service ids in the program)
  Intervals,    \* the intervals a caller may ask for
  LastEnds,     \* the values of the option WithLastEnd
  MaxAttempt,   \* retries counted apart: the delay is constant from there on
  Backoff,      \* the policy of the option WithSchedulerBackoff
  StartTime,    \* the clock when the scheduler is created
  MaxTime,      \* bound on the clock
  None          \* no pending update, no timer, no request

Update == [interval : Intervals, maxWindow : Intervals]

ASSUME IntervalsAssumption == Intervals \subseteq Nat \ {0}
ASSUME LastEndsAssumption  == LastEnds \subseteq Int
ASSUME AttemptAssumption   == MaxAttempt \in Nat \ {0}
ASSUME BackoffAssumption   == Backoff \in BackoffPolicies
ASSUME TimeAssumption      == StartTime \in Nat /\ MaxTime \in Nat
ASSUME NoneAssumption      == None \notin Int /\ None \notin Update

VARIABLES
  now,      \* the clock
  states,   \* the loop's map from id to callback state
  running,  \* the callback goroutines that have not handed in their result
  phase,    \* where the loop is: "pass" (head), "select" or "exited"
  timer,    \* when the armed timer fires, or None
  stop,     \* "open", "stopping" (stopReq set) or "stopped" (done closed)
  asked     \* history: the interval last asked for, None after a removal

vars == <<now, states, running, phase, timer, stop, asked>>

----------------------------------------------------------------------------
(* Windows. *)

Maximum(a, b) == IF a >= b THEN a ELSE b

\* t.Truncate(d): times count from the zero time, a multiple of every interval.
Truncate(t, d) == t - (t % d)

NextBoundary(t, d) ==
  IF Truncate(t, d) = t THEN t ELSE Truncate(t, d) + d

WindowEnd(start, interval, maxWindow) ==
  IF start = NextBoundary(start, interval)
    THEN start + interval
    ELSE Minimum(start + maxWindow, NextBoundary(start, interval))

\* time.Time{}, which is before every clock value.
ZeroTime == 0

PlanNextWindow(s) ==
  [s EXCEPT !.nextStart   = s.lastEnd,
            !.nextEnd     = WindowEnd(s.lastEnd, s.interval, s.maxWindow),
            !.nextAttempt = ZeroTime]

ApplyUpdate(s, u) ==
  PlanNextWindow([s EXCEPT !.interval  = u.interval,
                           !.maxWindow = u.maxWindow,
                           !.pending   = None,
                           !.disabled  = FALSE,
                           !.attempt   = 0])

----------------------------------------------------------------------------
(* State. *)

CallbackState ==
  [interval : Intervals, maxWindow : Intervals, lastEnd : Int,
   nextStart : Int, nextEnd : Int, nextAttempt : Nat, attempt : 0..MaxAttempt,
   inFlight : BOOLEAN, disabled : BOOLEAN, removeAfter : BOOLEAN,
   pending : Update \cup {None}]

\* What a callback goroutine will hand in; "pending" while fn still runs.
Outcomes == {"success", "retry", "permanent"}

Invocation ==
  [start : Int, end : Int, cancelled : BOOLEAN, outcome : Outcomes \cup {"pending"}]

\* A callback state with no window planned yet.
NewState(interval, lastEnd) ==
  PlanNextWindow(
    [interval |-> interval, maxWindow |-> interval, lastEnd |-> lastEnd,
     nextStart |-> lastEnd, nextEnd |-> lastEnd, nextAttempt |-> ZeroTime,
     attempt |-> 0, inFlight |-> FALSE, disabled |-> FALSE,
     removeAfter |-> FALSE, pending |-> None])

\* Go map operations.
Put(map, id, value) ==
  [i \in DOMAIN map \cup {id} |-> IF i = id THEN value ELSE map[i]]

Delete(map, id) == [i \in DOMAIN map \ {id} |-> map[i]]

Init ==
  /\ now = StartTime
  /\ states = [i \in {} |-> None]
  /\ running = [i \in {} |-> None]
  /\ phase = "pass"
  /\ timer = None
  /\ stop = "open"
  /\ asked = [id \in Ids |-> None]

----------------------------------------------------------------------------
(* The head of the loop. *)

ReadyAt(s) == Maximum(s.nextEnd, s.nextAttempt)

Waiting(ss) == {id \in DOMAIN ss : ~ss[id].disabled /\ ~ss[id].inFlight}

\* Mutant: wait for the last callback to become ready instead of the first.
NextReadyAtLatest(ss) ==
  IF Waiting(ss) = {}
    THEN None
    ELSE CHOOSE t \in {ReadyAt(ss[id]) : id \in Waiting(ss)} :
           \A id \in Waiting(ss) : t >= ReadyAt(ss[id])

\* Mutant: the timer is armed for windows to come and not for retries.
NextReadyAtBoundaries(ss) ==
  LET fresh == {id \in Waiting(ss) : ss[id].attempt = 0} IN
  IF fresh = {}
    THEN None
    ELSE CHOOSE t \in {ReadyAt(ss[id]) : id \in fresh} :
           \A id \in fresh : t <= ReadyAt(ss[id])

NextReadyAt(ss) ==
  IF Waiting(ss) = {}
    THEN None
    ELSE CHOOSE t \in {ReadyAt(ss[id]) : id \in Waiting(ss)} :
           \A id \in Waiting(ss) : t <= ReadyAt(ss[id])

\* Mutant: a retry that is ready hides that the window has not ended yet.
DueEarly == {id \in Waiting(states) : states[id].nextAttempt <= now}

Due == {id \in Waiting(states) : states[id].nextAttempt <= now /\ states[id].nextEnd <= now}

Dispatch(s) ==
  [start |-> s.nextStart, end |-> s.nextEnd, cancelled |-> FALSE, outcome |-> "pending"]

\* One turn of the loop before the select: dispatch everything due, re-arm.
DispatchDue ==
  /\ phase = "pass" /\ stop = "open"
  /\ states' = [id \in DOMAIN states |->
                  IF id \in Due THEN [states[id] EXCEPT !.inFlight = TRUE]
                                ELSE states[id]]
  /\ running' = [id \in DOMAIN running \cup Due |->
                  IF id \in Due THEN Dispatch(states[id]) ELSE running[id]]
  /\ timer' = NextReadyAt(states')
  /\ phase' = "select"
  /\ UNCHANGED <<now, stop, asked>>

NoInFlight == \A id \in DOMAIN states : ~states[id].inFlight

\* Once stopping, the loop only waits for what is in flight, then closes done.
Drain ==
  /\ phase = "pass" /\ stop = "stopping"
  /\ IF NoInFlight
       THEN stop' = "stopped" /\ phase' = "exited" /\ timer' = None
       ELSE phase' = "select" /\ UNCHANGED <<stop, timer>>
  /\ UNCHANGED <<now, states, running, asked>>

----------------------------------------------------------------------------
(* Requests. *)

\* WithLastEnd(t), or the cold start: the window that ends at the boundary.
InitialLastEnd(interval, lastEnd) ==
  IF lastEnd = None THEN NextBoundary(now, interval) - interval ELSE lastEnd

AddNew(id, interval, lastEnd) ==
  /\ id \notin DOMAIN states
  /\ states' = Put(states, id, NewState(interval, InitialLastEnd(interval, lastEnd)))

\* Mutants: the cap of the transition window is the old interval, or the sum.
UpdateKeepingCap(s, interval) == [interval |-> interval, maxWindow |-> s.interval]

UpdateAddingCaps(s, interval) ==
  [interval |-> interval, maxWindow |-> s.interval + interval]

UpdateFor(s, interval) ==
  [interval |-> interval, maxWindow |-> Maximum(s.interval, interval)]

AddIdle(id, interval) ==
  /\ id \in DOMAIN states /\ ~states[id].inFlight
  /\ states' = [states EXCEPT ![id] = ApplyUpdate(@, UpdateFor(@, interval))]

\* Mutant: the first of several updates wins.
AddInFlightOnce(id, interval) ==
  /\ id \in DOMAIN states /\ states[id].inFlight
  /\ states' = [states EXCEPT ![id].pending =
                  IF @ = None THEN UpdateFor(states[id], interval) ELSE @]

AddInFlight(id, interval) ==
  /\ id \in DOMAIN states /\ states[id].inFlight
  /\ states' = [states EXCEPT ![id].pending = UpdateFor(states[id], interval)]

AddCallback(id, interval, lastEnd) ==
  /\ phase = "select" /\ stop = "open"
  /\ \/ AddNew(id, interval, lastEnd)
     \/ AddIdle(id, interval)
     \/ AddInFlight(id, interval)
  /\ asked' = [asked EXCEPT ![id] = interval]
  /\ timer' = NextReadyAt(states')
  /\ phase' = "pass"
  /\ UNCHANGED <<now, running, stop>>

\* ErrSchedulerStopped: the loop goes on without re-arming the timer.
AddRejected ==
  /\ phase = "select" /\ stop = "stopping"
  /\ phase' = "pass"
  /\ UNCHANGED <<now, states, running, timer, stop, asked>>

\* Cancel the contexts of the goroutines of a set of ids.
Cancel(ids) ==
  [i \in DOMAIN running |->
     IF i \in ids THEN [running[i] EXCEPT !.cancelled = TRUE] ELSE running[i]]

\* Mutant: a removal forgets the state of a callback in flight at once.
RemovedAtOnce(id) == Delete(states, id)

AfterRemoval(id) ==
  IF states[id].inFlight
    THEN [states EXCEPT ![id].removeAfter = TRUE]
    ELSE Delete(states, id)

\* An unknown id changes nothing but still wakes the loop.
RemoveCallback(id) ==
  /\ phase = "select"
  /\ states' = IF id \in DOMAIN states THEN AfterRemoval(id) ELSE states
  /\ running' = Cancel({id} \cap DOMAIN states)
  /\ asked' = [asked EXCEPT ![id] = None]
  /\ timer' = NextReadyAt(states')
  /\ phase' = "pass"
  /\ UNCHANGED <<now, stop>>

\* Mutant: Stop waits for the callbacks in flight but does not cancel them.
NoneCancelled == {}

\* The callbacks with a cancel function.
CancelledByStop == {id \in DOMAIN states : states[id].inFlight}

\* stopOnce lets one request through; every callback in flight is cancelled.
Stop ==
  /\ phase = "select" /\ stop = "open"
  /\ stop' = "stopping"
  /\ running' = Cancel(CancelledByStop)
  /\ phase' = "pass"
  /\ UNCHANGED <<now, states, timer, asked>>

----------------------------------------------------------------------------
(* Callbacks and their completions. *)

\* fn returns (a panic counts as a retry); a cancelled context overrides it.
Return(id, outcome) ==
  /\ id \in DOMAIN running /\ running[id].outcome = "pending"
  /\ running' = [running EXCEPT ![id].outcome =
                   IF running[id].cancelled THEN "permanent" ELSE outcome]
  /\ UNCHANGED <<now, states, phase, timer, stop, asked>>

\* Mutant: plan the next window before lastEnd advances.
SucceededPlannedFirst(s, end) ==
  [(IF s.pending # None THEN ApplyUpdate(s, s.pending) ELSE PlanNextWindow(s))
     EXCEPT !.lastEnd = end, !.attempt = 0]

\* Mutant: a success leaves the count of the failures before it.
SucceededKeepingCount(s, end) ==
  LET t == [s EXCEPT !.lastEnd = end]
  IN IF s.pending # None THEN ApplyUpdate(t, s.pending) ELSE PlanNextWindow(t)

Succeeded(s, end) ==
  LET t == [s EXCEPT !.lastEnd = end, !.attempt = 0]
  IN IF s.pending # None THEN ApplyUpdate(t, s.pending) ELSE PlanNextWindow(t)

NextAttempt(s) == Minimum(s.attempt + 1, MaxAttempt)

Retried(s, run) ==
  [s EXCEPT !.attempt     = NextAttempt(s),
            !.nextStart   = run.start,
            !.nextEnd     = run.end,
            !.nextAttempt = now + Delay(Backoff, s.interval, NextAttempt(s))]

\* The state of a callback after the result of its invocation.
Completed(s, run) ==
  CASE run.outcome = "success"                      -> Succeeded(s, run.end)
    [] run.outcome # "success" /\ s.pending # None  -> ApplyUpdate(s, s.pending)
    [] run.outcome = "retry" /\ s.pending = None    -> Retried(s, run)
    [] OTHER                                        -> [s EXCEPT !.disabled = TRUE]

\* Mutant: completions are handled alike whether or not a removal waits.
AfterCompletionKeeping(id) ==
  IF id \notin DOMAIN states THEN states
  ELSE [states EXCEPT ![id] = Completed([@ EXCEPT !.inFlight = FALSE], running[id])]

\* The states once the result of id is in; one of an unknown id is dropped.
AfterCompletion(id) ==
  IF id \notin DOMAIN states THEN states
  ELSE IF states[id].removeAfter THEN Delete(states, id)
  ELSE [states EXCEPT ![id] = Completed([@ EXCEPT !.inFlight = FALSE], running[id])]

\* Mutant: the loop takes no completion once it is stopping.
HandsInWhileOpen(id) ==
  stop = "open" /\ id \in DOMAIN running /\ running[id].outcome # "pending"

\* The goroutine of id is blocked on the completions channel.
HandsIn(id) == id \in DOMAIN running /\ running[id].outcome # "pending"

HandleCompletion(id) ==
  /\ phase = "select" /\ HandsIn(id)
  /\ running' = Delete(running, id)
  /\ states' = AfterCompletion(id)
  /\ timer' = NextReadyAt(states')
  /\ phase' = "pass"
  /\ UNCHANGED <<now, stop, asked>>

TimerFires ==
  /\ phase = "select" /\ timer # None /\ timer <= now
  /\ timer' = None
  /\ phase' = "pass"
  /\ UNCHANGED <<now, states, running, stop, asked>>

Tick ==
  /\ now < MaxTime
  /\ now' = now + 1
  /\ UNCHANGED <<states, running, phase, timer, stop, asked>>

----------------------------------------------------------------------------

Next ==
  \/ DispatchDue
  \/ Drain
  \/ \E id \in Ids, interval \in Intervals, lastEnd \in LastEnds \cup {None} :
       AddCallback(id, interval, lastEnd)
  \/ AddRejected
  \/ \E id \in Ids : RemoveCallback(id)
  \/ Stop
  \/ \E id \in Ids, outcome \in Outcomes : Return(id, outcome)
  \/ \E id \in Ids : HandleCompletion(id)
  \/ TimerFires
  \/ Tick

Spec == Init /\ [][Next]_vars

\* The context of an invocation is context.WithCancel(context.Background())
\* (dispatchCallback) and the Prometheus client has no timeout, so only one
\* that is cancelled must return: a removal or Stop ends its queries.
CancelledReturns(id) ==
  /\ id \in DOMAIN running /\ running[id].cancelled
  /\ \E outcome \in Outcomes : Return(id, outcome)

\* The loop's goroutine runs, and select picks at random among its ready
\* cases, so a completion that stays ready is taken however many requests
\* arrive meanwhile.
Fairness ==
  /\ WF_vars(DispatchDue \/ Drain)
  /\ WF_vars(TimerFires)
  /\ \A id \in Ids : WF_vars(CancelledReturns(id))
  /\ \A id \in Ids : SF_vars(HandleCompletion(id))

FairSpec == Spec /\ Fairness

----------------------------------------------------------------------------
(* Properties. *)

TypeOK ==
  /\ now \in Nat
  /\ DOMAIN states \subseteq Ids /\ states \in [DOMAIN states -> CallbackState]
  /\ DOMAIN running \subseteq Ids /\ running \in [DOMAIN running -> Invocation]
  /\ phase \in {"pass", "select", "exited"}
  /\ timer \in Nat \cup {None}
  /\ stop \in {"open", "stopping", "stopped"}
  /\ asked \in [Ids -> Intervals \cup {None}]

\* A callback is in flight exactly while a goroutine of it exists: the flag
\* the loop keeps, set at dispatch and cleared at completion, never loses a
\* goroutine or waits for one that is gone, whatever is added, removed or
\* stopped meanwhile.
InFlightMatchesGoroutines ==
  DOMAIN running = {id \in DOMAIN states : states[id].inFlight}

\* The window a goroutine works on starts where the last successful one ended,
\* is over, and is the one its state planned: no gap, no overlap, no samples
\* of the future, across updates, retries and removals in flight.
WindowsContiguous ==
  /\ \A id \in DOMAIN states :
       /\ states[id].nextStart = states[id].lastEnd
       /\ states[id].nextStart < states[id].nextEnd
  /\ \A id \in DOMAIN running :
       /\ id \in DOMAIN states
       /\ running[id].start = states[id].lastEnd
       /\ running[id].end = states[id].nextEnd
       /\ running[id].end <= now

\* Every planned window ends on a boundary of the active interval and is no
\* longer than it: an interval change realigns in one window, and the cap
\* max(old, new) of planNextWindow never cuts a window short.
WindowsRealign ==
  \A id \in DOMAIN states :
    LET s == states[id] IN
      /\ Truncate(s.nextEnd, s.interval) = s.nextEnd
      /\ s.nextEnd - s.nextStart <= s.interval

\* In select, unless stopping, the timer is armed for the earliest moment a
\* waiting callback becomes ready: no callback can be forgotten by the loop.
TimerCoversEarliest ==
  phase = "select" /\ stop = "open" => 
    /\ timer = None => Waiting(states) = {}
    /\ \A id \in Waiting(states) : timer # None => timer <= ReadyAt(states[id])

\* A callback whose last request was a removal never starts again: it is
\* gone, or its goroutine is cancelled and it goes when that returns.
RemovedStaysRemoved ==
  \A id \in DOMAIN states :
    asked[id] = None =>
      /\ states[id].inFlight /\ states[id].removeAfter
      /\ id \in DOMAIN running /\ running[id].cancelled

\* The latest of several updates wins: it is the interval in force, or it is
\* pending behind the invocation in flight.
LatestUpdateWins ==
  \A id \in DOMAIN states :
    LET s == states[id] IN
      asked[id] # None =>
        \/ s.pending = None /\ s.interval = asked[id]
        \/ s.inFlight /\ s.pending # None /\ s.pending.interval = asked[id]
  
\* From Stop on every goroutine left has been told to give up, and when done
\* is closed none is left: nothing writes after Stop returned.
StopLeavesNothingRunning ==
  /\ stop # "open" => \A id \in DOMAIN running : running[id].cancelled
  /\ stop = "stopped" => DOMAIN running = {}

\* interval_scheduler_spec.md: an AddCallback that arrives while the callback
\* is in flight is recorded and applied after the invocation returns.  So an
\* accepted callback stays registered until it is removed.
AcceptedAddIsKept ==
  \A id \in Ids : asked[id] # None => id \in DOMAIN states

\* What bounds every delay, written apart from MaxDelay: the interval, one
\* hour, and the limit of the policy if it has one.
Limits(policy, interval) == {interval, 3600} \cup ({policy.max} \ {0})

\* Reference for the delays: repeated multiplication up to the least limit.
Multiplied(interval) ==
  LET limit == CHOOSE l \in Limits(Backoff, interval) :
                 \A other \in Limits(Backoff, interval) : l <= other
      d[a \in 1..MaxAttempt] ==
        Minimum(IF a = 1 THEN OrDefault(Backoff.initial, 1)
                         ELSE OrDefault(Backoff.multiplier, 2) * d[a - 1], limit)
  IN d

\* A step that takes the completion of id, and what it says of the window:
\* tried again later, or not to be tried again.
HandedIn(id) == id \in DOMAIN running \ DOMAIN running'

FailsAgain(id) == 
  HandedIn(id) /\ running[id].outcome = "retry" /\ states[id].pending = None

StartsAfresh(id) ==
  HandedIn(id) /\ (running[id].outcome = "success" \/ states[id].pending # None)

\* A window that fails again and again is retried after delays that multiply
\* from one failure to the next up to the least limit, and not before they
\* are over (handleCompletion with Delay).  The count behind them grows by one
\* with a failure; it is back at zero, and the delay with it, after a success
\* and after an update that waited for the invocation; nothing else moves
\* either, but an update of a callback that is not in flight.
RetriesBackOff ==
  [][\A id \in DOMAIN states \cap DOMAIN states' :
       LET old == states[id]
           new == states'[id]
       IN /\ FailsAgain(id) =>
               /\ new.attempt = Minimum(old.attempt + 1, MaxAttempt)
               /\ new.nextAttempt = now + Multiplied(new.interval)[new.attempt]
          /\ StartsAfresh(id) => new.attempt = 0 /\ new.nextAttempt = ZeroTime
          /\ ~FailsAgain(id) /\ ~StartsAfresh(id) =>
               \/ new.attempt = old.attempt /\ new.nextAttempt = old.nextAttempt
               \/ new.attempt = 0 /\ new.nextAttempt = ZeroTime /\ ~old.inFlight
          /\ new.inFlight /\ ~old.inFlight => old.nextAttempt <= now]_vars

\* A callback that is due is dispatched, removed or replanned, without any
\* further request: the timer or the present turn of the loop sees to it.
DueIsDispatched ==
  \A id \in Ids : (id \in Due /\ stop = "open") ~> (id \notin Due \/ stop # "open")

\* An invocation that was cancelled or has returned is handed in, whatever
\* requests keep the loop busy, and a Stop ends: the loop takes every
\* completion, also while it drains.  (An invocation nobody cancels may wait
\* for Prometheus for ever.)
InvocationsAreHandedIn ==
  /\ \A id \in Ids :
       (id \in DOMAIN running /\ (running[id].cancelled \/ HandsIn(id)))
         ~> id \notin DOMAIN running
  /\ stop = "stopping" ~> stop = "stopped"

----------------------------------------------------------------------------
(* Refinement. *)

\* The promise of the scheduler: the cursor is lastEnd, the attempt is the
\* goroutine with the result it is about to hand in.
Windows == INSTANCE ContiguousWindows WITH
  clock   <- now,
  cursor  <- [id \in DOMAIN states |-> states[id].lastEnd],
  attempt <- [id \in DOMAIN running |->
                [end |-> running[id].end, outcome |-> running[id].outcome]],
  open    <- stop = "open"

\* interval_scheduler_spec.md, Goals and Concurrency: every behaviour of the
\* loop is one of contiguous, ordered, never overlapping windows per callback.
ImplementsContiguousWindows == Windows!AbsSpec

=============================================================================
