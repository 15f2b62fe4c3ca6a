--------------------- MODULE IntervalSchedulerRefinement ---------------------
(* More about the windows of IntervalScheduler: each ends on a boundary of   *)
(* the active interval, and the loop implements ContiguousWindows.           *)
EXTENDS IntervalSchedulerProofs

----------------------------------------------------------------------------
(* Boundaries. *)

OnBoundary(t, d) == Truncate(t, d) = t

LEMMA TruncateIsOnBoundary ==
  ASSUME NEW t \in Int, NEW d \in Nat \ {0}
  PROVE  Truncate(t, d) \in Int /\ OnBoundary(Truncate(t, d), d)
<1> DEFINE u == t - (t % d)
<1>1. u % d = 0
  BY SMTT(30)
<1>2. u \in Int
  <2>1. t % d \in 0..(d-1)
    OBVIOUS
  <2>2. QED
    BY <2>1
<1>3. Truncate(t, d) = u
  BY DEF Truncate
<1> HIDE DEF u
<1>4. QED
  BY <1>1, <1>2, <1>3 DEF OnBoundary, Truncate

LEMMA BoundariesAreEven ==
  ASSUME NEW t \in Int, NEW d \in Nat \ {0}, OnBoundary(t, d)
  PROVE  OnBoundary(t + d, d)
<1>1. t % d = 0
  <2>1. t % d \in Int /\ t - (t % d) = t
    BY DEF OnBoundary, Truncate
  <2>2. QED
    BY <2>1
<1>2. PICK q \in Int : t = d * q
  BY <1>1, SMTT(30)
<1>3. (d * q + d) % d = 0
  BY SMTT(30)
<1>4. QED
  BY <1>2, <1>3 DEF OnBoundary, Truncate

\* planNextWindow ends on a boundary unless its cap is below the interval.
LEMMA WindowEndIsOnBoundary ==
  ASSUME NEW start \in Int, NEW interval \in Nat \ {0}, NEW maxWindow \in Nat \ {0},
         interval <= maxWindow
  PROVE  OnBoundary(WindowEnd(start, interval, maxWindow), interval)
<1> DEFINE b == NextBoundary(start, interval)
<1>1. b \in Int /\ start <= b /\ b < start + interval
  BY NextBoundaryBounds
<1>2. OnBoundary(b, interval)
  BY TruncateIsOnBoundary, BoundariesAreEven DEF NextBoundary, OnBoundary
<1>3. CASE start = b
  <2>1. OnBoundary(start + interval, interval)
    BY <1>2, <1>3, BoundariesAreEven
  <2>2. QED
    BY <1>3, <2>1 DEF WindowEnd
<1>4. CASE start # b
  <2>1. WindowEnd(start, interval, maxWindow) = Minimum(start + maxWindow, b)
    BY <1>4 DEF WindowEnd
  <2> HIDE DEF b
  <2>2. Minimum(start + maxWindow, b) = b
    BY <1>1 DEF Minimum
  <2>3. QED
    BY <1>2, <2>1, <2>2
<1>5. QED
  BY <1>3, <1>4

----------------------------------------------------------------------------
(* Callback states. *)

\* No cap is below its interval.
Capped(s) ==
  /\ s.interval <= s.maxWindow
  /\ s.pending # None => s.pending.interval <= s.pending.maxWindow

\* What WindowsRealign says of one callback.
Realigned(s) == OnBoundary(s.nextEnd, s.interval) /\ s.nextEnd - s.nextStart <= s.interval

LEMMA PlanNextWindowRealigns ==
  ASSUME NEW s \in CallbackState, Capped(s)
  PROVE  Realigned(PlanNextWindow(s)) /\ Capped(PlanNextWindow(s))
<1> DEFINE e == WindowEnd(s.lastEnd, s.interval, s.maxWindow)
<1>1. /\ s.lastEnd \in Int /\ s.interval \in Nat \ {0} /\ s.maxWindow \in Nat \ {0}
      /\ s.interval <= s.maxWindow
  BY IntervalsAssumption DEF CallbackState, Capped
<1>2. e \in Int /\ e <= s.lastEnd + s.interval /\ OnBoundary(e, s.interval)
  BY <1>1, WindowEndBounds, WindowEndIsOnBoundary
<1> DEFINE t == PlanNextWindow(s)
<1>3. t = [s EXCEPT !.nextStart = s.lastEnd, !.nextEnd = e, !.nextAttempt = 0]
  BY DEF PlanNextWindow, ZeroTime
<1> HIDE DEF e
<1>4. /\ t.nextStart = s.lastEnd /\ t.nextEnd = e /\ t.interval = s.interval
      /\ t.maxWindow = s.maxWindow /\ t.pending = s.pending
  BY <1>3 DEF CallbackState
<1> HIDE DEF t
<1>5. Realigned(t)
  BY <1>1, <1>2, <1>4 DEF Realigned
<1>6. Capped(t)
  BY <1>4 DEF Capped
<1>7. QED
  BY <1>5, <1>6 DEF t

LEMMA ApplyUpdateRealigns ==
  ASSUME NEW s \in CallbackState, NEW u \in Update, u.interval <= u.maxWindow
  PROVE  Realigned(ApplyUpdate(s, u)) /\ Capped(ApplyUpdate(s, u))
<1> DEFINE r == [s EXCEPT !.interval = u.interval, !.maxWindow = u.maxWindow,
                          !.pending = None, !.disabled = FALSE, !.attempt = 0]
<1>1. u.interval \in Intervals /\ u.maxWindow \in Intervals /\ 0 \in 0..MaxAttempt
  BY AttemptAssumption DEF Update
<1>2. r \in CallbackState
  BY <1>1 DEF CallbackState
<1>3. r.interval = u.interval /\ r.maxWindow = u.maxWindow /\ r.pending = None
  BY DEF CallbackState
<1>4. ApplyUpdate(s, u) = PlanNextWindow(r)
  BY DEF ApplyUpdate
<1> HIDE DEF r
<1>5. QED
  BY <1>2, <1>3, <1>4, PlanNextWindowRealigns DEF Capped

LEMMA NewStateRealigns ==
  ASSUME NEW interval \in Intervals, NEW lastEnd \in Int
  PROVE  Realigned(NewState(interval, lastEnd)) /\ Capped(NewState(interval, lastEnd))
<1> DEFINE r == [interval |-> interval, maxWindow |-> interval, lastEnd |-> lastEnd,
                 nextStart |-> lastEnd, nextEnd |-> lastEnd, nextAttempt |-> 0,
                 attempt |-> 0, inFlight |-> FALSE, disabled |-> FALSE,
                 removeAfter |-> FALSE, pending |-> None]
<1>1. r \in CallbackState
  BY AttemptAssumption DEF CallbackState
<1>2. Capped(r)
  BY IntervalsAssumption DEF Capped
<1>3. NewState(interval, lastEnd) = PlanNextWindow(r)
  BY DEF NewState, ZeroTime
<1>4. QED
  BY <1>1, <1>2, <1>3, PlanNextWindowRealigns

\* A retry keeps the window, so it needs one that is realigned.
LEMMA CompletedRealigns ==
  ASSUME NEW s \in CallbackState, NEW run \in Invocation,
         run.start = s.nextStart, run.end = s.nextEnd, Realigned(s), Capped(s)
  PROVE  Realigned(Completed(s, run)) /\ Capped(Completed(s, run))
<1>1. s.pending # None => s.pending \in Update /\ s.pending.interval <= s.pending.maxWindow
  BY DEF CallbackState, Capped
<1>2. CASE run.outcome = "success"
  <2> DEFINE r == [s EXCEPT !.lastEnd = run.end, !.attempt = 0]
  <2>1. run.end \in Int /\ 0 \in 0..MaxAttempt
    BY AttemptAssumption DEF Invocation
  <2>2. r \in CallbackState
    BY <2>1 DEF CallbackState
  <2>3. r.interval = s.interval /\ r.maxWindow = s.maxWindow /\ r.pending = s.pending
    BY DEF CallbackState
  <2>4. Completed(s, run) =
          IF s.pending # None THEN ApplyUpdate(r, s.pending) ELSE PlanNextWindow(r)
    BY <1>2 DEF Completed, Succeeded
  <2> HIDE DEF r
  <2>5. Capped(r)
    BY <2>3 DEF Capped
  <2>6. QED
    BY <1>1, <2>2, <2>4, <2>5, ApplyUpdateRealigns, PlanNextWindowRealigns
<1>3. CASE run.outcome # "success" /\ s.pending # None
  <2>1. Completed(s, run) = ApplyUpdate(s, s.pending)
    BY <1>3 DEF Completed
  <2>2. QED
    BY <1>1, <1>3, <2>1, ApplyUpdateRealigns
<1>4. CASE run.outcome # "success" /\ s.pending = None
  <2> DEFINE t == Completed(s, run)
  <2>1. /\ t.nextStart = s.nextStart /\ t.nextEnd = s.nextEnd /\ t.interval = s.interval
        /\ t.maxWindow = s.maxWindow /\ t.pending = s.pending
    <3>1. CASE run.outcome = "retry"
      <4>1. t = Retried(s, run)
        BY <1>4, <3>1 DEF Completed
      <4> HIDE DEF t
      <4>2. QED
        BY <4>1 DEF Retried, CallbackState
    <3>2. CASE run.outcome # "retry"
      <4>1. t = [s EXCEPT !.disabled = TRUE]
        BY <1>4, <3>2 DEF Completed
      <4> HIDE DEF t
      <4>2. QED
        BY <4>1 DEF CallbackState
    <3>3. QED
      BY <3>1, <3>2
  <2> HIDE DEF t
  <2>2. Realigned(t) /\ Capped(t)
    BY <2>1 DEF Realigned, Capped
  <2>3. QED
    BY <2>2 DEF t
<1>5. QED
  BY <1>2, <1>3, <1>4

----------------------------------------------------------------------------

\* The windows of every callback are realigned, which needs their caps.
RealignInv == \A id \in DOMAIN states : Realigned(states[id]) /\ Capped(states[id])

\* AddCallback plans a realigned window, or leaves the one in flight.
LEMMA AddCallbackRealigns ==
  ASSUME SchedulerInv, RealignInv, NEW id \in Ids, NEW interval \in Intervals,
         NEW lastEnd \in LastEnds \cup {None}, AddCallback(id, interval, lastEnd)
  PROVE  Realigned(states'[id]) /\ Capped(states'[id])
<1>1. CASE AddNew(id, interval, lastEnd)
  <2> DEFINE le == InitialLastEnd(interval, lastEnd)
  <2>1. le \in Int
    <3>1. now \in Int /\ interval \in Nat \ {0}
      BY IntervalsAssumption DEF SchedulerInv, TypeOK
    <3>2. NextBoundary(now, interval) \in Int
      BY <3>1, NextBoundaryBounds
    <3>3. QED
      BY <3>1, <3>2, LastEndsAssumption DEF InitialLastEnd
  <2>2. states'[id] = NewState(interval, le)
    BY <1>1 DEF AddNew, Put
  <2> HIDE DEF le
  <2>3. QED
    BY <2>1, <2>2, NewStateRealigns
<1>2. ASSUME id \in DOMAIN states
      PROVE  LET u == UpdateFor(states[id], interval) IN
               /\ states[id] \in CallbackState
               /\ u \in Update /\ u # None /\ u.interval <= u.maxWindow
  BY <1>2, StateFacts, NoneAssumption, IntervalsAssumption
     DEF CallbackState, UpdateFor, Update, Maximum
<1>3. CASE AddIdle(id, interval)
  <2>1. id \in DOMAIN states
        /\ states'[id] = ApplyUpdate(states[id], UpdateFor(states[id], interval))
    BY <1>3 DEF AddIdle, SchedulerInv, TypeOK
  <2>2. QED
    BY <1>2, <2>1, ApplyUpdateRealigns
<1>4. CASE AddInFlight(id, interval)
  <2> DEFINE u == UpdateFor(states[id], interval)
  <2>1. id \in DOMAIN states /\ states'[id] = [states[id] EXCEPT !.pending = u]
    BY <1>4 DEF AddInFlight, SchedulerInv, TypeOK
  <2>2. /\ states[id] \in CallbackState /\ u \in Update /\ u # None
        /\ u.interval <= u.maxWindow
    BY <1>2, <2>1
  <2>3. Realigned(states[id]) /\ Capped(states[id])
    BY <2>1 DEF RealignInv
  <2> HIDE DEF u
  <2>4. /\ states'[id].nextStart = states[id].nextStart
        /\ states'[id].nextEnd = states[id].nextEnd
        /\ states'[id].interval = states[id].interval
        /\ states'[id].maxWindow = states[id].maxWindow
        /\ states'[id].pending = u
    BY <2>1, <2>2 DEF CallbackState
  <2>5. QED
    BY <2>2, <2>3, <2>4 DEF Realigned, Capped
<1>5. QED
  BY <1>1, <1>3, <1>4 DEF AddCallback

\* handleCompletion, of a callback that stays.
LEMMA HandleCompletionRealigns ==
  ASSUME SchedulerInv, RealignInv, NEW id \in Ids, HandleCompletion(id),
         id \in DOMAIN states'
  PROVE  Realigned(states'[id]) /\ Capped(states'[id])
<1>1. /\ id \in DOMAIN states /\ id \in DOMAIN running
      /\ states' = AfterCompletion(id)
      /\ states = [j \in DOMAIN states |-> states[j]]
      /\ running[id] \in Invocation
  BY DEF HandleCompletion, HandsIn, SchedulerInv, TypeOK, InFlightMatchesGoroutines
<1>2. ~states[id].removeAfter
  BY <1>1 DEF AfterCompletion, Delete
<1> DEFINE r == [states[id] EXCEPT !.inFlight = FALSE]
<1>3. states'[id] = Completed(r, running[id])
  BY <1>1, <1>2 DEF AfterCompletion
<1>4. /\ states[id] \in CallbackState /\ Planned(states[id])
      /\ Realigned(states[id]) /\ Capped(states[id])
  BY <1>1, StateFacts DEF RealignInv
<1>5. /\ r \in CallbackState /\ r.pending = states[id].pending
      /\ r.interval = states[id].interval /\ r.maxWindow = states[id].maxWindow
      /\ r.nextStart = states[id].nextStart /\ r.nextEnd = states[id].nextEnd
  BY <1>4 DEF CallbackState
<1> HIDE DEF r
<1>6. running[id].start = r.nextStart /\ running[id].end = r.nextEnd
  BY <1>1, <1>4, <1>5 DEF SchedulerInv, WindowsContiguous, Planned
<1>7. Realigned(r) /\ Capped(r)
  BY <1>4, <1>5 DEF Realigned, Capped
<1>8. QED
  BY <1>1, <1>3, <1>5, <1>6, <1>7, CompletedRealigns

\* However often and whenever the interval of a callback changes, every window
\* it plans ends on a boundary of the interval in force and is no longer than
\* that: the cap of planNextWindow never cuts the transition short.
THEOREM WindowsAreRealigned == Spec => []WindowsRealign
<1>1. Init => RealignInv
  BY DEF Init, RealignInv
<1>2. ASSUME SchedulerInv, RealignInv, [Next]_vars, NEW i \in DOMAIN states'
      PROVE  Realigned(states'[i]) /\ Capped(states'[i])
  <2>1. CASE DispatchDue
    <3>1. i \in DOMAIN states /\ states[i] \in CallbackState
      BY <1>2, <2>1, StateFacts DEF DispatchDue
    <3>2. states'[i] = states[i] \/ states'[i] = [states[i] EXCEPT !.inFlight = TRUE]
      BY <3>1, <2>1 DEF DispatchDue
    <3>3. /\ states'[i].nextStart = states[i].nextStart
          /\ states'[i].nextEnd = states[i].nextEnd
          /\ states'[i].interval = states[i].interval
          /\ states'[i].maxWindow = states[i].maxWindow
          /\ states'[i].pending = states[i].pending
      BY <3>1, <3>2 DEF CallbackState
    <3>4. QED
      BY <1>2, <3>1, <3>3 DEF RealignInv, Realigned, Capped
  <2>2. CASE Untouched(i)
    BY <1>2, <2>2 DEF RealignInv, Untouched
  <2>3. ASSUME i \in Ids, NEW interval \in Intervals, NEW lastEnd \in LastEnds \cup {None},
               AddCallback(i, interval, lastEnd)
        PROVE  Realigned(states'[i]) /\ Capped(states'[i])
    BY <1>2, <2>3, AddCallbackRealigns
  <2>4. CASE i \in Ids /\ RemoveCallback(i)
    <3>1. /\ i \in DOMAIN states /\ states'[i] = [states[i] EXCEPT !.removeAfter = TRUE]
          /\ states[i] \in CallbackState
      BY <1>2, <2>4, StateFacts
         DEF RemoveCallback, AfterRemoval, Delete, SchedulerInv, TypeOK
    <3>2. /\ states'[i].nextStart = states[i].nextStart
          /\ states'[i].nextEnd = states[i].nextEnd
          /\ states'[i].interval = states[i].interval
          /\ states'[i].maxWindow = states[i].maxWindow
          /\ states'[i].pending = states[i].pending
      BY <3>1 DEF CallbackState
    <3>3. QED
      BY <1>2, <3>1, <3>2 DEF RealignInv, Realigned, Capped
  <2>5. CASE i \in Ids /\ HandleCompletion(i)
    BY <1>2, <2>5, HandleCompletionRealigns
  <2>6. QED
    BY <1>2, <2>1, <2>2, <2>3, <2>4, <2>5, StepsTouchOne
<1>3. SchedulerInv /\ RealignInv /\ [Next]_vars => RealignInv'
  BY <1>2 DEF RealignInv
<1>4. RealignInv => WindowsRealign
  BY DEF RealignInv, Realigned, OnBoundary, WindowsRealign
<1>5. QED
  BY <1>1, <1>3, <1>4, SchedulerInvariant, PTL DEF Spec

----------------------------------------------------------------------------
(* Refinement. *)

\* The mapping, pointwise: what a step does to cursors and attempts.
Cursors == [id \in DOMAIN states |-> states[id].lastEnd]

Attempts ==
  [id \in DOMAIN running |-> [end |-> running[id].end, outcome |-> running[id].outcome]]

Stutter ==
  /\ now' = now /\ Cursors' = Cursors /\ Attempts' = Attempts
  /\ (stop' = "open") <=> (stop = "open")

AbsStep == Windows!AbsNext \/ Stutter

LEMMA CursorsAre ==
  /\ DOMAIN Cursors = DOMAIN states
  /\ \A i \in DOMAIN states : Cursors[i] = states[i].lastEnd
  BY DEF Cursors

LEMMA AttemptsAre ==
  /\ DOMAIN Attempts = DOMAIN running
  /\ \A i \in DOMAIN running :
       Attempts[i] = [end |-> running[i].end, outcome |-> running[i].outcome]
  BY DEF Attempts

\* Dispatching begins an attempt for each callback that is due, if any is.
LEMMA DispatchBegins ==
  ASSUME SchedulerInv, DispatchDue
  PROVE  AbsStep
<1>1. /\ now' = now /\ stop' = stop /\ stop = "open"
      /\ DOMAIN states' = DOMAIN states
      /\ DOMAIN running' = DOMAIN running \cup Due
      /\ Due \subseteq DOMAIN states \ DOMAIN running
      /\ \A i \in Due : running'[i] = Dispatch(states[i])
      /\ \A i \in DOMAIN running \ Due : running'[i] = running[i]
  BY DEF DispatchDue, Due, Waiting, SchedulerInv, InFlightMatchesGoroutines
<1>2. \A i \in DOMAIN states : states'[i].lastEnd = states[i].lastEnd
  <2>1. ASSUME NEW i \in DOMAIN states
        PROVE  states'[i].lastEnd = states[i].lastEnd
    <3>1. states[i] \in CallbackState
      BY StateFacts
    <3>2. states'[i] = states[i] \/ states'[i] = [states[i] EXCEPT !.inFlight = TRUE]
      BY DEF DispatchDue
    <3>3. QED
      BY <3>1, <3>2 DEF CallbackState
  <2>2. QED
    BY <2>1
<1>3. Cursors' = Cursors
  BY <1>1, <1>2 DEF Cursors
<1>4. CASE Due = {}
  <2>1. Attempts' = Attempts
    BY <1>1, <1>4 DEF Attempts
  <2>2. QED
    BY <1>1, <1>3, <2>1 DEF AbsStep, Stutter
<1>5. CASE Due # {}
  <2>1. DOMAIN Attempts' = DOMAIN Attempts \cup Due
        /\ Attempts' = [i \in DOMAIN Attempts' |->
                          IF i \in Due THEN Attempts'[i] ELSE Attempts[i]]
    BY <1>1 DEF Attempts
  <2>2. ASSUME NEW i \in Due
        PROVE  /\ Attempts'[i] = [end |-> Attempts'[i].end, outcome |-> "pending"]
               /\ Cursors[i] < Attempts'[i].end /\ Attempts'[i].end <= now
    <3>1. i \in DOMAIN states /\ Planned(states[i]) /\ states[i].nextEnd <= now
      BY <1>1, StateFacts DEF Due
    <3>2. Attempts'[i] = [end |-> states[i].nextEnd, outcome |-> "pending"]
      BY <1>1 DEF Attempts, Dispatch
    <3>3. Cursors[i] = states[i].lastEnd
      BY <3>1, CursorsAre
    <3>4. QED
      BY <3>1, <3>2, <3>3 DEF Planned
  <2>3. Due \subseteq DOMAIN Cursors \ DOMAIN Attempts /\ Due \subseteq Ids
    BY <1>1, CursorsAre, AttemptsAre DEF SchedulerInv, TypeOK
  <2>4. PICK S \in SUBSET Ids : S = Due
    BY <2>3
  <2>5. Windows!Begin(S)
    BY <1>1, <1>3, <1>5, <2>1, <2>2, <2>3, <2>4 DEF Windows!Begin, Cursors, Attempts
  <2>6. QED
    BY <2>5 DEF AbsStep, Windows!AbsNext
<1>6. QED
  BY <1>4, <1>5

\* AddCallback registers a callback, or leaves its cursor where it is.
LEMMA AddRegisters ==
  ASSUME SchedulerInv, NEW id \in Ids, NEW interval \in Intervals,
         NEW lastEnd \in LastEnds \cup {None}, AddCallback(id, interval, lastEnd)
  PROVE  AbsStep
<1>1. now' = now /\ stop' = stop /\ stop = "open" /\ running' = running
  BY DEF AddCallback
<1>2. Attempts' = Attempts
  BY <1>1 DEF Attempts
<1>3. ASSUME NEW s, id \in DOMAIN states, states' = [states EXCEPT ![id] = s],
             s.lastEnd = states[id].lastEnd
      PROVE  AbsStep
  <2>1. DOMAIN states' = DOMAIN states
        /\ \A i \in DOMAIN states : states'[i].lastEnd = states[i].lastEnd
    BY <1>3
  <2>2. Cursors' = Cursors
    BY <2>1 DEF Cursors
  <2>3. QED
    BY <1>1, <1>2, <2>2 DEF AbsStep, Stutter
<1>4. CASE AddNew(id, interval, lastEnd)
  <2>1. /\ id \notin DOMAIN states /\ id \notin DOMAIN running
        /\ DOMAIN states' = DOMAIN states \cup {id}
        /\ \A i \in DOMAIN states : states'[i] = states[i]
    BY <1>4 DEF AddNew, Put, SchedulerInv, InFlightMatchesGoroutines
  <2>2. /\ DOMAIN Cursors' = DOMAIN Cursors \cup {id}
        /\ Cursors' = [i \in DOMAIN Cursors' |->
                         IF i = id THEN Cursors'[id] ELSE Cursors[i]]
    BY <2>1 DEF Cursors
  <2>3. id \notin DOMAIN Cursors \cup DOMAIN Attempts
    BY <2>1, CursorsAre, AttemptsAre
  <2>4. Windows!Register(id)
    BY <1>1, <1>2, <2>2, <2>3 DEF Windows!Register, Cursors, Attempts
  <2>5. QED
    BY <2>4 DEF AbsStep, Windows!AbsNext
<1>5. CASE AddIdle(id, interval)
  <2> DEFINE u == UpdateFor(states[id], interval)
  <2>1. id \in DOMAIN states /\ states' = [states EXCEPT ![id] = ApplyUpdate(states[id], u)]
    BY <1>5 DEF AddIdle
  <2>2. states[id] \in CallbackState /\ u \in Update
    BY <2>1, StateFacts DEF CallbackState, UpdateFor, Update, Maximum
  <2> HIDE DEF u
  <2>3. ApplyUpdate(states[id], u).lastEnd = states[id].lastEnd
    BY <2>2, ApplyUpdatePlans
  <2>4. QED
    BY <1>3, <2>1, <2>3
<1>6. CASE AddInFlight(id, interval)
  <2> DEFINE u == UpdateFor(states[id], interval)
             s == [states[id] EXCEPT !.pending = u]
  <2>1. id \in DOMAIN states /\ states' = [states EXCEPT ![id] = s]
    BY <1>6 DEF AddInFlight
  <2>2. states[id] \in CallbackState
    BY <2>1, StateFacts
  <2> HIDE DEF u
  <2>3. s.lastEnd = states[id].lastEnd
    BY <2>2 DEF CallbackState
  <2> HIDE DEF s
  <2>4. QED
    BY <1>3, <2>1, <2>3
<1>7. QED
  BY <1>4, <1>5, <1>6 DEF AddCallback

\* Cancelling changes neither the window nor the result of an attempt.
LEMMA CancelLeavesAttempts ==
  ASSUME SchedulerInv, NEW ids, running' = Cancel(ids)
  PROVE  Attempts' = Attempts
  BY CancelKeeps DEF Attempts

\* RemoveCallback drops an idle callback; one in flight stays until its result.
LEMMA RemoveUnregisters ==
  ASSUME SchedulerInv, NEW id \in Ids, RemoveCallback(id)
  PROVE  AbsStep
<1>1. now' = now /\ stop' = stop
  BY DEF RemoveCallback
<1>2. Attempts' = Attempts
  BY CancelLeavesAttempts DEF RemoveCallback
<1>3. CASE id \notin DOMAIN states
  <2>1. states' = states
    BY <1>3 DEF RemoveCallback
  <2>2. QED
    BY <1>1, <1>2, <2>1 DEF AbsStep, Stutter, Cursors
<1>4. CASE id \in DOMAIN states /\ states[id].inFlight
  <2>1. states' = [states EXCEPT ![id].removeAfter = TRUE]
    BY <1>4 DEF RemoveCallback, AfterRemoval
  <2>2. states[id] \in CallbackState
    BY <1>4, StateFacts
  <2>3. states'[id].lastEnd = states[id].lastEnd
    BY <1>4, <2>1, <2>2 DEF CallbackState
  <2>4. Cursors' = Cursors
    BY <2>1, <2>3 DEF Cursors
  <2>5. QED
    BY <1>1, <1>2, <2>4 DEF AbsStep, Stutter
<1>5. CASE id \in DOMAIN states /\ ~states[id].inFlight
  <2>1. states' = Delete(states, id) /\ id \notin DOMAIN running
    BY <1>5, StateFacts DEF RemoveCallback, AfterRemoval
  <2>2. Cursors' = [i \in DOMAIN Cursors \ {id} |-> Cursors[i]]
    BY <2>1 DEF Cursors, Delete
  <2>3. id \in DOMAIN Cursors \ DOMAIN Attempts
    BY <1>5, <2>1, CursorsAre, AttemptsAre
  <2>4. Windows!Unregister(id)
    BY <1>1, <1>2, <2>2, <2>3 DEF Windows!Unregister, Cursors, Attempts
  <2>5. QED
    BY <2>4 DEF AbsStep, Windows!AbsNext
<1>6. QED
  BY <1>3, <1>4, <1>5

\* The result of an attempt is settled: a success moves the cursor to its end.
LEMMA CompletionSettles ==
  ASSUME SchedulerInv, NEW id \in Ids, HandleCompletion(id)
  PROVE  AbsStep
<1>1. /\ now' = now /\ stop' = stop
      /\ id \in DOMAIN running /\ running[id].outcome # "pending"
      /\ running' = Delete(running, id) /\ states' = AfterCompletion(id)
      /\ running[id] \in Invocation /\ now \in Nat
      /\ id \in DOMAIN states
  BY DEF HandleCompletion, HandsIn, SchedulerInv, TypeOK, InFlightMatchesGoroutines
<1>2. Attempts' = [i \in DOMAIN Attempts \ {id} |-> Attempts[i]]
  BY <1>1 DEF Attempts, Delete
<1>3. /\ id \in DOMAIN Attempts \cap DOMAIN Cursors
      /\ Attempts[id].outcome = running[id].outcome
      /\ Attempts[id].end = running[id].end
  BY <1>1, CursorsAre, AttemptsAre
<1>4. \/ Attempts[id].outcome = "success" /\ Cursors' = [Cursors EXCEPT ![id] = Attempts[id].end]
      \/ Attempts[id].outcome # "success" /\ Cursors' = Cursors
      \/ Cursors' = [i \in DOMAIN Cursors \ {id} |-> Cursors[i]]
  <2>1. CASE states[id].removeAfter
    <3>1. states' = Delete(states, id)
      BY <1>1, <2>1 DEF AfterCompletion
    <3>2. QED
      BY <3>1 DEF Cursors, Delete
  <2>2. CASE ~states[id].removeAfter
    <3> DEFINE r == [states[id] EXCEPT !.inFlight = FALSE]
               t == Completed(r, running[id])
    <3>1. states' = [states EXCEPT ![id] = t]
      BY <1>1, <2>2 DEF AfterCompletion
    <3>2. states[id] \in CallbackState /\ Planned(states[id])
      BY <1>1, StateFacts
    <3>3. /\ r \in CallbackState /\ r.lastEnd = states[id].lastEnd
          /\ r.nextStart = states[id].nextStart /\ r.nextEnd = states[id].nextEnd
      BY <3>2 DEF CallbackState
    <3> HIDE DEF r
    <3>4. Planned(r) /\ running[id].start = r.lastEnd /\ running[id].start < running[id].end
      BY <1>1, <3>2, <3>3 DEF SchedulerInv, WindowsContiguous, Planned
    <3>5. t.lastEnd = IF running[id].outcome = "success" THEN running[id].end
                                                         ELSE states[id].lastEnd
      BY <1>1, <3>3, <3>4, CompletedPlans
    <3> HIDE DEF t
    <3>6. /\ DOMAIN states' = DOMAIN states /\ states'[id].lastEnd = t.lastEnd
          /\ \A i \in DOMAIN states \ {id} : states'[i] = states[i]
      BY <1>1, <3>1
    <3>7. CASE running[id].outcome = "success"
      <4>1. Cursors' = [Cursors EXCEPT ![id] = running[id].end]
        BY <3>5, <3>6, <3>7 DEF Cursors
      <4>2. QED
        BY <1>3, <3>7, <4>1
    <3>8. CASE running[id].outcome # "success"
      <4>1. Cursors' = Cursors
        BY <3>5, <3>6, <3>8 DEF Cursors
      <4>2. QED
        BY <1>3, <3>8, <4>1
    <3>9. QED
      BY <3>7, <3>8
  <2>3. QED
    BY <2>1, <2>2
<1>5. Windows!Settle(id)
  BY <1>1, <1>2, <1>3, <1>4 DEF Windows!Settle, Cursors, Attempts
<1>6. QED
  BY <1>5 DEF AbsStep, Windows!AbsNext

\* A callback returns; one that was cancelled has failed.
LEMMA ReturnFinishes ==
  ASSUME SchedulerInv, NEW id \in Ids, NEW outcome \in Outcomes, Return(id, outcome)
  PROVE  AbsStep
<1> DEFINE o == IF running[id].cancelled THEN "permanent" ELSE outcome
           r == [running[id] EXCEPT !.outcome = o]
<1>1. /\ now' = now /\ states' = states /\ stop' = stop
      /\ id \in DOMAIN running /\ running[id].outcome = "pending"
      /\ running' = [running EXCEPT ![id] = r]
      /\ running[id] \in Invocation
  BY DEF Return, SchedulerInv, TypeOK
<1>2. o \in {"success", "retry", "permanent"}
  BY DEF Outcomes
<1> HIDE DEF o
<1>3. r.end = running[id].end /\ r.outcome = o
  BY <1>1 DEF Invocation
<1> HIDE DEF r
<1>4. Cursors' = Cursors
  BY <1>1 DEF Cursors
<1>5. Attempts' = [Attempts EXCEPT ![id].outcome = o]
  BY <1>1, <1>3 DEF Attempts
<1>6. id \in DOMAIN Attempts /\ Attempts[id].outcome = "pending"
  BY <1>1, AttemptsAre
<1>7. Windows!Finish(id)
  BY <1>1, <1>2, <1>4, <1>5, <1>6 DEF Windows!Finish, Cursors, Attempts
<1>8. QED
  BY <1>7 DEF AbsStep, Windows!AbsNext

\* Stop closes the gate; the clock advances; nothing else is seen.
LEMMA LoopStepsAreAbstract ==
  ASSUME SchedulerInv, Stop \/ Drain \/ AddRejected \/ TimerFires \/ Tick \/ UNCHANGED vars
  PROVE  AbsStep
<1>1. CASE Stop
  <2>1. now' = now /\ states' = states /\ stop = "open" /\ stop' = "stopping"
    BY <1>1 DEF Stop
  <2>2. Attempts' = Attempts
    BY <1>1, CancelLeavesAttempts DEF Stop
  <2>3. Cursors' = Cursors
    BY <2>1 DEF Cursors
  <2>4. Windows!Close
    BY <2>1, <2>2, <2>3 DEF Windows!Close, Cursors, Attempts
  <2>5. QED
    BY <2>4 DEF AbsStep, Windows!AbsNext
<1>2. CASE Tick
  <2>1. now' > now /\ states' = states /\ running' = running /\ stop' = stop
    BY <1>2 DEF Tick, SchedulerInv, TypeOK
  <2>2. Windows!Advance
    BY <2>1 DEF Windows!Advance
  <2>3. QED
    BY <2>2 DEF AbsStep, Windows!AbsNext
<1>3. CASE Drain \/ AddRejected \/ TimerFires \/ UNCHANGED vars
  <2>1. /\ now' = now /\ states' = states /\ running' = running
        /\ (stop' = "open") <=> (stop = "open")
    BY <1>3 DEF Drain, AddRejected, TimerFires, vars
  <2>2. QED
    BY <2>1 DEF AbsStep, Stutter, Cursors, Attempts
<1>4. QED
  BY <1>1, <1>2, <1>3

\* Every behaviour of the loop is one of contiguous, ordered windows, at most
\* one attempt of a callback at a time, and none begun once it stops: for any
\* number of callbacks, any intervals and any retry policy.
THEOREM LoopImplementsWindows == Spec => ImplementsContiguousWindows
<1>1. Init => Windows!AbsInit
  BY DEF Init, Windows!AbsInit
<1>2. SchedulerInv /\ [Next]_vars => AbsStep
  <2> SUFFICES ASSUME SchedulerInv, [Next]_vars PROVE AbsStep
    OBVIOUS
  <2>1. QED
    BY DispatchBegins, AddRegisters, RemoveUnregisters, CompletionSettles,
       ReturnFinishes, LoopStepsAreAbstract DEF Next
<1>3. AbsStep => [Windows!AbsNext]_(Windows!absVars)
  BY DEF AbsStep, Stutter, Cursors, Attempts, Windows!absVars
<1>4. QED
  BY <1>1, <1>2, <1>3, SchedulerInvariant, PTL
     DEF Spec, ImplementsContiguousWindows, Windows!AbsSpec

=============================================================================
