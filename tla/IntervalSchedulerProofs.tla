----------------------- MODULE IntervalSchedulerProofs -----------------------
(* Theorems about IntervalScheduler, for every set of callbacks, intervals   *)
(* and last ends, every backoff policy and every bound on the clock.         *)
EXTENDS IntervalScheduler, NatRecursion, TLAPS

----------------------------------------------------------------------------
(* Windows. *)

\* nextBoundary returns the first aligned time at or after t: less than one
\* interval away.
LEMMA NextBoundaryBounds ==
  ASSUME NEW t \in Int, NEW d \in Nat \ {0}
  PROVE  /\ NextBoundary(t, d) \in Int
         /\ t <= NextBoundary(t, d) /\ NextBoundary(t, d) < t + d
<1>1. t % d \in 0..(d-1)
  OBVIOUS
<1>2. QED
  BY <1>1 DEF NextBoundary, Truncate

\* planNextWindow never plans an empty window nor one longer than the interval.
LEMMA WindowEndBounds ==
  ASSUME NEW start \in Int, NEW interval \in Nat \ {0}, NEW maxWindow \in Nat \ {0}
  PROVE  /\ WindowEnd(start, interval, maxWindow) \in Int
         /\ start < WindowEnd(start, interval, maxWindow)
         /\ WindowEnd(start, interval, maxWindow) <= start + interval
<1> DEFINE b == NextBoundary(start, interval)
<1>1. b \in Int /\ start <= b /\ b < start + interval
  BY NextBoundaryBounds
<1>2. CASE start = b
  BY <1>2 DEF WindowEnd
<1>3. CASE start # b
  <2>1. WindowEnd(start, interval, maxWindow) = Minimum(start + maxWindow, b)
    BY <1>3 DEF WindowEnd
  <2> HIDE DEF b
  <2>2. QED
    BY <1>1, <1>3, <2>1 DEF Minimum
<1>4. QED
  BY <1>2, <1>3

\* A nonempty set of natural numbers has a least element.
LEMMA LeastTime ==
  ASSUME NEW T \in SUBSET Nat, T # {}
  PROVE  \E t \in T : \A u \in T : t <= u
<1>1. PICK t \in T : \A u \in T : ~(<<u, t>> \in OpToRel(<, Nat))
  BY NatLessThanWellFounded, WFMin
<1>2. \A u \in T : ~(u < t)
  BY <1>1 DEF OpToRel
<1>3. QED
  BY <1>2

----------------------------------------------------------------------------
(* Delays. *)

LEMMA PowerIterates ==
  ASSUME NEW base \in Nat, NEW N \in Nat
  PROVE  \E p \in [0..N -> Nat] :
           /\ Iterates(p, 1, [pair \in Nat \X Nat |-> base * pair[2]], N)
           /\ Power(base, N) = p[N]
<1> DEFINE step == [pair \in Nat \X Nat |-> base * pair[2]]
           Solves(p) == p = [n \in 0..N |-> IF n = 0 THEN 1 ELSE base * p[n - 1]]
           p == CHOOSE f : Solves(f)
<1>1. step \in [Nat \X Nat -> Nat] /\ \A n, x \in Nat : step[<<n, x>>] = base * x
  OBVIOUS
<1>2. PICK f \in [0..N -> Nat] : Iterates(f, 1, step, N)
  <2> HIDE DEF step
  <2> QED
    BY <1>1, RecursionExists
<1>3. Solves(f)
  <2>1. \A n \in 1..N : n \in Nat /\ f[n - 1] \in Nat
    OBVIOUS
  <2>2. f[0] = 1 /\ \A n \in 1..N : f[n] = base * f[n - 1]
    <3> HIDE DEF step
    <3> QED
      BY <1>1, <1>2, <2>1 DEF Iterates
  <2>3. \A n \in 0..N : f[n] = IF n = 0 THEN 1 ELSE base * f[n - 1]
    BY <2>2
  <2> QED
    BY <2>3
<1>4. Solves(p)
  <2> HIDE DEF Solves
  <2> QED
    BY <1>3
<1>5. DOMAIN p = 0..N /\ p[0] = 1 /\ \A n \in 1..N : p[n] = base * p[n - 1]
  <2> HIDE DEF p
  <2> QED
    BY <1>4
<1>6. Power(base, N) = p[N]
  BY DEF Power
<1> HIDE DEF p, Solves
<1> DEFINE T == {n \in Nat : n <= N => p[n] \in Nat}
<1>7. T = Nat
  <2>1. 0 \in T
    BY <1>5
  <2>2. ASSUME NEW n \in T
        PROVE  n + 1 \in T
    <3>1. n + 1 <= N => p[n + 1] = base * p[n + 1 - 1] /\ n + 1 - 1 = n /\ p[n] \in Nat
      BY <1>5
    <3> QED
      BY <3>1
  <2>3. T \in SUBSET Nat
    OBVIOUS
  <2> HIDE DEF T
  <2> QED
    BY <2>1, <2>2, <2>3, NatSetInduction
<1>8. \A n \in 0..N : p[n] \in Nat
  <2>1. \A n \in 0..N : n \in T /\ n <= N
    BY <1>7
  <2> QED
    BY <2>1
<1>9. p \in [0..N -> Nat]
  <2>1. p = [n \in 0..N |-> p[n]]
    BY <1>4 DEF Solves
  <2> QED
    BY <1>8, <2>1
<1>10. Iterates(p, 1, step, N)
  <2>1. \A n \in 1..N : n \in Nat /\ p[n - 1] \in Nat
    BY <1>8
  <2> HIDE DEF step
  <2> QED
    BY <1>1, <1>5, <2>1 DEF Iterates
<1> QED
  BY <1>6, <1>9, <1>10

\* math.Pow multiplies once more for each exponent.
LEMMA PowerMultiplies ==
  ASSUME NEW base \in Nat, NEW n \in Nat
  PROVE  /\ Power(base, 0) = 1 /\ Power(base, n) \in Nat
         /\ Power(base, n + 1) = base * Power(base, n)
<1> DEFINE step == [pair \in Nat \X Nat |-> base * pair[2]]
<1>1. PICK z \in [0..0 -> Nat] : Iterates(z, 1, step, 0) /\ Power(base, 0) = z[0]
  BY PowerIterates
<1>2. PICK p \in [0..n -> Nat] : Iterates(p, 1, step, n) /\ Power(base, n) = p[n]
  BY PowerIterates
<1>3. PICK q \in [0..(n + 1) -> Nat] :
        Iterates(q, 1, step, n + 1) /\ Power(base, n + 1) = q[n + 1]
  <2>1. n + 1 \in Nat
    OBVIOUS
  <2> QED
    BY <2>1, PowerIterates
<1>4. p[n] = q[n]
  <2> HIDE DEF step
  <2> QED
    BY <1>2, <1>3, RecursionUnique
<1>5. q[n + 1] = step[<<n + 1, q[n + 1 - 1]>>] /\ n + 1 - 1 = n /\ q[n] \in Nat
  <2> HIDE DEF step
  <2> QED
    BY <1>3 DEF Iterates
<1>6. q[n + 1] = base * q[n]
  BY <1>5
<1>7. z[0] = 1
  BY <1>1 DEF Iterates
<1> QED
  BY <1>1, <1>2, <1>3, <1>4, <1>6, <1>7

LEMMA PowerPositive ==
  ASSUME NEW base \in Nat \ {0}, NEW n \in Nat
  PROVE  Power(base, n) > 0
<1> DEFINE T == {m \in Nat : Power(base, m) > 0}
<1>1. 0 \in T
  BY PowerMultiplies
<1>2. ASSUME NEW m \in T
      PROVE  m + 1 \in T
  <2>1. Power(base, m) \in Nat \ {0} /\ Power(base, m + 1) = base * Power(base, m)
    BY PowerMultiplies
  <2>2. \A x \in Nat \ {0} : base * x > 0
    OBVIOUS
  <2> QED
    BY <2>1, <2>2
<1>3. T \in SUBSET Nat
  OBVIOUS
<1>4. T = Nat
  <2> HIDE DEF T
  <2> QED
    BY <1>1, <1>2, <1>3, NatSetInduction
<1> QED
  BY <1>4

\* The clamp is the least of the limits.
LEMMA MaxDelayIsLeast ==
  ASSUME NEW policy \in BackoffPolicies, NEW interval \in Nat
  PROVE  /\ MaxDelay(policy, interval) \in Nat \ {0}
         /\ interval > 0 =>
              /\ MaxDelay(policy, interval) \in Limits(policy, interval)
              /\ \A limit \in Limits(policy, interval) : MaxDelay(policy, interval) <= limit
BY DEF MaxDelay, MaxBackoffDelay, Limits, BackoffPolicies

LEMMA MultiplierIsPositive ==
  ASSUME NEW policy \in BackoffPolicies
  PROVE  /\ OrDefault(policy.initial, 1) \in Nat \ {0}
         /\ OrDefault(policy.multiplier, 2) \in Nat \ {0}
BY DEF OrDefault, BackoffPolicies

\* To clamp each product is to clamp the last one.
LEMMA ClampedProduct ==
  ASSUME NEW x \in Nat \ {0}, NEW factor \in Nat \ {0}, NEW max \in Nat \ {0}
  PROVE  /\ Minimum(x, max) \in 1..max
         /\ factor * x \in Nat \ {0}
         /\ Minimum(factor * x, max) = Minimum(factor * Minimum(x, max), max)
<1>1. x <= max \/ (x > max /\ factor * x >= max /\ factor * max >= max)
  <2>1. \A y \in Nat : factor * y >= y
    OBVIOUS
  <2> QED
    BY <2>1
<1>2. factor * x \in Nat \ {0} /\ factor * max \in Nat
  OBVIOUS
<1> QED
  BY <1>1, <1>2 DEF Minimum

\* Each retry multiplies the delay of the one before, up to the clamp.
LEMMA DelayMultiplies ==
  ASSUME NEW policy \in BackoffPolicies, NEW interval \in Nat
  PROVE  /\ Delay(policy, interval, 1)
              = Minimum(OrDefault(policy.initial, 1), MaxDelay(policy, interval))
         /\ \A a \in Nat \ {0} :
              /\ Delay(policy, interval, a) \in 1..MaxDelay(policy, interval)
              /\ Delay(policy, interval, a + 1)
                   = Minimum(OrDefault(policy.multiplier, 2) * Delay(policy, interval, a),
                             MaxDelay(policy, interval))
<1> DEFINE initial == OrDefault(policy.initial, 1)
           factor  == OrDefault(policy.multiplier, 2)
           max     == MaxDelay(policy, interval)
<1>1. initial \in Nat \ {0} /\ factor \in Nat \ {0} /\ max \in Nat \ {0}
  BY MaxDelayIsLeast, MultiplierIsPositive
<1>2. Delay(policy, interval, 1) = Minimum(initial, max)
  BY DEF Delay
<1>3. ASSUME NEW a \in Nat \ {0}
      PROVE  /\ Delay(policy, interval, a) = Minimum(initial * Power(factor, a - 1), max)
             /\ initial * Power(factor, a - 1) \in Nat \ {0}
  <2>1. CASE a = 1
    <3>1. a - 1 = 0 /\ Power(factor, 0) = 1
      BY <1>1, <2>1, PowerMultiplies
    <3>2. initial * Power(factor, a - 1) = initial
      <4> HIDE DEF initial, factor
      <4> QED
        BY <1>1, <3>1
    <3> QED
      BY <1>1, <1>2, <2>1, <3>2
  <2>2. CASE a # 1
    <3>1. Power(factor, a - 1) \in Nat \ {0}
      <4>1. a - 1 \in Nat
        OBVIOUS
      <4>2. Power(factor, a - 1) \in Nat /\ Power(factor, a - 1) > 0
        BY <1>1, <4>1, PowerMultiplies, PowerPositive
      <4> QED
        BY <4>2
    <3>2. \A x, y \in Nat \ {0} : x * y \in Nat \ {0}
      OBVIOUS
    <3>3. initial * Power(factor, a - 1) \in Nat \ {0}
      BY <1>1, <3>1, <3>2
    <3>4. Delay(policy, interval, a) = Minimum(initial * Power(factor, a - 1), max)
      <4>1. ~(a <= 1)
        BY <2>2
      <4> QED
        BY <4>1 DEF Delay
    <3> QED
      BY <3>3, <3>4
  <2> QED
    BY <2>1, <2>2
<1>4. ASSUME NEW a \in Nat \ {0}
      PROVE  /\ Delay(policy, interval, a) \in 1..max
             /\ Delay(policy, interval, a + 1)
                  = Minimum(factor * Delay(policy, interval, a), max)
  <2> DEFINE x == initial * Power(factor, a - 1)
  <2>1. x \in Nat \ {0} /\ Delay(policy, interval, a) = Minimum(x, max)
    BY <1>3
  <2>2. initial * Power(factor, a + 1 - 1) = factor * x
    <3>1. a - 1 \in Nat /\ a + 1 - 1 = (a - 1) + 1
      OBVIOUS
    <3>2. Power(factor, a + 1 - 1) = factor * Power(factor, a - 1) /\ Power(factor, a - 1) \in Nat
      BY <1>1, <3>1, PowerMultiplies
    <3>3. \A i, f, p \in Nat : i * (f * p) = f * (i * p)
      OBVIOUS
    <3> QED
      BY <1>1, <3>2, <3>3
  <2>3. Delay(policy, interval, a + 1) = Minimum(factor * x, max)
    <3>1. a + 1 \in Nat \ {0}
      OBVIOUS
    <3> HIDE DEF initial, factor, max, x
    <3>2. Delay(policy, interval, a + 1) = Minimum(initial * Power(factor, a + 1 - 1), max)
      BY <1>3, <3>1
    <3> QED
      BY <2>2, <3>2
  <2> HIDE DEF initial, factor, max, x
  <2> QED
    BY <1>1, <2>1, <2>3, ClampedProduct
<1> QED
  BY <1>2, <1>4

\* A delay is never longer than that of a later retry.
LEMMA DelayGrows ==
  ASSUME NEW policy \in BackoffPolicies, NEW interval \in Nat, NEW a \in Nat \ {0}
  PROVE  Delay(policy, interval, a) <= Delay(policy, interval, a + 1)
<1> DEFINE factor == OrDefault(policy.multiplier, 2)
           max == MaxDelay(policy, interval)
           delay == Delay(policy, interval, a)
<1>1. factor \in Nat \ {0} /\ max \in Nat \ {0} /\ delay \in 1..max
  BY DelayMultiplies, MaxDelayIsLeast, MultiplierIsPositive
<1>2. Delay(policy, interval, a + 1) = Minimum(factor * delay, max)
  BY DelayMultiplies
<1>3. \A y \in Nat : factor * y >= y /\ factor * y \in Nat
  BY <1>1
<1> HIDE DEF factor, max, delay
<1>4. delay <= Minimum(factor * delay, max)
  BY <1>1, <1>3 DEF Minimum
<1> QED
  BY <1>2, <1>4 DEF delay

\* What is multiplied up to the least limit is what Delay computes.
LEMMA DelayIsMultiplied ==
  ASSUME NEW interval \in Nat \ {0}
  PROVE  \A a \in 1..MaxAttempt : Multiplied(interval)[a] = Delay(Backoff, interval, a)
<1> DEFINE least == CHOOSE l \in Limits(Backoff, interval) :
                      \A other \in Limits(Backoff, interval) : l <= other
           max == MaxDelay(Backoff, interval)
           initial == OrDefault(Backoff.initial, 1)
           factor == OrDefault(Backoff.multiplier, 2)
           Solves(f) == f = [a \in 1..MaxAttempt |->
                               Minimum(IF a = 1 THEN initial ELSE factor * f[a - 1], least)]
           e == [a \in 1..MaxAttempt |-> Delay(Backoff, interval, a)]
           d == CHOOSE f : Solves(f)
<1>1. least = max
  <2>1. /\ max \in Limits(Backoff, interval)
        /\ \A limit \in Limits(Backoff, interval) : max <= limit
    BY BackoffAssumption, MaxDelayIsLeast
  <2>2. Limits(Backoff, interval) \subseteq Nat
    BY BackoffAssumption DEF Limits, BackoffPolicies
  <2>3. \A l \in Limits(Backoff, interval) :
          (\A other \in Limits(Backoff, interval) : l <= other) => l = max
    BY <2>1, <2>2
  <2> HIDE DEF max
  <2> QED
    BY <2>1, <2>3
<1>2. /\ Delay(Backoff, interval, 1) = Minimum(initial, max)
      /\ \A a \in Nat \ {0} :
           Delay(Backoff, interval, a + 1) = Minimum(factor * Delay(Backoff, interval, a), max)
  BY BackoffAssumption, DelayMultiplies
<1> HIDE DEF least, max, initial, factor
<1>3. Solves(e)
  <2>1. ASSUME NEW a \in 1..MaxAttempt
        PROVE  e[a] = Minimum(IF a = 1 THEN initial ELSE factor * e[a - 1], least)
    <3>1. CASE a = 1
      BY <1>1, <1>2, <3>1
    <3>2. CASE a # 1
      <4>1. a - 1 \in Nat \ {0} /\ a - 1 \in 1..MaxAttempt /\ (a - 1) + 1 = a
        BY <3>2, AttemptAssumption
      <4>2. Delay(Backoff, interval, a) = Minimum(factor * Delay(Backoff, interval, a - 1), max)
        BY <1>2, <4>1
      <4> QED
        BY <1>1, <3>2, <4>1, <4>2
    <3> QED
      BY <3>1, <3>2
  <2> QED
    BY <2>1
<1>4. Solves(d)
  <2> HIDE DEF Solves
  <2> QED
    BY <1>3
<1>5. Multiplied(interval) = d
  BY DEF Multiplied, least, initial, factor
<1>6. \A a \in 1..MaxAttempt :
        d[a] = Minimum(IF a = 1 THEN initial ELSE factor * d[a - 1], least)
  <2> HIDE DEF d
  <2> QED
    BY <1>4
<1>7. \A a \in 1..MaxAttempt :
        e[a] = Minimum(IF a = 1 THEN initial ELSE factor * e[a - 1], least)
  <2> HIDE DEF e
  <2> QED
    BY <1>3
<1> HIDE DEF d, Solves
<1> DEFINE T == {n \in Nat : n + 1 <= MaxAttempt => d[n + 1] = e[n + 1]}
<1>8. T = Nat
  <2> HIDE DEF e
  <2>1. 0 \in T
    BY <1>6, <1>7, AttemptAssumption
  <2>2. ASSUME NEW n \in T
        PROVE  n + 1 \in T
    <3> SUFFICES ASSUME n + 1 + 1 <= MaxAttempt
                 PROVE  d[n + 1 + 1] = e[n + 1 + 1]
      OBVIOUS
    <3>1. /\ n + 1 + 1 \in 1..MaxAttempt /\ n + 1 + 1 # 1 /\ n + 1 + 1 - 1 = n + 1
          /\ d[n + 1] = e[n + 1]
      BY AttemptAssumption
    <3>2. /\ d[n + 1 + 1] = Minimum(factor * d[n + 1 + 1 - 1], least)
          /\ e[n + 1 + 1] = Minimum(factor * e[n + 1 + 1 - 1], least)
      BY <1>6, <1>7, <3>1
    <3> QED
      BY <3>1, <3>2, Zenon
  <2>3. T \in SUBSET Nat
    OBVIOUS
  <2> HIDE DEF T
  <2> QED
    BY <2>1, <2>2, <2>3, NatSetInduction
<1>9. ASSUME NEW a \in 1..MaxAttempt
      PROVE  d[a] = e[a]
  <2>1. a - 1 \in Nat /\ (a - 1) + 1 = a /\ a <= MaxAttempt
    BY AttemptAssumption
  <2>2. a - 1 \in T
    <3> HIDE DEF T
    <3> QED
      BY <1>8, <2>1
  <2> HIDE DEF e
  <2> QED
    BY <2>1, <2>2
<1> QED
  BY <1>5, <1>9

----------------------------------------------------------------------------
(* Callback states. *)

\* The window a state has planned starts at lastEnd and is not empty.
Planned(s) == s.nextStart = s.lastEnd /\ s.nextStart < s.nextEnd

\* planNextWindow yields a well-formed state with a planned window and leaves
\* the rest of the state alone.
LEMMA PlanNextWindowPlans ==
  ASSUME NEW s \in CallbackState
  PROVE  LET t == PlanNextWindow(s) IN
           /\ t \in CallbackState /\ Planned(t)
           /\ t.lastEnd = s.lastEnd /\ t.interval = s.interval
           /\ t.inFlight = s.inFlight /\ t.removeAfter = s.removeAfter
           /\ t.pending = s.pending
           /\ t.attempt = s.attempt /\ t.nextAttempt = ZeroTime
<1> DEFINE e == WindowEnd(s.lastEnd, s.interval, s.maxWindow)
<1>1. /\ s.lastEnd \in Int /\ s.interval \in Nat \ {0} /\ s.maxWindow \in Nat \ {0}
  BY IntervalsAssumption DEF CallbackState
<1>2. e \in Int /\ s.lastEnd < e
  BY <1>1, WindowEndBounds
<1>3. PlanNextWindow(s) =
        [s EXCEPT !.nextStart = s.lastEnd, !.nextEnd = e, !.nextAttempt = 0]
  BY DEF PlanNextWindow, ZeroTime
<1> HIDE DEF e
<1> DEFINE t == PlanNextWindow(s)
<1>4. t \in CallbackState
  <2>1. e \in Int /\ s.lastEnd \in Int /\ 0 \in Nat
    BY <1>1, <1>2
  <2> HIDE DEF t
  <2>2. QED
    BY <1>3, <2>1 DEF CallbackState, t
<1>5. /\ t.nextStart = s.lastEnd /\ t.nextEnd = e /\ t.lastEnd = s.lastEnd
      /\ t.interval = s.interval /\ t.inFlight = s.inFlight
      /\ t.removeAfter = s.removeAfter /\ t.pending = s.pending
      /\ t.attempt = s.attempt /\ t.nextAttempt = ZeroTime
  BY <1>3 DEF CallbackState, ZeroTime
<1> HIDE DEF t
<1>6. Planned(t)
  BY <1>2, <1>5 DEF Planned
<1>7. QED
  BY <1>4, <1>5, <1>6 DEF t

\* So does applyUpdate, which also installs the new interval and drops the
\* pending update.
LEMMA ApplyUpdatePlans ==
  ASSUME NEW s \in CallbackState, NEW u \in Update
  PROVE  LET t == ApplyUpdate(s, u) IN
           /\ t \in CallbackState /\ Planned(t)
           /\ t.lastEnd = s.lastEnd /\ t.interval = u.interval
           /\ t.inFlight = s.inFlight /\ t.removeAfter = s.removeAfter
           /\ t.pending = None
           /\ t.attempt = 0 /\ t.nextAttempt = ZeroTime
<1> DEFINE r == [s EXCEPT !.interval = u.interval, !.maxWindow = u.maxWindow,
                          !.pending = None, !.disabled = FALSE, !.attempt = 0]
<1>1. u.interval \in Intervals /\ u.maxWindow \in Intervals /\ 0 \in 0..MaxAttempt
  BY AttemptAssumption DEF Update
<1>2. r \in CallbackState
  BY <1>1 DEF CallbackState
<1>3. /\ r.lastEnd = s.lastEnd /\ r.interval = u.interval
      /\ r.inFlight = s.inFlight /\ r.removeAfter = s.removeAfter
      /\ r.pending = None /\ r.attempt = 0
  BY <1>1 DEF CallbackState
<1>4. ApplyUpdate(s, u) = PlanNextWindow(r)
  BY DEF ApplyUpdate
<1> HIDE DEF r
<1>5. QED
  BY <1>2, <1>3, <1>4, PlanNextWindowPlans

\* The state a new callback starts with.
LEMMA NewStatePlans ==
  ASSUME NEW interval \in Intervals, NEW lastEnd \in Int
  PROVE  LET t == NewState(interval, lastEnd) IN
           /\ t \in CallbackState /\ Planned(t)
           /\ t.lastEnd = lastEnd /\ t.interval = interval
           /\ ~t.inFlight /\ ~t.removeAfter /\ t.pending = None
<1> DEFINE r == [interval |-> interval, maxWindow |-> interval, lastEnd |-> lastEnd,
                 nextStart |-> lastEnd, nextEnd |-> lastEnd, nextAttempt |-> 0,
                 attempt |-> 0, inFlight |-> FALSE, disabled |-> FALSE,
                 removeAfter |-> FALSE, pending |-> None]
<1>1. r \in CallbackState
  BY AttemptAssumption DEF CallbackState
<1>2. NewState(interval, lastEnd) = PlanNextWindow(r)
  BY DEF NewState, ZeroTime
<1>3. QED
  BY <1>1, <1>2, PlanNextWindowPlans

\* What handleCompletion makes of a state whose invocation is back: the flag
\* stays as the loop set it, and lastEnd moves only with a success, to the
\* end of the invocation's window.
LEMMA CompletedPlans ==
  ASSUME NEW s \in CallbackState, NEW run \in Invocation, now \in Nat,
         run.start = s.lastEnd, run.start < run.end, Planned(s)
  PROVE  LET t == Completed(s, run) IN
           /\ t \in CallbackState /\ Planned(t)
           /\ t.lastEnd = IF run.outcome = "success" THEN run.end ELSE s.lastEnd
           /\ t.interval = IF s.pending # None THEN s.pending.interval ELSE s.interval
           /\ t.inFlight = s.inFlight /\ t.removeAfter = s.removeAfter
           /\ t.pending = None
<1>1. s.pending # None => s.pending \in Update
  BY DEF CallbackState
<1>2. CASE run.outcome = "success"
  <2> DEFINE r == [s EXCEPT !.lastEnd = run.end, !.attempt = 0]
  <2>0. run.end \in Int /\ 0 \in 0..MaxAttempt
    BY AttemptAssumption DEF Invocation
  <2>5. r \in CallbackState
    BY <2>0 DEF CallbackState
  <2>1. /\ r.lastEnd = run.end /\ r.interval = s.interval
        /\ r.inFlight = s.inFlight /\ r.removeAfter = s.removeAfter
        /\ r.pending = s.pending
    BY DEF CallbackState
  <2>2. Completed(s, run) =
          IF s.pending # None THEN ApplyUpdate(r, s.pending) ELSE PlanNextWindow(r)
    BY <1>2 DEF Completed, Succeeded
  <2> HIDE DEF r
  <2>3. CASE s.pending # None
    BY <1>1, <1>2, <2>1, <2>2, <2>3, <2>5, ApplyUpdatePlans
  <2>4. CASE s.pending = None
    BY <1>2, <2>1, <2>2, <2>4, <2>5, PlanNextWindowPlans
  <2>6. QED
    BY <2>3, <2>4
<1>3. CASE run.outcome # "success" /\ s.pending # None
  <2>1. Completed(s, run) = ApplyUpdate(s, s.pending)
    BY <1>3 DEF Completed
  <2>2. QED
    BY <1>1, <1>3, <2>1, ApplyUpdatePlans
<1>4. CASE run.outcome = "retry" /\ s.pending = None
  <2> DEFINE a == NextAttempt(s)
             w == now + Delay(Backoff, s.interval, NextAttempt(s))
  <2>1. a \in 1..MaxAttempt
    BY AttemptAssumption DEF CallbackState, NextAttempt, Minimum
  <2>2. w \in Nat
    <3>1. s.interval \in Intervals
      BY DEF CallbackState
    <3> HIDE DEF a
    <3>2. s.interval \in Nat /\ a \in Nat \ {0}
      <4>1. s.interval \in Nat
        BY <3>1, IntervalsAssumption
      <4>2. a \in Nat \ {0}
        BY <2>1, AttemptAssumption
      <4>3. QED
        BY <4>1, <4>2
    <3>3. Delay(Backoff, s.interval, a) \in 1..MaxDelay(Backoff, s.interval)
      BY <3>2, BackoffAssumption, DelayMultiplies
    <3>4. QED
      BY <3>2, <3>3, BackoffAssumption, MaxDelayIsLeast DEF w, a
  <2>3. Completed(s, run) = [s EXCEPT !.attempt = a, !.nextStart = run.start,
                                      !.nextEnd = run.end, !.nextAttempt = w]
    BY <1>4 DEF Completed, Retried
  <2> HIDE DEF a, w
  <2> DEFINE t == Completed(s, run)
  <2>4. t \in CallbackState
    <3>1. run.start \in Int /\ run.end \in Int /\ a \in 0..MaxAttempt
      BY <2>1 DEF Invocation
    <3>2. QED
      BY <2>2, <2>3, <3>1 DEF CallbackState
  <2>5. /\ t.nextStart = run.start /\ t.nextEnd = run.end /\ t.lastEnd = s.lastEnd
        /\ t.interval = s.interval /\ t.inFlight = s.inFlight
        /\ t.removeAfter = s.removeAfter /\ t.pending = s.pending
    BY <2>3 DEF CallbackState
  <2> HIDE DEF t
  <2>6. QED
    BY <1>4, <2>4, <2>5 DEF Planned, t
<1>5. CASE run.outcome \notin {"success", "retry"} /\ s.pending = None
  <2> DEFINE t == Completed(s, run)
  <2>1. t = [s EXCEPT !.disabled = TRUE]
    BY <1>5 DEF Completed
  <2>2. t \in CallbackState
    BY <2>1 DEF CallbackState
  <2>3. /\ t.nextStart = s.nextStart /\ t.nextEnd = s.nextEnd /\ t.lastEnd = s.lastEnd
        /\ t.interval = s.interval /\ t.inFlight = s.inFlight
        /\ t.removeAfter = s.removeAfter /\ t.pending = s.pending
    BY <2>1 DEF CallbackState
  <2> HIDE DEF t
  <2>4. QED
    BY <1>5, <2>2, <2>3 DEF Planned, t
<1>6. QED
  BY <1>2, <1>3, <1>4, <1>5

----------------------------------------------------------------------------
(* The timer. *)

\* nextReadyAt is the least ready time of the waiting callbacks, if any waits.
LEMMA NextReadyAtIsLeast ==
  ASSUME NEW ss, ss \in [DOMAIN ss -> CallbackState]
  PROVE  /\ NextReadyAt(ss) \in Nat \cup {None}
         /\ NextReadyAt(ss) = None <=> Waiting(ss) = {}
         /\ \A id \in Waiting(ss) : NextReadyAt(ss) <= ReadyAt(ss[id])
<1> DEFINE T == {ReadyAt(ss[id]) : id \in Waiting(ss)}
<1>1. \A id \in Waiting(ss) : ReadyAt(ss[id]) \in Nat
  <2>1. ASSUME NEW id \in Waiting(ss)
        PROVE  ReadyAt(ss[id]) \in Nat
    <3>1. ss[id].nextEnd \in Int /\ ss[id].nextAttempt \in Nat
      BY DEF Waiting, CallbackState
    <3>2. QED
      BY <3>1 DEF ReadyAt, Maximum
  <2>2. QED
    BY <2>1
<1>2. CASE Waiting(ss) = {}
  BY <1>2 DEF NextReadyAt
<1>3. CASE Waiting(ss) # {}
  <2>1. T \in SUBSET Nat /\ T # {}
    BY <1>1, <1>3
  <2>2. \E t \in T : \A u \in T : t <= u
    BY <2>1, LeastTime
  <2>3. \E t \in T : \A id \in Waiting(ss) : t <= ReadyAt(ss[id])
    BY <2>2
  <2>4. NextReadyAt(ss) = CHOOSE t \in T : \A id \in Waiting(ss) : t <= ReadyAt(ss[id])
    BY <1>3 DEF NextReadyAt
  <2>5. /\ NextReadyAt(ss) \in T
        /\ \A id \in Waiting(ss) : NextReadyAt(ss) <= ReadyAt(ss[id])
    BY <2>3, <2>4
  <2>6. None \notin Nat
    BY NoneAssumption
  <2>7. QED
    BY <1>3, <2>1, <2>5, <2>6
<1>4. QED
  BY <1>2, <1>3

----------------------------------------------------------------------------
(* The inductive invariant. *)

\* done is closed exactly when the loop has returned.
ExitedWhenStopped == stop = "stopped" <=> phase = "exited"

\* Types and the three conjuncts of the run that hold each other up: the flag
\* and the goroutine agree, the goroutine has the window of the state, and a
\* stopping scheduler has cancelled what is left.
SchedulerInv ==
  /\ TypeOK
  /\ ExitedWhenStopped
  /\ InFlightMatchesGoroutines
  /\ WindowsContiguous
  /\ StopLeavesNothingRunning

LEMMA InitEstablishes == Init => SchedulerInv
<1> SUFFICES ASSUME Init PROVE SchedulerInv
  OBVIOUS
<1>1. DOMAIN states = {} /\ DOMAIN running = {}
  BY DEF Init
<1>2. states \in [DOMAIN states -> CallbackState] /\ running \in [DOMAIN running -> Invocation]
  BY <1>1 DEF Init
<1>3. TypeOK
  BY <1>1, <1>2, TimeAssumption DEF Init, TypeOK
<1>4. QED
  BY <1>1, <1>3 DEF Init, SchedulerInv, ExitedWhenStopped, InFlightMatchesGoroutines,
                    WindowsContiguous, StopLeavesNothingRunning

\* Dispatching what is due hands each goroutine the planned window of its state.
LEMMA DispatchDuePreserves == SchedulerInv /\ DispatchDue => SchedulerInv'
<1> SUFFICES ASSUME SchedulerInv, DispatchDue PROVE SchedulerInv'
  OBVIOUS
<1> USE DEF SchedulerInv
<1>1. /\ DOMAIN states' = DOMAIN states
      /\ DOMAIN running' = DOMAIN running \cup Due
      /\ Due \subseteq DOMAIN states
  BY DEF DispatchDue, Due, Waiting
<1>2. ASSUME NEW id \in DOMAIN states
      PROVE  /\ states'[id] \in CallbackState
             /\ states'[id].lastEnd = states[id].lastEnd
             /\ states'[id].nextStart = states[id].nextStart
             /\ states'[id].nextEnd = states[id].nextEnd
             /\ states'[id].inFlight <=> (states[id].inFlight \/ id \in Due)
  <2>1. states[id] \in CallbackState
    BY DEF TypeOK
  <2>2. CASE id \in Due
    <3>1. states'[id] = [states[id] EXCEPT !.inFlight = TRUE]
      BY <2>2 DEF DispatchDue
    <3>2. QED
      BY <2>1, <2>2, <3>1 DEF CallbackState
  <2>3. CASE id \notin Due
    <3>1. states'[id] = states[id]
      BY <2>3 DEF DispatchDue
    <3>2. QED
      BY <2>1, <2>3, <3>1
  <2>4. QED
    BY <2>2, <2>3
<1>3. states' \in [DOMAIN states' -> CallbackState]
  BY <1>1, <1>2 DEF DispatchDue
<1>4. ASSUME NEW id \in Due
      PROVE  /\ running'[id] \in Invocation
             /\ running'[id].start = states[id].nextStart
             /\ running'[id].end = states[id].nextEnd
             /\ states[id].nextEnd <= now
  <2>1. states[id] \in CallbackState /\ id \in DOMAIN states
    BY <1>1 DEF TypeOK
  <2>2. running'[id] = Dispatch(states[id])
    BY <1>1 DEF DispatchDue
  <2>3. states[id].nextEnd <= now
    BY DEF Due
  <2>4. QED
    BY <2>1, <2>2, <2>3 DEF Dispatch, Invocation, CallbackState
<1>5. \A id \in DOMAIN running : id \notin Due /\ running'[id] = running[id]
  BY DEF DispatchDue, InFlightMatchesGoroutines, Due, Waiting
<1>6. running' \in [DOMAIN running' -> Invocation]
  BY <1>1, <1>4, <1>5 DEF DispatchDue, TypeOK
<1>7. TypeOK'
  BY <1>1, <1>3, <1>6, NextReadyAtIsLeast DEF DispatchDue, TypeOK
<1>8. InFlightMatchesGoroutines'
  BY <1>1, <1>2 DEF InFlightMatchesGoroutines
<1>9. WindowsContiguous'
  <2>1. now' = now
    BY DEF DispatchDue
  <2>2. \A id \in DOMAIN states : states'[id].nextStart = states'[id].lastEnd
                               /\ states'[id].nextStart < states'[id].nextEnd
    BY <1>2 DEF WindowsContiguous
  <2>3. ASSUME NEW id \in DOMAIN running'
        PROVE  /\ id \in DOMAIN states'
               /\ running'[id].start = states'[id].lastEnd
               /\ running'[id].end = states'[id].nextEnd
               /\ running'[id].end <= now'
    BY <1>1, <1>2, <1>4, <1>5, <2>1 DEF WindowsContiguous
  <2>4. QED
    BY <1>1, <2>2, <2>3 DEF WindowsContiguous
<1>10. ExitedWhenStopped' /\ StopLeavesNothingRunning'
  BY <1>1 DEF DispatchDue, ExitedWhenStopped, StopLeavesNothingRunning
<1>11. QED
  BY <1>7, <1>8, <1>9, <1>10

\* A step of the loop that changes callbacks one by one: whatever it does to
\* the maps, it is enough that flags and goroutines still agree, that each
\* state has a planned window, and that no goroutine's window moves.
LEMMA MapsPreserve ==
  ASSUME SchedulerInv,
         now' = now, stop' = stop, stop # "stopped", phase' \in {"pass", "select"},
         timer' \in Nat \cup {None}, asked' \in [Ids -> Intervals \cup {None}],
         DOMAIN states' \subseteq Ids, states' \in [DOMAIN states' -> CallbackState],
         \A i \in DOMAIN states' : Planned(states'[i]),
         running' \in [DOMAIN running' -> Invocation],
         DOMAIN running' = {i \in DOMAIN states' : states'[i].inFlight},
         DOMAIN running' \subseteq DOMAIN running,
         \A i \in DOMAIN running' :
            /\ running'[i].start = running[i].start /\ running'[i].end = running[i].end
            /\ running[i].cancelled => running'[i].cancelled
            /\ states'[i].lastEnd = states[i].lastEnd
            /\ states'[i].nextEnd = states[i].nextEnd
  PROVE  SchedulerInv'
<1> USE DEF SchedulerInv
<1>1. DOMAIN running' \subseteq Ids
  OBVIOUS
<1>2. TypeOK'
  BY <1>1 DEF TypeOK
<1>3. InFlightMatchesGoroutines'
  BY DEF InFlightMatchesGoroutines
<1>4. WindowsContiguous'
  <2>1. \A i \in DOMAIN states' : states'[i].nextStart = states'[i].lastEnd
                               /\ states'[i].nextStart < states'[i].nextEnd
    BY DEF Planned
  <2>2. ASSUME NEW i \in DOMAIN running'
        PROVE  /\ i \in DOMAIN states'
               /\ running'[i].start = states'[i].lastEnd
               /\ running'[i].end = states'[i].nextEnd
               /\ running'[i].end <= now'
    BY DEF WindowsContiguous
  <2>3. QED
    BY <2>1, <2>2 DEF WindowsContiguous
<1>5. ExitedWhenStopped' /\ StopLeavesNothingRunning'
  BY DEF ExitedWhenStopped, StopLeavesNothingRunning
<1>6. QED
  BY <1>2, <1>3, <1>4, <1>5

\* What the invariant says of one registered callback.
LEMMA StateFacts ==
  ASSUME SchedulerInv, NEW i \in DOMAIN states
  PROVE  /\ states[i] \in CallbackState /\ Planned(states[i]) /\ i \in Ids
         /\ states[i].inFlight <=> i \in DOMAIN running
  BY DEF SchedulerInv, TypeOK, WindowsContiguous, InFlightMatchesGoroutines, Planned

\* Putting a state with the right flag under one id, goroutines unchanged.
LEMMA PutPreserves ==
  ASSUME SchedulerInv, NEW id \in Ids, NEW s \in CallbackState, Planned(s),
         states' = Put(states, id, s), running' = running,
         now' = now, stop' = stop, stop # "stopped", phase' \in {"pass", "select"},
         timer' = NextReadyAt(states'), asked' \in [Ids -> Intervals \cup {None}],
         s.inFlight <=> id \in DOMAIN running,
         id \in DOMAIN running => /\ s.lastEnd = states[id].lastEnd
                                  /\ s.nextEnd = states[id].nextEnd
  PROVE  SchedulerInv'
<1>1. /\ DOMAIN states' = DOMAIN states \cup {id}
      /\ states'[id] = s
      /\ \A i \in DOMAIN states \ {id} : states'[i] = states[i]
  BY DEF Put
<1>2. \A i \in DOMAIN states' : states'[i] \in CallbackState /\ Planned(states'[i])
  BY <1>1, StateFacts
<1>3. states' \in [DOMAIN states' -> CallbackState]
  BY <1>1, <1>2 DEF Put
<1>4. timer' \in Nat \cup {None}
  BY <1>3, NextReadyAtIsLeast
<1>5. DOMAIN running \subseteq DOMAIN states /\ DOMAIN states \subseteq Ids
  BY DEF SchedulerInv, TypeOK, InFlightMatchesGoroutines
<1>6. DOMAIN running' = {i \in DOMAIN states' : states'[i].inFlight}
  BY <1>1, <1>5, StateFacts
<1>7. running' \in [DOMAIN running' -> Invocation]
  BY DEF SchedulerInv, TypeOK
<1>8. QED
  BY <1>1, <1>2, <1>3, <1>4, <1>5, <1>6, <1>7, MapsPreserve

LEMMA AddCallbackPreserves ==
  ASSUME SchedulerInv, NEW id \in Ids, NEW interval \in Intervals,
         NEW lastEnd \in LastEnds \cup {None}, AddCallback(id, interval, lastEnd)
  PROVE  SchedulerInv'
<1> USE DEF AddCallback
<1>1. asked' \in [Ids -> Intervals \cup {None}]
  BY DEF SchedulerInv, TypeOK
<1>2. now' = now /\ running' = running /\ stop' = stop /\ stop # "stopped"
      /\ phase' \in {"pass", "select"} /\ timer' = NextReadyAt(states')
  OBVIOUS
<1>3. DOMAIN running \subseteq DOMAIN states
  BY DEF SchedulerInv, InFlightMatchesGoroutines
<1>4. CASE AddNew(id, interval, lastEnd)
  <2> DEFINE le == InitialLastEnd(interval, lastEnd)
             s == NewState(interval, le)
  <2>1. le \in Int
    <3>1. now \in Int /\ interval \in Nat \ {0}
      BY IntervalsAssumption DEF SchedulerInv, TypeOK
    <3>2. NextBoundary(now, interval) \in Int
      BY <3>1, NextBoundaryBounds
    <3>3. QED
      BY <3>1, <3>2, LastEndsAssumption DEF InitialLastEnd
  <2>2. /\ states' = Put(states, id, s) /\ id \notin DOMAIN states
    BY <1>4 DEF AddNew
  <2> HIDE DEF le
  <2>3. s \in CallbackState /\ Planned(s) /\ ~s.inFlight
    BY <2>1, NewStatePlans
  <2> HIDE DEF s
  <2>4. QED
    BY <1>1, <1>2, <1>3, <2>2, <2>3, PutPreserves
<1>5. ASSUME id \in DOMAIN states
      PROVE  /\ UpdateFor(states[id], interval) \in Update
             /\ \A s : [states EXCEPT ![id] = s] = Put(states, id, s)
  <2>1. states[id].interval \in Intervals
    BY <1>5, StateFacts DEF CallbackState
  <2>2. states = [i \in DOMAIN states |-> states[i]] /\ DOMAIN states \cup {id} = DOMAIN states
    BY <1>5 DEF SchedulerInv, TypeOK
  <2>3. QED
    BY <2>1, <2>2 DEF UpdateFor, Update, Maximum, Put
<1>6. CASE AddIdle(id, interval)
  <2> DEFINE u == UpdateFor(states[id], interval)
             s == ApplyUpdate(states[id], u)
  <2>1. id \in DOMAIN states /\ ~states[id].inFlight /\ states' = [states EXCEPT ![id] = s]
    BY <1>6 DEF AddIdle
  <2>2. states' = Put(states, id, s) /\ u \in Update
    BY <1>5, <2>1
  <2> HIDE DEF u
  <2>3. s \in CallbackState /\ Planned(s) /\ ~s.inFlight /\ id \notin DOMAIN running
    BY <2>1, <2>2, StateFacts, ApplyUpdatePlans
  <2> HIDE DEF s
  <2>4. QED
    BY <1>1, <1>2, <2>2, <2>3, PutPreserves
<1>7. CASE AddInFlight(id, interval)
  <2> DEFINE u == UpdateFor(states[id], interval)
             s == [states[id] EXCEPT !.pending = u]
  <2>1. id \in DOMAIN states /\ states[id].inFlight /\ states' = [states EXCEPT ![id] = s]
    BY <1>7 DEF AddInFlight
  <2>2. states' = Put(states, id, s) /\ u \in Update
    BY <1>5, <2>1
  <2>3. states[id] \in CallbackState /\ Planned(states[id]) /\ id \in DOMAIN running
    BY <2>1, StateFacts
  <2> HIDE DEF u
  <2>4. /\ s \in CallbackState /\ s.inFlight
        /\ s.nextStart = states[id].nextStart /\ s.lastEnd = states[id].lastEnd
        /\ s.nextEnd = states[id].nextEnd
    BY <2>1, <2>2, <2>3 DEF CallbackState
  <2> HIDE DEF s
  <2>5. Planned(s)
    BY <2>3, <2>4 DEF Planned
  <2>6. QED
    BY <1>1, <1>2, <2>2, <2>3, <2>4, <2>5, PutPreserves
<1>8. QED
  BY <1>4, <1>6, <1>7

\* Cancelling contexts changes no window and no type.
LEMMA CancelKeeps ==
  ASSUME SchedulerInv, NEW ids
  PROVE  /\ DOMAIN Cancel(ids) = DOMAIN running
         /\ Cancel(ids) \in [DOMAIN running -> Invocation]
         /\ \A i \in DOMAIN running :
              /\ Cancel(ids)[i].start = running[i].start
              /\ Cancel(ids)[i].end = running[i].end
              /\ Cancel(ids)[i].outcome = running[i].outcome
              /\ running[i].cancelled \/ i \in ids => Cancel(ids)[i].cancelled
<1>1. DOMAIN Cancel(ids) = DOMAIN running
  BY DEF Cancel
<1>2. ASSUME NEW i \in DOMAIN running
      PROVE  /\ Cancel(ids)[i] \in Invocation
             /\ Cancel(ids)[i].start = running[i].start
             /\ Cancel(ids)[i].end = running[i].end
             /\ Cancel(ids)[i].outcome = running[i].outcome
             /\ running[i].cancelled \/ i \in ids => Cancel(ids)[i].cancelled
  <2>1. running[i] \in Invocation
    BY DEF SchedulerInv, TypeOK
  <2>2. CASE i \in ids
    <3>1. Cancel(ids)[i] = [running[i] EXCEPT !.cancelled = TRUE]
      BY <2>2 DEF Cancel
    <3>2. QED
      BY <2>1, <2>2, <3>1 DEF Invocation
  <2>3. CASE i \notin ids
    <3>1. Cancel(ids)[i] = running[i]
      BY <2>3 DEF Cancel
    <3>2. QED
      BY <2>1, <2>3, <3>1
  <2>4. QED
    BY <2>2, <2>3
<1>3. Cancel(ids) \in [DOMAIN running -> Invocation]
  BY <1>2 DEF Cancel
<1>4. QED
  BY <1>1, <1>2, <1>3

LEMMA RemoveCallbackPreserves ==
  ASSUME SchedulerInv, NEW id \in Ids, RemoveCallback(id)
  PROVE  SchedulerInv'
<1> USE DEF RemoveCallback
<1>1. /\ asked' \in [Ids -> Intervals \cup {None}]
      /\ now' = now /\ stop' = stop /\ stop # "stopped"
      /\ phase' \in {"pass", "select"} /\ timer' = NextReadyAt(states')
      /\ running' = Cancel({id} \cap DOMAIN states)
  BY DEF SchedulerInv, TypeOK, ExitedWhenStopped
<1>2. /\ DOMAIN running' = DOMAIN running
      /\ running' \in [DOMAIN running -> Invocation]
      /\ \A i \in DOMAIN running : /\ running'[i].start = running[i].start
                                   /\ running'[i].end = running[i].end
                                   /\ running[i].cancelled => running'[i].cancelled
  BY <1>1, CancelKeeps
<1>3. /\ DOMAIN running \subseteq DOMAIN states /\ DOMAIN states \subseteq Ids
      /\ states \in [DOMAIN states -> CallbackState]
      /\ DOMAIN running = {i \in DOMAIN states : states[i].inFlight}
  BY DEF SchedulerInv, TypeOK, InFlightMatchesGoroutines
<1>4. CASE id \notin DOMAIN states
  <2>1. states' = states
    BY <1>4
  <2>2. timer' \in Nat \cup {None}
    BY <1>1, <1>3, <2>1, NextReadyAtIsLeast
  <2>3. QED
    BY <1>1, <1>2, <1>3, <2>1, <2>2, StateFacts, MapsPreserve
<1>5. CASE id \in DOMAIN states /\ states[id].inFlight
  <2> DEFINE s == [states[id] EXCEPT !.removeAfter = TRUE]
  <2>1. states' = [states EXCEPT ![id] = s]
    BY <1>5 DEF AfterRemoval
  <2>2. states[id] \in CallbackState /\ Planned(states[id])
    BY <1>5, StateFacts
  <2>3. /\ s \in CallbackState /\ s.inFlight
        /\ s.nextStart = states[id].nextStart /\ s.lastEnd = states[id].lastEnd
        /\ s.nextEnd = states[id].nextEnd
    BY <1>5, <2>2 DEF CallbackState
  <2> HIDE DEF s
  <2>4. Planned(s)
    BY <2>2, <2>3 DEF Planned
  <2>5. /\ DOMAIN states' = DOMAIN states /\ states'[id] = s
        /\ \A i \in DOMAIN states \ {id} : states'[i] = states[i]
    BY <1>3, <1>5, <2>1
  <2>6. \A i \in DOMAIN states' : states'[i] \in CallbackState /\ Planned(states'[i])
    BY <2>3, <2>4, <2>5, StateFacts
  <2>7. states' \in [DOMAIN states' -> CallbackState]
    BY <1>3, <2>1, <2>3
  <2>8. timer' \in Nat \cup {None}
    BY <1>1, <2>7, NextReadyAtIsLeast
  <2>9. DOMAIN running' = {i \in DOMAIN states' : states'[i].inFlight}
    BY <1>2, <1>3, <1>5, <2>3, <2>5
  <2>10. QED
    BY <1>1, <1>2, <1>3, <2>3, <2>5, <2>6, <2>7, <2>8, <2>9, MapsPreserve
<1>6. CASE id \in DOMAIN states /\ ~states[id].inFlight
  <2>1. states' = Delete(states, id)
    BY <1>6 DEF AfterRemoval
  <2>2. /\ DOMAIN states' = DOMAIN states \ {id}
        /\ \A i \in DOMAIN states' : states'[i] = states[i]
    BY <2>1 DEF Delete
  <2>3. states' \in [DOMAIN states' -> CallbackState]
    BY <1>3, <2>1, <2>2 DEF Delete
  <2>4. timer' \in Nat \cup {None}
    BY <1>1, <2>3, NextReadyAtIsLeast
  <2>5. \A i \in DOMAIN states' : Planned(states'[i])
    BY <2>2, StateFacts
  <2>6. DOMAIN running' = {i \in DOMAIN states' : states'[i].inFlight}
    BY <1>2, <1>3, <1>6, <2>2
  <2>7. QED
    BY <1>1, <1>2, <1>3, <2>2, <2>3, <2>4, <2>5, <2>6, MapsPreserve
<1>7. QED
  BY <1>4, <1>5, <1>6

LEMMA HandleCompletionPreserves ==
  ASSUME SchedulerInv, NEW id \in Ids, HandleCompletion(id)
  PROVE  SchedulerInv'
<1> USE DEF HandleCompletion
<1>1. /\ asked' \in [Ids -> Intervals \cup {None}]
      /\ now' = now /\ stop' = stop /\ stop # "stopped"
      /\ phase' \in {"pass", "select"} /\ timer' = NextReadyAt(states')
      /\ running' = Delete(running, id)
  BY DEF SchedulerInv, TypeOK, ExitedWhenStopped
<1>2. /\ DOMAIN running \subseteq DOMAIN states /\ DOMAIN states \subseteq Ids
      /\ states \in [DOMAIN states -> CallbackState]
      /\ running \in [DOMAIN running -> Invocation]
      /\ DOMAIN running = {i \in DOMAIN states : states[i].inFlight}
  BY DEF SchedulerInv, TypeOK, InFlightMatchesGoroutines
<1>3. /\ DOMAIN running' = DOMAIN running \ {id}
      /\ \A i \in DOMAIN running' : running'[i] = running[i]
      /\ running' \in [DOMAIN running' -> Invocation]
  BY <1>1, <1>2 DEF Delete
<1>4. id \in DOMAIN running /\ id \in DOMAIN states /\ states[id].inFlight
  BY <1>2 DEF HandsIn
<1>5. CASE states[id].removeAfter
  <2>1. states' = Delete(states, id)
    BY <1>4, <1>5 DEF AfterCompletion
  <2>2. /\ DOMAIN states' = DOMAIN states \ {id}
        /\ \A i \in DOMAIN states' : states'[i] = states[i]
    BY <2>1 DEF Delete
  <2>3. states' \in [DOMAIN states' -> CallbackState]
    BY <1>2, <2>1, <2>2 DEF Delete
  <2>4. timer' \in Nat \cup {None}
    BY <1>1, <2>3, NextReadyAtIsLeast
  <2>5. \A i \in DOMAIN states' : Planned(states'[i])
    BY <2>2, StateFacts
  <2>6. DOMAIN running' = {i \in DOMAIN states' : states'[i].inFlight}
    BY <1>2, <1>3, <2>2
  <2>7. QED
    BY <1>1, <1>2, <1>3, <2>2, <2>3, <2>4, <2>5, <2>6, MapsPreserve
<1>6. CASE ~states[id].removeAfter
  <2> DEFINE r == [states[id] EXCEPT !.inFlight = FALSE]
             s == Completed(r, running[id])
  <2>1. states' = [states EXCEPT ![id] = s]
    BY <1>4, <1>6 DEF AfterCompletion
  <2>2. states[id] \in CallbackState /\ Planned(states[id])
    BY <1>4, StateFacts
  <2>3. /\ r \in CallbackState /\ ~r.inFlight
        /\ r.nextStart = states[id].nextStart /\ r.lastEnd = states[id].lastEnd
        /\ r.nextEnd = states[id].nextEnd
    BY <2>2 DEF CallbackState
  <2> HIDE DEF r
  <2>4. Planned(r)
    BY <2>2, <2>3 DEF Planned
  <2>5. running[id] \in Invocation /\ now \in Nat
    BY <1>2, <1>4 DEF SchedulerInv, TypeOK
  <2>6. running[id].start = r.lastEnd /\ running[id].start < running[id].end
    BY <1>4, <2>2, <2>3 DEF SchedulerInv, WindowsContiguous, Planned
  <2>7. s \in CallbackState /\ Planned(s) /\ ~s.inFlight
    BY <2>3, <2>4, <2>5, <2>6, CompletedPlans
  <2> HIDE DEF s
  <2>8. /\ DOMAIN states' = DOMAIN states /\ states'[id] = s
        /\ \A i \in DOMAIN states \ {id} : states'[i] = states[i]
    BY <1>2, <1>4, <2>1
  <2>9. \A i \in DOMAIN states' : states'[i] \in CallbackState /\ Planned(states'[i])
    BY <2>7, <2>8, StateFacts
  <2>10. states' \in [DOMAIN states' -> CallbackState]
    BY <1>2, <2>1, <2>7
  <2>11. timer' \in Nat \cup {None}
    BY <1>1, <2>10, NextReadyAtIsLeast
  <2>12. DOMAIN running' = {i \in DOMAIN states' : states'[i].inFlight}
    BY <1>2, <1>3, <2>7, <2>8
  <2>13. QED
    BY <1>1, <1>2, <1>3, <2>8, <2>9, <2>10, <2>11, <2>12, MapsPreserve
<1>7. QED
  BY <1>5, <1>6

LEMMA StopPreserves ==
  ASSUME SchedulerInv, Stop
  PROVE  SchedulerInv'
<1> USE DEF SchedulerInv, Stop
<1>1. /\ now' = now /\ states' = states /\ timer' = timer /\ asked' = asked
      /\ stop' = "stopping" /\ phase' = "pass" /\ running' = Cancel(CancelledByStop)
  OBVIOUS
<1>2. /\ DOMAIN running' = DOMAIN running
      /\ running' \in [DOMAIN running -> Invocation]
      /\ \A i \in DOMAIN running : /\ running'[i].start = running[i].start
                                   /\ running'[i].end = running[i].end
                                   /\ i \in CancelledByStop => running'[i].cancelled
  BY <1>1, CancelKeeps
<1>3. TypeOK'
  BY <1>1, <1>2 DEF TypeOK
<1>4. InFlightMatchesGoroutines' /\ ExitedWhenStopped'
  BY <1>1, <1>2 DEF InFlightMatchesGoroutines, ExitedWhenStopped
<1>5. WindowsContiguous'
  BY <1>1, <1>2 DEF WindowsContiguous
<1>6. StopLeavesNothingRunning'
  <2>1. DOMAIN running = CancelledByStop
    BY DEF InFlightMatchesGoroutines, CancelledByStop
  <2>2. QED
    BY <1>1, <1>2, <2>1 DEF StopLeavesNothingRunning
<1>7. QED
  BY <1>3, <1>4, <1>5, <1>6

LEMMA ReturnPreserves ==
  ASSUME SchedulerInv, NEW id \in Ids, NEW outcome \in Outcomes, Return(id, outcome)
  PROVE  SchedulerInv'
<1> USE DEF SchedulerInv, Return
<1> DEFINE o == IF running[id].cancelled THEN "permanent" ELSE outcome
           r == [running[id] EXCEPT !.outcome = o]
<1>1. /\ now' = now /\ states' = states /\ timer' = timer /\ asked' = asked
      /\ stop' = stop /\ phase' = phase
      /\ id \in DOMAIN running /\ running' = [running EXCEPT ![id] = r]
  OBVIOUS
<1>2. running[id] \in Invocation /\ running \in [DOMAIN running -> Invocation]
  BY <1>1 DEF TypeOK
<1>3. o \in Outcomes
  BY DEF Outcomes
<1> HIDE DEF o
<1>4. /\ r \in Invocation
      /\ r.start = running[id].start /\ r.end = running[id].end
      /\ r.cancelled = running[id].cancelled
  BY <1>2, <1>3 DEF Invocation
<1> HIDE DEF r
<1>5. /\ DOMAIN running' = DOMAIN running
      /\ running' \in [DOMAIN running -> Invocation]
      /\ \A i \in DOMAIN running : /\ running'[i].start = running[i].start
                                   /\ running'[i].end = running[i].end
                                   /\ running[i].cancelled => running'[i].cancelled
  BY <1>1, <1>2, <1>4
<1>6. TypeOK'
  BY <1>1, <1>5 DEF TypeOK
<1>7. InFlightMatchesGoroutines' /\ ExitedWhenStopped'
  BY <1>1, <1>5 DEF InFlightMatchesGoroutines, ExitedWhenStopped
<1>8. WindowsContiguous'
  BY <1>1, <1>5 DEF WindowsContiguous
<1>9. StopLeavesNothingRunning'
  BY <1>1, <1>5 DEF StopLeavesNothingRunning
<1>10. QED
  BY <1>6, <1>7, <1>8, <1>9

\* The steps that change no callback: closing done once nothing is in flight,
\* a rejected request, the timer, the clock.
LEMMA LoopStepsPreserve ==
  ASSUME SchedulerInv, Drain \/ AddRejected \/ TimerFires \/ Tick \/ UNCHANGED vars
  PROVE  SchedulerInv'
<1> USE DEF SchedulerInv
<1>1. states' = states /\ running' = running /\ asked' = asked
  BY DEF Drain, AddRejected, TimerFires, Tick, vars
<1>2. TypeOK'
  BY <1>1 DEF TypeOK, Drain, AddRejected, TimerFires, Tick, vars
<1>3. InFlightMatchesGoroutines'
  BY <1>1 DEF InFlightMatchesGoroutines
<1>4. WindowsContiguous'
  <2>1. now \in Nat /\ now <= now'
    BY DEF TypeOK, Drain, AddRejected, TimerFires, Tick, vars
  <2>2. \A i \in DOMAIN running : running[i].end \in Int
    BY DEF TypeOK, Invocation
  <2>3. now' \in Nat
    BY <1>2 DEF TypeOK
  <2>4. QED
    BY <1>1, <2>1, <2>2, <2>3 DEF WindowsContiguous
<1>5. ExitedWhenStopped'
  BY DEF ExitedWhenStopped, TypeOK, Drain, AddRejected, TimerFires, Tick, vars
<1>6. StopLeavesNothingRunning'
  <2>1. CASE Drain
    <3>1. NoInFlight => DOMAIN running = {}
      BY DEF NoInFlight, InFlightMatchesGoroutines
    <3>2. QED
      BY <1>1, <2>1, <3>1 DEF Drain, StopLeavesNothingRunning
  <2>2. CASE ~Drain
    BY <1>1, <2>2 DEF StopLeavesNothingRunning, AddRejected, TimerFires, Tick, vars
  <2>3. QED
    BY <2>1, <2>2
<1>7. QED
  BY <1>2, <1>3, <1>4, <1>5, <1>6

\* Every step keeps the invariant.
LEMMA SchedulerStep == SchedulerInv /\ [Next]_vars => SchedulerInv'
<1> SUFFICES ASSUME SchedulerInv, [Next]_vars PROVE SchedulerInv'
  OBVIOUS
<1>1. CASE DispatchDue
  BY <1>1, DispatchDuePreserves
<1>2. CASE \E id \in Ids, interval \in Intervals, lastEnd \in LastEnds \cup {None} :
             AddCallback(id, interval, lastEnd)
  BY <1>2, AddCallbackPreserves
<1>3. CASE \E id \in Ids : RemoveCallback(id)
  BY <1>3, RemoveCallbackPreserves
<1>4. CASE Stop
  BY <1>4, StopPreserves
<1>5. CASE \E id \in Ids, outcome \in Outcomes : Return(id, outcome)
  BY <1>5, ReturnPreserves
<1>6. CASE \E id \in Ids : HandleCompletion(id)
  BY <1>6, HandleCompletionPreserves
<1>7. CASE Drain \/ AddRejected \/ TimerFires \/ Tick \/ UNCHANGED vars
  BY <1>7, LoopStepsPreserve
<1>8. QED
  BY <1>1, <1>2, <1>3, <1>4, <1>5, <1>6, <1>7 DEF Next

\* The scheduler's invariant holds in every reachable state.
THEOREM SchedulerInvariant == Spec => []SchedulerInv
<1>1. QED
  BY InitEstablishes, SchedulerStep, PTL DEF Spec

\* Type correctness of the loop's state and of the goroutines' results.
THEOREM TypeCorrect == Spec => []TypeOK
<1>1. SchedulerInv => TypeOK
  BY DEF SchedulerInv
<1>2. QED
  BY <1>1, SchedulerInvariant, PTL

\* handleCompletion never meets a goroutine without a state, and noInFlight
\* tells Stop the truth: the flag is set exactly while a goroutine exists.
THEOREM InFlightFlagsAreTrue == Spec => []InFlightMatchesGoroutines
<1>1. SchedulerInv => InFlightMatchesGoroutines
  BY DEF SchedulerInv
<1>2. QED
  BY <1>1, SchedulerInvariant, PTL

\* Windows of a callback neither leave a gap nor overlap nor reach into the
\* future, whatever intervals are asked for and in whatever order results,
\* updates and removals arrive.
THEOREM NoGapNoOverlap == Spec => []WindowsContiguous
<1>1. SchedulerInv => WindowsContiguous
  BY DEF SchedulerInv
<1>2. QED
  BY <1>1, SchedulerInvariant, PTL

\* When Stop returns no callback goroutine is left.
THEOREM StopIsQuiet == Spec => []StopLeavesNothingRunning
<1>1. SchedulerInv => StopLeavesNothingRunning
  BY DEF SchedulerInv
<1>2. QED
  BY <1>1, SchedulerInvariant, PTL

----------------------------------------------------------------------------
(* The timer, removals and updates. *)

\* Whenever the loop waits, its timer is armed for the earliest callback, for
\* any number of callbacks and whatever woke it before (run, nextReadyAt).
THEOREM TimerIsEarliest == Spec => []TimerCoversEarliest
<1>1. Init => TimerCoversEarliest
  BY DEF Init, TimerCoversEarliest
<1>2. ASSUME SchedulerInv', TimerCoversEarliest, [Next]_vars
      PROVE  TimerCoversEarliest'
  <2>1. CASE DispatchDue
    <3>1. timer' = NextReadyAt(states') /\ states' \in [DOMAIN states' -> CallbackState]
      BY <1>2, <2>1 DEF DispatchDue, SchedulerInv, TypeOK
    <3>2. /\ timer' = None => Waiting(states') = {}
          /\ \A id \in Waiting(states') : timer' <= ReadyAt(states'[id])
      BY <3>1, NextReadyAtIsLeast
    <3>3. QED
      BY <3>2 DEF TimerCoversEarliest
  <2>2. CASE phase' = "pass" \/ stop' # "open"
    BY <2>2 DEF TimerCoversEarliest
  <2>3. CASE UNCHANGED <<states, phase, timer, stop>>
    BY <1>2, <2>3 DEF TimerCoversEarliest
  <2>4. QED
    BY <1>2, <2>1, <2>2, <2>3
       DEF Next, Drain, AddCallback, AddRejected, RemoveCallback, Stop, Return,
           HandleCompletion, TimerFires, Tick, vars
<1>3. QED
  BY <1>1, <1>2, SchedulerInvariant, PTL DEF Spec

\* What a request or a result does to one callback: the state and goroutine of
\* the others are as before, but for contexts that are cancelled.
Untouched(i) ==
  /\ i \in DOMAIN states /\ states'[i] = states[i] /\ asked'[i] = asked[i]
  /\ i \in DOMAIN running =>
       i \in DOMAIN running' /\ (running[i].cancelled => running'[i].cancelled)

\* All of what can touch a callback: dispatch, a request for it, its result.
LEMMA StepsTouchOne ==
  ASSUME SchedulerInv, [Next]_vars
  PROVE  \/ DispatchDue
         \/ \A i \in DOMAIN states' : Untouched(i)
         \/ \E id \in Ids :
              /\ \A i \in DOMAIN states' \ {id} : Untouched(i)
              /\ \/ \E interval \in Intervals, lastEnd \in LastEnds \cup {None} :
                      AddCallback(id, interval, lastEnd)
                 \/ RemoveCallback(id)
                 \/ HandleCompletion(id)
<1>1. asked \in [Ids -> Intervals \cup {None}] /\ DOMAIN states \subseteq Ids
      /\ states = [i \in DOMAIN states |-> states[i]]
      /\ running = [i \in DOMAIN running |-> running[i]]
  BY DEF SchedulerInv, TypeOK
<1>2. ASSUME NEW id \in Ids, NEW interval \in Intervals, NEW lastEnd \in LastEnds \cup {None},
             AddCallback(id, interval, lastEnd), NEW i \in DOMAIN states' \ {id}
      PROVE  Untouched(i)
  <2>1. asked' = [asked EXCEPT ![id] = interval] /\ running' = running
    BY <1>2 DEF AddCallback
  <2>2. i \in DOMAIN states /\ states'[i] = states[i]
    BY <1>1, <1>2 DEF AddCallback, AddNew, AddIdle, AddInFlight, Put
  <2>3. QED
    BY <1>1, <1>2, <2>1, <2>2 DEF Untouched
<1>3. ASSUME NEW id \in Ids, RemoveCallback(id), NEW i \in DOMAIN states' \ {id}
      PROVE  Untouched(i)
  <2>1. asked' = [asked EXCEPT ![id] = None] /\ running' = Cancel({id} \cap DOMAIN states)
    BY <1>3 DEF RemoveCallback
  <2>2. i \in DOMAIN states /\ states'[i] = states[i]
    BY <1>1, <1>3 DEF RemoveCallback, AfterRemoval, Delete
  <2>3. QED
    BY <1>1, <1>3, <2>1, <2>2, CancelKeeps DEF Untouched
<1>4. ASSUME NEW id \in Ids, HandleCompletion(id), NEW i \in DOMAIN states' \ {id}
      PROVE  Untouched(i)
  <2>1. asked' = asked /\ running' = Delete(running, id)
    BY <1>4 DEF HandleCompletion
  <2>2. i \in DOMAIN states /\ states'[i] = states[i]
    BY <1>1, <1>4 DEF HandleCompletion, AfterCompletion, Delete
  <2>3. QED
    BY <1>1, <1>4, <2>1, <2>2 DEF Untouched, Delete
<1>5. ASSUME Stop, NEW i \in DOMAIN states'
      PROVE  Untouched(i)
  BY <1>5, CancelKeeps DEF Stop, Untouched
<1>6. ASSUME NEW id \in Ids, NEW outcome \in Outcomes, Return(id, outcome),
             NEW i \in DOMAIN states'
      PROVE  Untouched(i)
  <2>1. states' = states /\ asked' = asked /\ DOMAIN running' = DOMAIN running
    BY <1>1, <1>6 DEF Return
  <2>2. ASSUME i \in DOMAIN running
        PROVE  running'[i].cancelled = running[i].cancelled
    <3>1. running[i] \in Invocation
      BY <2>2 DEF SchedulerInv, TypeOK
    <3>2. CASE i = id
      BY <1>1, <1>6, <2>2, <3>1, <3>2 DEF Return, Invocation
    <3>3. CASE i # id
      BY <1>1, <1>6, <2>2, <3>3 DEF Return
    <3>4. QED
      BY <3>2, <3>3
  <2>3. QED
    BY <1>6, <2>1, <2>2 DEF Untouched
<1>7. ASSUME Drain \/ AddRejected \/ TimerFires \/ Tick \/ UNCHANGED vars,
             NEW i \in DOMAIN states'
      PROVE  Untouched(i)
  BY <1>7 DEF Drain, AddRejected, TimerFires, Tick, vars, Untouched
<1>8. QED
  BY <1>2, <1>3, <1>4, <1>5, <1>6, <1>7 DEF Next

\* What a dispatch leaves of a callback's state and of the goroutines.
LEMMA DispatchTouches ==
  ASSUME SchedulerInv, DispatchDue, NEW i \in DOMAIN states'
  PROVE  /\ i \in DOMAIN states /\ asked' = asked
         /\ states'[i].interval = states[i].interval
         /\ states'[i].pending = states[i].pending
         /\ states'[i].removeAfter = states[i].removeAfter
         /\ states'[i].attempt = states[i].attempt
         /\ states'[i].nextAttempt = states[i].nextAttempt
         /\ states[i].inFlight => states'[i].inFlight
         /\ states'[i].inFlight /\ ~states[i].inFlight => states[i].nextAttempt <= now
         /\ i \in DOMAIN running => i \in DOMAIN running' /\ running'[i] = running[i]
<1>1. i \in DOMAIN states /\ asked' = asked
  BY DEF DispatchDue
<1>2. states[i] \in CallbackState /\ (states[i].inFlight <=> i \in DOMAIN running)
  BY <1>1, StateFacts
<1>3. CASE i \in Due
  <2>1. /\ states'[i] = [states[i] EXCEPT !.inFlight = TRUE] /\ ~states[i].inFlight
        /\ states[i].nextAttempt <= now
    BY <1>1, <1>3 DEF DispatchDue, Due, Waiting
  <2>2. QED
    BY <1>1, <1>2, <2>1 DEF CallbackState
<1>4. CASE i \notin Due
  <2>1. states'[i] = states[i]
    BY <1>1, <1>4 DEF DispatchDue
  <2>2. i \in DOMAIN running => i \in DOMAIN running' /\ running'[i] = running[i]
    BY <1>4 DEF DispatchDue
  <2>3. QED
    BY <1>1, <2>1, <2>2
<1>5. QED
  BY <1>3, <1>4

\* A callback that was removed last never starts again (handleRemove,
\* handleCompletion).
THEOREM RemovedIsGone == Spec => []RemovedStaysRemoved
<1>1. Init => RemovedStaysRemoved
  BY DEF Init, RemovedStaysRemoved
<1>2. ASSUME SchedulerInv, RemovedStaysRemoved, [Next]_vars, NEW i \in DOMAIN states',
             asked'[i] = None
      PROVE  /\ states'[i].inFlight /\ states'[i].removeAfter
             /\ i \in DOMAIN running' /\ running'[i].cancelled
  <2>1. CASE DispatchDue
    BY <1>2, <2>1, DispatchTouches DEF RemovedStaysRemoved
  <2>2. CASE Untouched(i)
    BY <1>2, <2>2 DEF RemovedStaysRemoved, Untouched
  <2>3. ASSUME i \in Ids, NEW interval \in Intervals, NEW lastEnd \in LastEnds \cup {None},
               AddCallback(i, interval, lastEnd)
        PROVE  FALSE
    <3>1. asked'[i] = interval
      BY <1>2, <2>3 DEF AddCallback, SchedulerInv, TypeOK
    <3>2. QED
      BY <1>2, <3>1, IntervalsAssumption, NoneAssumption
  <2>4. CASE RemoveCallback(i)
    <3>1. i \in DOMAIN states
      BY <2>4 DEF RemoveCallback
    <3>2. states[i] \in CallbackState /\ (states[i].inFlight <=> i \in DOMAIN running)
          /\ states = [j \in DOMAIN states |-> states[j]]
      BY <1>2, <3>1, StateFacts DEF SchedulerInv, TypeOK
    <3>3. states[i].inFlight
      BY <2>4, <3>1 DEF RemoveCallback, AfterRemoval, Delete
    <3>4. states'[i] = [states[i] EXCEPT !.removeAfter = TRUE]
      BY <2>4, <3>1, <3>2, <3>3 DEF RemoveCallback, AfterRemoval
    <3>5. i \in DOMAIN running' /\ running'[i].cancelled
      BY <1>2, <2>4, <3>1, <3>2, <3>3, CancelKeeps DEF RemoveCallback
    <3>6. QED
      BY <3>2, <3>3, <3>4, <3>5 DEF CallbackState
  <2>5. CASE HandleCompletion(i)
    <3>1. i \in DOMAIN states /\ asked[i] = None
      BY <1>2, <2>5 DEF HandleCompletion, HandsIn, SchedulerInv, InFlightMatchesGoroutines
    <3>2. states[i].removeAfter
      BY <1>2, <3>1 DEF RemovedStaysRemoved
    <3>3. QED
      BY <2>5, <3>1, <3>2 DEF HandleCompletion, AfterCompletion, Delete
  <2>6. QED
    BY <1>2, <2>1, <2>2, <2>3, <2>4, <2>5, StepsTouchOne
<1>3. SchedulerInv /\ RemovedStaysRemoved /\ [Next]_vars => RemovedStaysRemoved'
  BY <1>2 DEF RemovedStaysRemoved
<1>4. QED
  BY <1>1, <1>3, SchedulerInvariant, PTL DEF Spec

\* The interval in force, or the one that waits behind the invocation in
\* flight, is the one asked for last (handleAdd, handleCompletion).
THEOREM LatestUpdate == Spec => []LatestUpdateWins
<1> DEFINE Wins(s, a) ==
      \/ s.pending = None /\ s.interval = a
      \/ s.inFlight /\ s.pending # None /\ s.pending.interval = a
<1>1. Init => LatestUpdateWins
  BY DEF Init, LatestUpdateWins
<1>2. ASSUME SchedulerInv, LatestUpdateWins, [Next]_vars, NEW i \in DOMAIN states',
             asked'[i] # None
      PROVE  Wins(states'[i], asked'[i])
  <2>1. CASE DispatchDue
    BY <1>2, <2>1, DispatchTouches DEF LatestUpdateWins
  <2>2. CASE Untouched(i)
    BY <1>2, <2>2 DEF LatestUpdateWins, Untouched
  <2>3. ASSUME i \in Ids, NEW interval \in Intervals, NEW lastEnd \in LastEnds \cup {None},
               AddCallback(i, interval, lastEnd)
        PROVE  Wins(states'[i], asked'[i])
    <3>1. asked'[i] = interval
      BY <1>2, <2>3 DEF AddCallback, SchedulerInv, TypeOK
    <3>2. CASE AddNew(i, interval, lastEnd)
      <4> DEFINE le == InitialLastEnd(interval, lastEnd)
      <4>1. le \in Int
        <5>1. now \in Int /\ interval \in Nat \ {0}
          BY <1>2, IntervalsAssumption DEF SchedulerInv, TypeOK
        <5>2. NextBoundary(now, interval) \in Int
          BY <5>1, NextBoundaryBounds
        <5>3. QED
          BY <5>1, <5>2, LastEndsAssumption DEF InitialLastEnd
      <4>2. states'[i] = NewState(interval, le)
        BY <3>2 DEF AddNew, Put
      <4> HIDE DEF le
      <4>3. QED
        BY <3>1, <4>1, <4>2, NewStatePlans
    <3>3. ASSUME i \in DOMAIN states
          PROVE  /\ states[i] \in CallbackState
                 /\ UpdateFor(states[i], interval) \in Update
                 /\ UpdateFor(states[i], interval).interval = interval
                 /\ UpdateFor(states[i], interval) # None
      BY <1>2, <3>3, StateFacts, NoneAssumption DEF CallbackState, UpdateFor, Update, Maximum
    <3>4. CASE AddIdle(i, interval)
      <4>1. i \in DOMAIN states
            /\ states'[i] = ApplyUpdate(states[i], UpdateFor(states[i], interval))
        BY <1>2, <3>4 DEF AddIdle, SchedulerInv, TypeOK
      <4>2. QED
        BY <3>1, <3>3, <4>1, ApplyUpdatePlans
    <3>5. CASE AddInFlight(i, interval)
      <4>1. i \in DOMAIN states /\ states[i].inFlight
            /\ states'[i] = [states[i] EXCEPT !.pending = UpdateFor(states[i], interval)]
        BY <1>2, <3>5 DEF AddInFlight, SchedulerInv, TypeOK
      <4>2. states'[i].inFlight /\ states'[i].pending = UpdateFor(states[i], interval)
        BY <3>3, <4>1 DEF CallbackState
      <4>3. QED
        BY <3>1, <3>3, <4>1, <4>2
    <3>6. QED
      BY <2>3, <3>2, <3>4, <3>5 DEF AddCallback
  <2>4. ASSUME i \in Ids, RemoveCallback(i)
        PROVE  FALSE
    BY <1>2, <2>4 DEF RemoveCallback, SchedulerInv, TypeOK
  <2>5. CASE HandleCompletion(i)
    <3>1. /\ i \in DOMAIN states /\ i \in DOMAIN running /\ asked' = asked
          /\ states' = AfterCompletion(i) /\ now \in Nat
          /\ states = [j \in DOMAIN states |-> states[j]]
          /\ running[i] \in Invocation
      BY <1>2, <2>5 DEF HandleCompletion, HandsIn, SchedulerInv, TypeOK, InFlightMatchesGoroutines
    <3>2. ~states[i].removeAfter
      BY <3>1 DEF AfterCompletion, Delete
    <3> DEFINE r == [states[i] EXCEPT !.inFlight = FALSE]
    <3>3. states'[i] = Completed(r, running[i])
      BY <3>1, <3>2 DEF AfterCompletion
    <3>4. states[i] \in CallbackState /\ Planned(states[i])
      BY <1>2, <3>1, StateFacts
    <3>5. /\ r \in CallbackState /\ r.pending = states[i].pending /\ r.interval = states[i].interval
          /\ r.nextStart = states[i].nextStart /\ r.lastEnd = states[i].lastEnd
          /\ r.nextEnd = states[i].nextEnd
      BY <3>4 DEF CallbackState
    <3> HIDE DEF r
    <3>6. Planned(r) /\ running[i].start = r.lastEnd /\ running[i].start < running[i].end
      BY <1>2, <3>1, <3>4, <3>5 DEF SchedulerInv, WindowsContiguous, Planned
    <3>7. /\ states'[i].interval = IF r.pending # None THEN r.pending.interval ELSE r.interval
          /\ states'[i].pending = None
      BY <3>1, <3>3, <3>5, <3>6, CompletedPlans
    <3>8. Wins(states[i], asked[i])
      BY <1>2, <3>1 DEF LatestUpdateWins
    <3>9. QED
      BY <3>1, <3>5, <3>7, <3>8
  <2>6. QED
    BY <1>2, <2>1, <2>2, <2>3, <2>4, <2>5, StepsTouchOne
<1>3. SchedulerInv /\ LatestUpdateWins /\ [Next]_vars => LatestUpdateWins'
  BY <1>2 DEF LatestUpdateWins
<1>4. QED
  BY <1>1, <1>3, SchedulerInvariant, PTL DEF Spec

\* For every policy the delay of a retry is positive, no longer than the
\* interval, one hour and the limit of the policy, and no shorter than the
\* delay before it (ExponentialBackoffPolicy.Delay).
THEOREM DelaysAreBounded ==
  ASSUME NEW policy \in BackoffPolicies, NEW interval \in Nat \ {0}, NEW attempt \in Nat \ {0}
  PROVE  LET delay == Delay(policy, interval, attempt) IN
           /\ delay \in Nat \ {0}
           /\ \A limit \in Limits(policy, interval) : delay <= limit
           /\ delay <= Delay(policy, interval, attempt + 1)
<1>1. /\ Delay(policy, interval, attempt) \in 1..MaxDelay(policy, interval)
      /\ Delay(policy, interval, attempt) <= Delay(policy, interval, attempt + 1)
  BY DelayMultiplies, DelayGrows
<1>2. /\ MaxDelay(policy, interval) \in Nat
      /\ \A limit \in Limits(policy, interval) : MaxDelay(policy, interval) <= limit
  BY MaxDelayIsLeast
<1>3. Limits(policy, interval) \subseteq Nat
  BY DEF Limits, BackoffPolicies
<1>4. QED
  BY <1>1, <1>2, <1>3

\* What a completion leaves of the count of failures and of the delay: both
\* start afresh with a success or an update that waited, grow together with a
\* failure that is tried again, and stay with one that is not.
LEMMA CompletionCounts ==
  ASSUME SchedulerInv, NEW i \in DOMAIN states', HandleCompletion(i)
  PROVE  /\ i \in DOMAIN states /\ HandedIn(i) /\ ~states'[i].inFlight
         /\ StartsAfresh(i) => states'[i].attempt = 0 /\ states'[i].nextAttempt = ZeroTime
         /\ FailsAgain(i) =>
              LET a == Minimum(states[i].attempt + 1, MaxAttempt) IN
              /\ states'[i].attempt = a /\ states'[i].interval = states[i].interval
              /\ states'[i].nextAttempt = now + Delay(Backoff, states[i].interval, a)
         /\ ~StartsAfresh(i) /\ ~FailsAgain(i) =>
              /\ states'[i].attempt = states[i].attempt
              /\ states'[i].nextAttempt = states[i].nextAttempt
<1>1. /\ i \in DOMAIN states /\ i \in DOMAIN running /\ now \in Nat
      /\ states' = AfterCompletion(i) /\ running[i] \in Invocation
      /\ running[i].outcome \in Outcomes /\ running' = Delete(running, i)
      /\ states = [j \in DOMAIN states |-> states[j]]
      /\ states[i] \in CallbackState
  BY StateFacts DEF HandleCompletion, HandsIn, SchedulerInv, TypeOK, InFlightMatchesGoroutines,
                    Invocation
<1>2. /\ running[i].end \in Int /\ running[i].start = states[i].lastEnd
      /\ running[i].end = states[i].nextEnd
  BY <1>1 DEF SchedulerInv, WindowsContiguous, Invocation
<1>3. HandedIn(i)
  BY <1>1 DEF HandedIn, Delete
<1> DEFINE s == [states[i] EXCEPT !.inFlight = FALSE]
<1>4. /\ s \in CallbackState /\ s.pending = states[i].pending /\ s.interval = states[i].interval
      /\ s.attempt = states[i].attempt /\ s.nextAttempt = states[i].nextAttempt
      /\ s.lastEnd = states[i].lastEnd /\ ~s.inFlight
      /\ s.nextStart = states[i].nextStart /\ s.nextEnd = states[i].nextEnd
  BY <1>1 DEF CallbackState
<1>5. states'[i] = Completed(s, running[i])
  <2>1. ~states[i].removeAfter
    BY <1>1 DEF AfterCompletion, Delete
  <2>2. QED
    BY <1>1, <2>1 DEF AfterCompletion
<1> HIDE DEF s
<1>6. ~states'[i].inFlight
  <2>1. Planned(s) /\ running[i].start < running[i].end
    BY <1>1, <1>2, <1>4, StateFacts DEF Planned
  <2>2. QED
    BY <1>1, <1>2, <1>4, <1>5, <2>1, CompletedPlans
<1>7. ASSUME StartsAfresh(i)
      PROVE  states'[i].attempt = 0 /\ states'[i].nextAttempt = ZeroTime
  <2>1. CASE running[i].outcome = "success"
    <3> DEFINE r == [s EXCEPT !.lastEnd = running[i].end, !.attempt = 0]
    <3>1. 0 \in 0..MaxAttempt
      BY AttemptAssumption
    <3>2. r \in CallbackState /\ r.pending = s.pending /\ r.attempt = 0
      BY <1>2, <1>4, <3>1 DEF CallbackState
    <3>3. states'[i] = IF s.pending # None THEN ApplyUpdate(r, s.pending) ELSE PlanNextWindow(r)
      BY <1>5, <2>1 DEF Completed, Succeeded
    <3> HIDE DEF r
    <3>4. s.pending # None => s.pending \in Update
      BY <1>4 DEF CallbackState
    <3>5. QED
      BY <3>2, <3>3, <3>4, PlanNextWindowPlans, ApplyUpdatePlans
  <2>2. CASE running[i].outcome # "success"
    <3>1. s.pending # None /\ s.pending \in Update
      BY <1>4, <1>7, <2>2 DEF StartsAfresh, CallbackState
    <3>2. states'[i] = ApplyUpdate(s, s.pending)
      BY <1>5, <2>2, <3>1 DEF Completed
    <3>3. QED
      BY <1>4, <3>1, <3>2, ApplyUpdatePlans
  <2>3. QED
    BY <2>1, <2>2
<1>8. ASSUME FailsAgain(i)
      PROVE  LET a == Minimum(states[i].attempt + 1, MaxAttempt) IN
             /\ states'[i].attempt = a /\ states'[i].interval = states[i].interval
             /\ states'[i].nextAttempt = now + Delay(Backoff, states[i].interval, a)
  <2>1. running[i].outcome = "retry" /\ s.pending = None
    BY <1>4, <1>8 DEF FailsAgain
  <2>2. states'[i] = Retried(s, running[i])
    BY <1>5, <2>1 DEF Completed
  <2>3. QED
    BY <1>4, <2>2 DEF Retried, CallbackState, NextAttempt
<1>9. ASSUME ~StartsAfresh(i), ~FailsAgain(i)
      PROVE  /\ states'[i].attempt = states[i].attempt
             /\ states'[i].nextAttempt = states[i].nextAttempt
  <2>1. running[i].outcome = "permanent" /\ s.pending = None
    BY <1>1, <1>3, <1>4, <1>9 DEF StartsAfresh, FailsAgain, Outcomes
  <2>2. states'[i] = [s EXCEPT !.disabled = TRUE]
    BY <1>5, <2>1 DEF Completed
  <2>3. QED
    BY <1>4, <2>2 DEF CallbackState
<1>10. QED
  BY <1>1, <1>3, <1>6, <1>7, <1>8, <1>9

\* What RetriesBackOff asks of a step for one callback.
BacksOff(i) ==
  LET old == states[i]
      new == states'[i]
  IN /\ FailsAgain(i) =>
          /\ new.attempt = Minimum(old.attempt + 1, MaxAttempt)
          /\ new.nextAttempt = now + Multiplied(new.interval)[new.attempt]
     /\ StartsAfresh(i) => new.attempt = 0 /\ new.nextAttempt = ZeroTime
     /\ ~FailsAgain(i) /\ ~StartsAfresh(i) =>
          \/ new.attempt = old.attempt /\ new.nextAttempt = old.nextAttempt
          \/ new.attempt = 0 /\ new.nextAttempt = ZeroTime /\ ~old.inFlight
     /\ new.inFlight /\ ~old.inFlight => old.nextAttempt <= now

LEMMA CompletionBacksOff ==
  ASSUME SchedulerInv, NEW i \in DOMAIN states', HandleCompletion(i)
  PROVE  BacksOff(i)
<1>1. ASSUME FailsAgain(i)
      PROVE  /\ states'[i].attempt = Minimum(states[i].attempt + 1, MaxAttempt)
             /\ states'[i].nextAttempt = now + Multiplied(states'[i].interval)[states'[i].attempt]
  <2> DEFINE a == Minimum(states[i].attempt + 1, MaxAttempt)
  <2>1. /\ states'[i].attempt = a /\ states'[i].interval = states[i].interval
        /\ states'[i].nextAttempt = now + Delay(Backoff, states[i].interval, a)
    BY <1>1, CompletionCounts
  <2>2. a \in 1..MaxAttempt /\ states[i].interval \in Nat \ {0}
    <3>1. states[i].attempt \in 0..MaxAttempt /\ states[i].interval \in Intervals
      BY CompletionCounts, StateFacts DEF CallbackState
    <3>2. a \in 1..MaxAttempt
      BY <3>1, AttemptAssumption DEF Minimum
    <3> HIDE DEF a
    <3>3. states[i].interval \in Nat \ {0}
      BY <3>1, IntervalsAssumption
    <3>4. QED
      BY <3>2, <3>3
  <2> HIDE DEF a
  <2>3. Delay(Backoff, states[i].interval, a) = Multiplied(states[i].interval)[a]
    BY <2>2, DelayIsMultiplied
  <2>4. QED
    BY <2>1, <2>3 DEF a
<1>2. QED
  BY <1>1, CompletionCounts DEF BacksOff

\* A window that keeps failing is retried after delays that multiply from one
\* failure to the next up to the least limit, for every policy and interval
\* and whatever is added, removed or stopped between the failures; a success
\* or an update starts the count and the delay afresh (handleCompletion,
\* applyUpdate, planNextWindow).
THEOREM RetriesAreMultiplied == Spec => RetriesBackOff
<1>1. ASSUME SchedulerInv, [Next]_vars, NEW i \in DOMAIN states \cap DOMAIN states'
      PROVE  BacksOff(i)
  <2>1. CASE DispatchDue
    BY <1>1, <2>1, DispatchTouches DEF BacksOff, HandedIn, FailsAgain, StartsAfresh
  <2>2. CASE Untouched(i)
    BY <1>1, <2>2 DEF Untouched, BacksOff, HandedIn, FailsAgain, StartsAfresh
  <2>3. states[i] \in CallbackState /\ states = [j \in DOMAIN states |-> states[j]]
    BY <1>1, StateFacts DEF SchedulerInv, TypeOK
  <2>4. ASSUME NEW interval \in Intervals, NEW lastEnd \in LastEnds \cup {None},
               AddCallback(i, interval, lastEnd)
        PROVE  BacksOff(i)
    <3>0. ~HandedIn(i)
      BY <2>4 DEF AddCallback, HandedIn
    <3>1. UpdateFor(states[i], interval) \in Update
      BY <2>3 DEF CallbackState, UpdateFor, Update, Maximum
    <3>2. CASE AddIdle(i, interval)
      <4>1. ~states[i].inFlight /\ states'[i] = ApplyUpdate(states[i], UpdateFor(states[i], interval))
        BY <1>1, <2>3, <3>2 DEF AddIdle
      <4>2. states'[i].attempt = 0 /\ states'[i].nextAttempt = ZeroTime /\ ~states'[i].inFlight
        BY <2>3, <3>1, <4>1, ApplyUpdatePlans
      <4>3. QED
        BY <3>0, <4>1, <4>2 DEF BacksOff, FailsAgain, StartsAfresh
    <3>3. CASE AddInFlight(i, interval)
      <4>1. states'[i] = [states[i] EXCEPT !.pending = UpdateFor(states[i], interval)]
        BY <1>1, <2>3, <3>3 DEF AddInFlight
      <4>2. /\ states'[i].attempt = states[i].attempt /\ states'[i].inFlight = states[i].inFlight
            /\ states'[i].nextAttempt = states[i].nextAttempt
        BY <2>3, <4>1 DEF CallbackState
      <4>3. QED
        BY <3>0, <4>2 DEF BacksOff, FailsAgain, StartsAfresh
    <3>4. QED
      BY <1>1, <2>4, <3>2, <3>3 DEF AddCallback, AddNew
  <2>5. CASE RemoveCallback(i)
    <3>1. ~HandedIn(i)
      BY <1>1, <2>5, CancelKeeps DEF RemoveCallback, HandedIn
    <3>2. states'[i] \in {states[i], [states[i] EXCEPT !.removeAfter = TRUE]}
      BY <1>1, <2>3, <2>5 DEF RemoveCallback, AfterRemoval, Delete
    <3>3. /\ states'[i].attempt = states[i].attempt /\ states'[i].inFlight = states[i].inFlight
          /\ states'[i].nextAttempt = states[i].nextAttempt
      BY <2>3, <3>2 DEF CallbackState
    <3>4. QED
      BY <3>1, <3>3 DEF BacksOff, FailsAgain, StartsAfresh
  <2>6. CASE HandleCompletion(i)
    BY <1>1, <2>6, CompletionBacksOff
  <2>7. QED
    BY <1>1, <2>1, <2>2, <2>4, <2>5, <2>6, StepsTouchOne
<1>2. SchedulerInv /\ [Next]_vars =>
        [\A id \in DOMAIN states \cap DOMAIN states' : BacksOff(id)]_vars
  BY <1>1
<1>3. QED
  BY <1>2, SchedulerInvariant, PTL DEF Spec, RetriesBackOff, BacksOff

=============================================================================
