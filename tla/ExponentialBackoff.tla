------------------------- MODULE ExponentialBackoff -------------------------
(***************************************************************************)
(* ExponentialBackoffPolicy.Delay of internal/collection/intervals.go, in  *)
(* seconds.  A policy is a record of initial, multiplier and max, each     *)
(* zero when unset.  The scheduler asks for attempt 1, 2, 3, ... until a   *)
(* success or an update resets it.                                         *)
(***************************************************************************)
EXTENDS Integers

BackoffPolicies == [initial : Nat, multiplier : Nat, max : Nat]

MaxBackoffDelay == 3600

OrDefault(value, default) == IF value = 0 THEN default ELSE value

Minimum(a, b) == IF a <= b THEN a ELSE b

MaxDelay(policy, interval) ==
  LET max == IF policy.max = 0 \/ policy.max > MaxBackoffDelay
               THEN MaxBackoffDelay ELSE policy.max
  IN IF interval > 0 /\ interval < max THEN interval ELSE max

\* math.Pow, for a natural exponent.
Power(base, exponent) ==
  LET p[n \in 0..exponent] == IF n = 0 THEN 1 ELSE base * p[n - 1]
  IN p[exponent]

Delay(policy, interval, attempt) ==
  LET initial    == OrDefault(policy.initial, 1)
      multiplier == OrDefault(policy.multiplier, 2)
  IN IF attempt <= 1
       THEN Minimum(initial, MaxDelay(policy, interval))
       ELSE Minimum(initial * Power(multiplier, attempt - 1), MaxDelay(policy, interval))

=============================================================================
