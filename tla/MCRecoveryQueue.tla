--------------------------- MODULE MCRecoveryQueue ---------------------------
(* Instance of RecoveryQueue for TLC: two windows for the first goroutine    *)
(* while the queue is up; and, as long as a single window has fallen due, a  *)
(* second goroutine, so that one that has been told to stop may run beside   *)
(* the one in charge, and the end of the queue.                              *)
EXTENDS RecoveryQueue

MCWorkers == {1, 2}

SingleWindow == window = 1 \/ (window = 2 /\ live = "idle")

TwoWindowsBound == Alive(2) \/ cancelled => SingleWindow

\* The bound forbids some StartLive, Schedule and Stop, none of them fair.
MCNext == Next /\ TwoWindowsBound'

MCSpec == Init /\ [][MCNext]_vars /\ Fairness

=============================================================================
