---------------------------- MODULE MCAlertOutbox ----------------------------
(* Instances of AlertOutbox for TLC. *)
EXTENDS AlertOutbox

MCOne == {"latency"}

=============================================================================
