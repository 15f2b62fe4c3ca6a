-------------------------- MODULE PublishedReferences --------------------------
(***************************************************************************)
(* What the analysis and the user rely on of the reference models of one   *)
(* indicator: a list of versions, newest last, all built from chunks of    *)
(* the generation in force.  A publication is one event that adds one      *)
(* build interval, a change of the generation one event that drops all.    *)
(***************************************************************************)
EXTENDS Naturals, Sequences

CONSTANTS Intervals, Retained

VARIABLES
  active,    \* the generation in force
  versions   \* the versions kept, oldest first

Init == active = 1 /\ versions = <<>>

Supersede ==
  /\ active' = active + 1
  /\ versions' = <<>>

\* Each interval once; the oldest version makes room for the newest.
Publish(interval) ==
  /\ \A v \in DOMAIN versions : versions[v].interval # interval
  /\ LET all == Append(versions, [interval |-> interval, generation |-> active])
     IN versions' = IF Len(versions) = Retained THEN Tail(all) ELSE all
  /\ UNCHANGED active

Next == Supersede \/ \E interval \in Intervals : Publish(interval)

ReferencesSpec == Init /\ [][Next]_<<active, versions>>

=============================================================================
