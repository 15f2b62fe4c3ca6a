---------------------------- MODULE MCImportJobs ----------------------------
(***************************************************************************)
(* An instance of ImportJobs for TLC: a first server that imports, and a   *)
(* second one that starts when it has.                                     *)
(***************************************************************************)
EXTENDS ImportJobs

CONSTANT First

\* Bounds: who imports and when the second server starts; when live requests
\* and the end of the worker come; and when the database fails.
SecondServer ==
  \A s \in Servers \ {First} :
    /\ phase'[s] # "ended"
    /\ phase'[s] # "down" => row # None /\ now >= Timeout

Arrivals ==
  /\ liveJobs' > liveJobs => now = 0
  /\ stopping' # stopping => task' = Gone \/ (now = 0 /\ historyJobs = Capacity)

Failures == lost' > lost => now = 1

Bound == SecondServer /\ Arrivals /\ Failures

MCNext == Next /\ Bound

MCSpec == Init /\ [][MCNext]_vars /\ Fairness

=============================================================================
