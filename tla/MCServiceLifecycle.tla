-------------------------- MODULE MCServiceLifecycle --------------------------
(* Instance of ServiceLifecycle for TLC.  Two requests may be served at the  *)
(* same time while nothing but a live collection is in hand; one at a time   *)
(* meets recovery, builds and analyses as well.                              *)
EXTENDS ServiceLifecycle

CONSTANTS raw, plain

\* One writing of the configuration is rendered as the other.
MCRendered == [config \in Configs |-> plain]

Overlap == \E r, o \in Requests : r # o /\ Idle \notin {handler[r], handler[o]}

Begins(r) == handler[r] = Idle /\ handler'[r] # Idle

Collected == {goroutine[g].window : g \in {h \in Goroutines : At(h, "collect")}}

\* Windows open or in hand, invocations in flight, and analyses.
InHand ==
  Cardinality(backlog \cup Collected) + Len(queue) + history
    + Cardinality({k \in Callbacks : flight[k] # None})
    + (IF analysing = None THEN 0 ELSE 1)

\* Nothing is in hand but a live collection, and a goroutine that looks.
OnlyLive ==
  /\ backlog = {} /\ queue = <<>> /\ history = 0 /\ analysing = None
  /\ flight["build"] = None
  /\ goroutine \in [Goroutines -> {None, Started}]
  /\ Cardinality({g \in Goroutines : goroutine[g] # None}) <= 1

\* No more than two things are in hand, and nothing new is begun while the
\* schedule is astray.  Request 2 begins beside request 1 only (requests differ
\* in name alone) and while nothing is astray.  What this forbids goes on once
\* something in hand has ended, or one of the two requests has been answered.
Bound ==
  /\ InHand' <= InHand \/ (~astray /\ InHand' <= 2)
  /\ Overlap' => OnlyLive'
  /\ \A r \in Requests : Begins(r) =>
       IF r = 1 THEN \A o \in Requests \ {1} : handler[o] = Idle
                ELSE handler[1] # Idle /\ ~astray

MCNext == Next /\ Bound

MCSpec == Init /\ [][MCNext]_vars /\ Fairness

\* All but the alerts, which no action and none of the properties of this run
\* but the type invariant look at.
View == <<row, created, handler, scheduling, work, astray, lost>>

=============================================================================
