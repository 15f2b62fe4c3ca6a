---------------------------- MODULE AnalysisQueue ----------------------------
(***************************************************************************)
(* The queue of the analysis worker, internal/collection/                  *)
(* analyzer_worker.go: two bounded channels, one goroutine that prefers    *)
(* live requests, Submit that never waits, SubmitContext that waits for    *)
(* room, and Stop, which abandons what is queued.  Requests are counted;   *)
(* what an analysis does is in ReferencePublication and AlertOutbox.       *)
(***************************************************************************)
EXTENDS Naturals

CONSTANT Capacity  \* of each channel

ASSUME CapacityAssumption == Capacity \in Nat \ {0}

VARIABLES
  liveJobs,     \* requests in the live channel
  historyJobs,  \* requests in the channel of historical ones
  worker,       \* the goroutine: at its first or second select, busy, or done
  stopping,     \* its context is cancelled
  overtaken     \* history: historical requests taken while a live one waited

queueVars == <<liveJobs, historyJobs, worker, stopping, overtaken>>

QueueTypeOK ==
  /\ liveJobs \in 0..Capacity
  /\ historyJobs \in 0..Capacity
  /\ worker \in {"first", "second", "busy", "done"}
  /\ stopping \in BOOLEAN
  /\ overtaken \in Nat

QueueInit ==
  /\ liveJobs = 0 /\ historyJobs = 0
  /\ worker = "first" /\ stopping = FALSE /\ overtaken = 0

\* The process ends.
QueueGone ==
  /\ liveJobs' = 0 /\ historyJobs' = 0
  /\ worker' = "done" /\ stopping' = TRUE /\ overtaken' = 0

\* A live request; the collector only logs that the channel is full.
Submit ==
  /\ worker # "done"
  /\ liveJobs < Capacity
  /\ liveJobs' = liveJobs + 1
  /\ UNCHANGED <<historyJobs, worker, stopping, overtaken>>

\* Mutant: the queue has no bound.
EnqueueAlways ==
  /\ historyJobs' = historyJobs + 1
  /\ UNCHANGED <<liveJobs, worker, stopping, overtaken>>

\* SubmitContext has found room, also when the worker is done.
Enqueue ==
  /\ historyJobs < Capacity
  /\ historyJobs' = historyJobs + 1
  /\ UNCHANGED <<liveJobs, worker, stopping, overtaken>>

\* ErrAnalyzerStopped.
Refused == worker = "done"

TakeLive ==
  /\ liveJobs > 0
  /\ liveJobs' = liveJobs - 1
  /\ worker' = "busy" /\ overtaken' = 0
  /\ UNCHANGED <<historyJobs, stopping>>

TakeHistory ==
  /\ historyJobs > 0
  /\ historyJobs' = historyJobs - 1
  /\ worker' = "busy"
  /\ overtaken' = IF liveJobs > 0 THEN overtaken + 1 ELSE overtaken
  /\ UNCHANGED <<liveJobs, stopping>>

Exit ==
  /\ stopping
  /\ worker' = "done"
  /\ UNCHANGED <<liveJobs, historyJobs, stopping, overtaken>>

\* Mutant: the goroutine has the second select only.
FirstSelectOfBoth == worker = "first" /\ (TakeLive \/ TakeHistory \/ Exit)

\* Cases that are ready are picked at random; none is ready: go on.
FirstSelect ==
  /\ worker = "first"
  /\ \/ TakeLive \/ Exit
     \/ /\ liveJobs = 0 /\ ~stopping
        /\ worker' = "second"
        /\ UNCHANGED <<liveJobs, historyJobs, stopping, overtaken>>

\* Mutant: the second select repeats the first.
SecondSelectOfLive == worker = "second" /\ (TakeLive \/ Exit)

SecondSelect == worker = "second" /\ (TakeLive \/ TakeHistory \/ Exit)

\* analyze returns: its deadlines and the context bound it.
Analysed ==
  /\ worker = "busy"
  /\ worker' = "first"
  /\ UNCHANGED <<liveJobs, historyJobs, stopping, overtaken>>

Work == FirstSelect \/ SecondSelect \/ Analysed

StopWorker ==
  /\ ~stopping
  /\ stopping' = TRUE
  /\ UNCHANGED <<liveJobs, historyJobs, worker, overtaken>>

\* A live request waits for at most one historical analysis that is taken
\* after it was queued: a backlog of history, or an import, never keeps live
\* chunks from being analysed (the comment in run).
HistoryOvertakesOnce == overtaken <= 1

=============================================================================
