------------------------------ MODULE ImportJobs ------------------------------
(***************************************************************************)
(* A historical import: the job of cmd/weewoo-server/monitoring.go in the  *)
(* memory of each server process and in table historical_import_job        *)
(* (import_store.go), the goroutine that collects window by window         *)
(* (Import in internal/collection/collector.go), builds the reference and  *)
(* reports; its heartbeat; cancelling; and servers that end and start,     *)
(* side by side or one after the other.  The analyses of an import go      *)
(* through the AnalysisQueue of its server.                                *)
(*                                                                         *)
(* A server is one process, with an owner id of its own.  One unit of time *)
(* is the interval of the heartbeat.                                       *)
(***************************************************************************)
EXTENDS AnalysisQueue

CONSTANTS
  Servers,   \* processes
  Windows,   \* windows of the range to import
  Timeout,   \* age of a heartbeat that is stale
  MaxLost,   \* bound on the writes of a job that fail
  MaxTime,   \* bound on the clock
  None       \* no row, no job, no owner, no check

ASSUME ServersAssumption == None \notin Servers
ASSUME NumbersAssumption ==
  Windows \in Nat /\ Timeout \in Nat /\ MaxLost \in Nat /\ MaxTime \in Nat

VARIABLES
  now,        \* the clock
  phase,      \* of each server
  row,        \* the job in the table, or None
  memory,     \* the job in the memory of each server, or None
  task,       \* the goroutine of the import
  cancelled,  \* its context is done
  due,        \* its heartbeat's ticker has fired
  lost,       \* writes that have failed so far
  checked,    \* history: when a server looked at a job it loaded, or None
  handed      \* history: the analyses that the import has queued

importVars == <<now, phase, row, memory, task, cancelled, due, lost, checked, handed>>
vars == <<importVars, queueVars>>

----------------------------------------------------------------------------

Running == {"queued", "running", "building"}
Complete == {"complete", "complete_with_gaps"}
Final == Complete \cup {"failed", "cancelled"}

Job ==
  [state : Running \cup Final, owner : Servers \cup {None}, beat : Nat,
   imported : 0..Windows, gaps : 0..Windows]

ASSUME NoneAssumption == None \notin Job

\* The analyses of a window.
Indicators == 2

\* window is the one in hand, submitted its analyses queued so far, failed
\* whether Import returned an error.
Steps == {"none", "begin", "window", "submit", "collected", "summary",
          "finish", "building", "build", "complete", "ended"}

Task ==
  [server : Servers \cup {None}, step : Steps, window : 1..(Windows + 1),
   submitted : 0..Indicators, imported : 0..Windows, gaps : 0..Windows, failed : BOOLEAN]

NoTask ==
  [server |-> None, step |-> "none", window |-> 1, submitted |-> 0,
   imported |-> 0, gaps |-> 0, failed |-> FALSE]

Gone == [NoTask EXCEPT !.step = "ended"]

Init ==
  /\ now = 0
  /\ phase = [s \in Servers |-> "down"]
  /\ row = None /\ memory = [s \in Servers |-> None]
  /\ task = NoTask /\ cancelled = FALSE /\ due = FALSE
  /\ lost = 0 /\ checked = [s \in Servers |-> None] /\ handed = 0
  /\ QueueInit

Up(s) == phase[s] = "up"

\* A server that has begun to import; the goroutine has not ended.
Importing == task.server # None

Unfinished == Importing /\ task.step # "ended"

Collecting == Importing /\ task.step \in {"begin", "window", "submit", "collected"}

----------------------------------------------------------------------------
(* The table. *)

\* Mutant: an update names the job but not its owner.
OwnedByAny(job) == row # None

\* The WHERE clause of update: the owner in the row is the one of the job.
OwnedBy(job) == row # None /\ row.owner = job.owner

\* persist: the job changes in memory, and in the table unless the statement
\* fails or the row is no longer owned, which is logged.
Store(job) ==
  /\ memory' = [memory EXCEPT ![task.server] = job]
  /\ \/ row' = (IF OwnedBy(job) THEN job ELSE row) /\ lost' = lost
     \/ lost < MaxLost /\ lost' = lost + 1 /\ row' = row

Mine == memory[task.server]

----------------------------------------------------------------------------
(* Servers. *)

\* newImportManager reads the table.
Load(s) ==
  /\ phase[s] = "down"
  /\ phase' = [phase EXCEPT ![s] = "loading"]
  /\ memory' = [memory EXCEPT ![s] = row]
  /\ UNCHANGED <<now, row, task, cancelled, due, lost, checked, handed, queueVars>>

\* Mutant: a job that was building is not looked at.
InterruptibleBeforeBuild(job) == job.state \in Running \ {"building"}

Interruptible(job) == job.state \in Running

\* heartbeat_at < cutoff.  Beats and looks fall somewhere between two ticks of
\* the clock, so a beat that is Timeout ticks back may be on either side.
Stale(job) == job.beat + Timeout < now

SeemsStale(job) == job.beat + Timeout <= now

\* markInterruptedIfStale: the row as it is now; then the server is up.
MarkStale(s) ==
  /\ phase[s] = "loading"
  /\ memory[s] # None /\ Interruptible(memory[s])
  /\ phase' = [phase EXCEPT ![s] = "up"]
  /\ \/ /\ checked' = [checked EXCEPT ![s] = now]
        /\ \/ /\ row.state \in Running /\ SeemsStale(row)
              /\ row' = [row EXCEPT !.state = "failed", !.owner = None]
              /\ memory' = [memory EXCEPT ![s].state = "failed"]
           \/ ~(row.state \in Running /\ Stale(row)) /\ UNCHANGED <<row, memory>>
        /\ UNCHANGED lost
     \/ /\ lost < MaxLost /\ lost' = lost + 1
        /\ UNCHANGED <<row, memory, checked>>
  /\ UNCHANGED <<now, task, cancelled, due, handed, queueVars>>

NothingToMark(s) ==
  /\ phase[s] = "loading"
  /\ memory[s] # None => ~Interruptible(memory[s])
  /\ phase' = [phase EXCEPT ![s] = "up"]
  /\ checked' = [checked EXCEPT ![s] = IF memory[s] = None THEN None ELSE now]
  /\ UNCHANGED <<now, row, memory, task, cancelled, due, lost, handed, queueVars>>

\* The process ends, at any moment, with what it holds in memory; nothing
\* cancels its imports first.
End(s) ==
  /\ phase[s] \in {"loading", "up"}
  /\ phase' = [phase EXCEPT ![s] = "ended"]
  /\ memory' = [memory EXCEPT ![s] = None]
  /\ IF task.server = s
       THEN task' = Gone /\ due' = FALSE /\ QueueGone
       ELSE UNCHANGED <<task, due, queueVars>>
  /\ UNCHANGED <<now, row, cancelled, lost, checked, handed>>

----------------------------------------------------------------------------
(* Requests. *)

\* start: the row is inserted first; the goroutine and its heartbeat follow.
Start(s) ==
  /\ Up(s) /\ row = None /\ task = NoTask
  /\ LET job == [state |-> "queued", owner |-> s, beat |-> now, imported |-> 0, gaps |-> 0]
     IN row' = job /\ memory' = [memory EXCEPT ![s] = job]
  /\ task' = [NoTask EXCEPT !.server = s, !.step = "begin"]
  /\ UNCHANGED <<now, phase, cancelled, due, lost, checked, handed, queueVars>>

\* Mutant: a job can be cancelled until it is final.
CancellableWhileRunning(job) == job.state \in Running

Cancellable(job) == job.state \in {"queued", "running"}

\* cancel, on the server that runs the job; a job that was loaded from the
\* table has no function to call.
Cancel ==
  /\ Importing /\ ~cancelled /\ Cancellable(Mine)
  /\ cancelled' = TRUE
  /\ UNCHANGED <<now, phase, row, memory, task, due, lost, checked, handed, queueVars>>

----------------------------------------------------------------------------
(* The goroutine of the import. *)

At(step) == Unfinished /\ task.step = step

To(step) == task' = [task EXCEPT !.step = step]

EndTask == task' = [Gone EXCEPT !.server = task.server]

Return(failed) == task' = [task EXCEPT !.step = "summary", !.failed = failed]

\* Steps that do not write the job, and steps that do.
Quiet == UNCHANGED <<now, phase, row, memory, cancelled, due, lost, checked>>

Writes == UNCHANGED <<now, phase, cancelled, due, checked, handed, queueVars>>

Begin ==
  /\ At("begin")
  /\ Store([Mine EXCEPT !.state = "running", !.beat = now])
  /\ To("window") /\ Writes

\* Import: the next window, or the end of the range.  Process looks at the
\* context before and after the collection.
ImportReturns ==
  /\ At("window")
  /\ \/ task.window > Windows /\ Return(FALSE)
     \/ task.window <= Windows /\ cancelled /\ Return(TRUE)
  /\ Quiet /\ UNCHANGED <<handed, queueVars>>

\* collectSamples: the chunks are written, the window has no metrics, or an
\* error ends the import.
CollectWindow ==
  /\ At("window") /\ task.window <= Windows /\ ~cancelled
  /\ \/ task' = [task EXCEPT !.step = "submit", !.submitted = 0]
     \/ task' = [task EXCEPT !.step = "collected", !.submitted = 0]
     \/ Return(TRUE)
  /\ Quiet /\ UNCHANGED <<handed, queueVars>>

\* SubmitContext for the analysis of each indicator.
SubmitContext ==
  /\ At("submit") /\ Enqueue
  /\ handed' = handed + 1
  /\ task' = [task EXCEPT !.step = IF task.submitted + 1 = Indicators THEN "collected" ELSE "submit",
                          !.submitted = @ + 1]
  /\ Quiet

SubmitEnds ==
  /\ At("submit") /\ (cancelled \/ Refused)
  /\ Return(TRUE)
  /\ Quiet /\ UNCHANGED <<handed, queueVars>>

WindowCancelled ==
  /\ At("collected") /\ cancelled
  /\ Return(TRUE)
  /\ Quiet /\ UNCHANGED <<handed, queueVars>>

Counted(result) == [Mine EXCEPT !.imported = result.imported, !.gaps = result.gaps]

\* The window counts as imported or as a gap, and the handler is told.
UpdateProgress ==
  /\ At("collected") /\ ~cancelled
  /\ LET next == [task EXCEPT !.step = "window", !.window = @ + 1]
         result == IF task.submitted = Indicators
                     THEN [next EXCEPT !.imported = @ + 1]
                     ELSE [next EXCEPT !.gaps = @ + 1]
     IN task' = result /\ Store(Counted(result))
  /\ Writes

UpdateSummary ==
  /\ At("summary")
  /\ Store(Counted(task))
  /\ To(IF task.failed THEN "finish" ELSE "building")
  /\ Writes

\* An error of Import: the context tells a cancelled import from a failed one.
FinishFailed ==
  /\ At("finish")
  /\ Store([Mine EXCEPT !.state = IF cancelled THEN "cancelled" ELSE "failed"])
  /\ EndTask /\ Writes

StartBuild ==
  /\ At("building")
  /\ Store([Mine EXCEPT !.state = "building", !.beat = now])
  /\ To("build") /\ Writes

\* BuildServiceECDFs: its first statement fails if the context is done.
Build ==
  /\ At("build")
  /\ \/ ~cancelled /\ To("complete") /\ UNCHANGED <<row, memory, lost>>
     \/ Store([Mine EXCEPT !.state = "failed"]) /\ EndTask
  /\ Writes

FinishComplete ==
  /\ At("complete")
  /\ Store([Mine EXCEPT !.state =
              IF task.gaps > 0 THEN "complete_with_gaps" ELSE "complete"])
  /\ EndTask /\ Writes

----------------------------------------------------------------------------
(* The heartbeat and the clock. *)

\* Mutant: the heartbeat ends with the collection.
BeatsWhileCollecting == Unfinished /\ ~cancelled /\ task.step \notin {"building", "build"}

\* The goroutine of the heartbeat runs until the context is done.
Beats == Unfinished /\ ~cancelled

\* A tick and the end of the context may be ready together.
Heartbeat ==
  /\ Importing /\ due
  /\ due' = FALSE
  /\ Store([Mine EXCEPT !.beat = now])
  /\ UNCHANGED <<now, phase, task, cancelled, checked, handed, queueVars>>

\* A heartbeat that is due comes before the next one.
Tick ==
  /\ now < MaxTime /\ ~(Beats /\ due)
  /\ now' = now + 1
  /\ due' = Beats
  /\ UNCHANGED <<phase, row, memory, task, cancelled, lost, checked, handed, queueVars>>

\* The worker, the live collections and the end of the worker of the server,
\* while the import needs the queue.
Analysis == Collecting /\ Work /\ UNCHANGED importVars

LiveRequest == Collecting /\ Submit /\ UNCHANGED importVars

Shutdown == Collecting /\ StopWorker /\ UNCHANGED importVars

Import ==
  \/ Begin \/ ImportReturns \/ CollectWindow \/ SubmitContext \/ SubmitEnds
  \/ WindowCancelled \/ UpdateProgress \/ UpdateSummary \/ FinishFailed
  \/ StartBuild \/ Build \/ FinishComplete

Next ==
  \/ \E s \in Servers :
       Load(s) \/ MarkStale(s) \/ NothingToMark(s) \/ End(s) \/ Start(s)
  \/ Cancel
  \/ Import
  \/ Heartbeat \/ Tick
  \/ Analysis \/ LiveRequest \/ Shutdown

Spec == Init /\ [][Next]_vars

\* The queries of a window are out.
Querying == At("window") /\ task.window <= Windows /\ ~cancelled

\* A case that is ready again and again at the second select is picked: Go
\* chooses at random.
HistoryPicked == Analysis /\ worker = "second" /\ historyJobs' < historyJobs

\* The goroutines run, and builds and analyses have deadlines.  A query has
\* none: the context of an import is context.WithCancel(context.Background())
\* (start) and the Prometheus client has no timeout, so nothing is assumed of
\* CollectWindow; once the import is cancelled its query returns.
Fairness ==
  /\ WF_vars(~Querying /\ Import)
  /\ WF_vars(Analysis)
  /\ SF_vars(HistoryPicked)

FairSpec == Spec /\ Fairness

----------------------------------------------------------------------------
(* Properties. *)

TypeOK ==
  /\ now \in Nat
  /\ phase \in [Servers -> {"down", "loading", "up", "ended"}]
  /\ row \in Job \cup {None}
  /\ memory \in [Servers -> Job \cup {None}]
  /\ task \in Task
  /\ cancelled \in BOOLEAN /\ due \in BOOLEAN
  /\ lost \in Nat /\ checked \in [Servers -> Nat \cup {None}] /\ handed \in Nat
  /\ QueueTypeOK

\* A job that has ended in the table keeps its end: a server that was too slow
\* and has been declared interrupted never overwrites that, whatever it still
\* does, and no late heartbeat or progress revives a job.
FinishedStaysFinished ==
  [][row # None /\ row.state \in Final => row'.state = row.state]_vars

\* A server that starts beside the one that imports does not interrupt the
\* import, through all its states, also when a heartbeat was not written.
\* (An import that was cancelled has no heartbeat any more while its last
\* query returns and it reports, and may be declared interrupted meanwhile.)
LiveImportIsNotInterrupted ==
  row # None /\ row.owner = None => cancelled \/ ~Unfinished

\* Once a server is up it shows the import of a process that ended as running
\* only if that had a heartbeat within the timeout before the server looked
\* (or the job has ended since).
StaleImportIsInterrupted ==
  \A s \in Servers :
    (/\ Up(s) /\ checked[s] # None /\ memory[s] # None
     /\ memory[s].state \in Running /\ memory[s].owner # s)
      => (row.state \in Final \/ row.beat + Timeout >= checked[s])

\* A job ends as complete only if it was not cancelled and each of its windows
\* was either collected, with both analyses queued, or counted as a gap, and it
\* says which: whatever raced with the end of the import.
CompleteImportIsWhole ==
  \A job \in {row} \cup {memory[s] : s \in Servers} :
    job # None => (job.state \in Complete =>
      /\ ~cancelled
      /\ job.imported + job.gaps = Windows
      /\ handed = Indicators * job.imported
      /\ (job.state = "complete_with_gaps") = (job.gaps > 0))

\* The worker goes from one live analysis to the next for ever: its first
\* select always finds one.
LiveWorkForEver == <>[](worker \in {"first", "busy"}) /\ []<>(worker = "busy")

\* A cancelled import ends, wherever the cancelling finds it: in a query, with
\* its analyses waiting for room, or building.  So does one that nobody
\* cancels, through all its windows, unless one query waits for Prometheus for
\* ever or the worker never gets to historical analyses: the queue makes room,
\* or refuses when the worker stops.
ImportEnds ==
  /\ (Unfinished /\ cancelled) ~> ~Unfinished
  /\ (Unfinished ~> ~Unfinished) \/ <>[]Querying \/ LiveWorkForEver

=============================================================================
