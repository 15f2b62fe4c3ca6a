---------------------------- MODULE RecoveryQueue ----------------------------
(***************************************************************************)
(* Collection of one service: the live windows that the scheduler hands to *)
(* the callback of collector.go, the table collection_backlog of those     *)
(* that failed, and the goroutines of recovery.go that collect them again. *)
(*                                                                         *)
(* Windows are numbered by their start.  A step is one statement or        *)
(* transaction on the database, one collection, or one turn of a select;   *)
(* the program may crash between any two, and any statement may fail.      *)
(***************************************************************************)
EXTENDS Naturals

CONSTANTS
  MaxWindow,    \* bound on the windows that fall due
  Workers       \* bound on the recovery goroutines alive at a time

ASSUME MaxWindowAssumption == MaxWindow \in Nat

None == 0
ASSUME WorkersAssumption == None \notin Workers

VARIABLES
  backlog,      \* table collection_backlog, by window
  chunks,       \* windows with the chunks of both indicators in time_chunk
  firing,       \* whether the alert on failed collection is firing
  gaps,         \* gaps reported by RecordMonitoringFailure
  scheduled,    \* the callback in the scheduler; "ending": removed in flight
  window,       \* the window the scheduler hands out next, or has in flight
  live,         \* where the callback is
  passed,       \* windows the scheduler has moved past on a success
  target,       \* the goroutine of q.targets[service.Id], or None
  workers,      \* the goroutines of q.run
  cancelled     \* q.ctx is done

tables == <<backlog, chunks, firing, gaps>>
schedule == <<scheduled, window, live, passed>>
queue == <<target, workers, cancelled>>
vars == <<tables, schedule, queue>>

----------------------------------------------------------------------------
Windows == 1..MaxWindow

Row ==
  [state : {"absent", "pending", "collecting", "recovered", "expired"},
   ready : BOOLEAN,      \* next_attempt_at is reached
   old   : BOOLEAN]      \* expires_at is reached

NoRow == [state |-> "absent", ready |-> FALSE, old |-> FALSE]

Steps ==
  {"off", "read", "resolve", "mark", "collect", "recovered", "failed",
   "record", "expire", "gap", "wait"}

Worker == [step : Steps, window : Windows \cup {None}, stopped : BOOLEAN]

Off == [step |-> "off", window |-> None, stopped |-> FALSE]

Init ==
  /\ backlog = [w \in Windows |-> NoRow]
  /\ chunks = {} /\ firing = FALSE /\ gaps = {}
  /\ scheduled = "off" /\ window = 1 /\ live = "idle" /\ passed = {}
  /\ target = None /\ workers = [k \in Workers |-> Off] /\ cancelled = FALSE

Open(w) == backlog[w].state \in {"pending", "collecting"}

----------------------------------------------------------------------------
(* The service is scheduled and unscheduled; the queue is stopped. *)

\* Schedule: Register, then AddCallback.  A callback that is being removed in
\* flight takes the new one with it (see IntervalScheduler).
Schedule ==
  /\ ~cancelled
  /\ \/ target # None /\ UNCHANGED <<target, workers>>
     \/ \E k \in Workers :
          /\ target = None /\ workers[k].step = "off"
          /\ target' = k
          /\ workers' = [workers EXCEPT ![k] = [Off EXCEPT !.step = "read"]]
  /\ scheduled' = IF scheduled = "off" THEN "on" ELSE scheduled
  /\ UNCHANGED <<tables, window, live, passed, cancelled>>

\* Mutant: the goroutine is forgotten without being told.
Forgotten == workers

Stopped == [workers EXCEPT ![target].stopped = TRUE]

InFlight == live \in {"collecting", "collected", "failed"}

\* The schedule, when it starts again, starts from now: a window that was
\* begun is not handed out again.
Dropped ==
  /\ live' = "idle"
  /\ window' = IF live = "idle" THEN window ELSE window + 1

\* Unschedule: RemoveCallback, then Unregister.
Unschedule ==
  /\ ~cancelled /\ target # None
  /\ IF InFlight
       THEN /\ scheduled' = IF scheduled = "on" THEN "ending" ELSE scheduled
            /\ UNCHANGED <<window, live>>
       ELSE scheduled' = "off" /\ Dropped
  /\ target' = None
  /\ workers' = Stopped
  /\ UNCHANGED <<tables, passed, cancelled>>

\* Stop, at the end of the program: live collection is stopped after it.
Stop ==
  /\ ~cancelled
  /\ cancelled' = TRUE
  /\ UNCHANGED <<tables, schedule, target, workers>>

\* The program ends, or is killed, and starts again from its tables.
Restart ==
  /\ scheduled' = "off" /\ Dropped
  /\ target' = None /\ workers' = [k \in Workers |-> Off] /\ cancelled' = FALSE
  /\ UNCHANGED <<tables, passed>>

----------------------------------------------------------------------------
(* The live callback of a window. *)

StartLive ==
  /\ scheduled = "on" /\ ~InFlight /\ window \in Windows
  /\ live' = "collecting"
  /\ UNCHANGED <<tables, scheduled, window, passed, queue>>

CollectLive(ok) ==
  /\ live = "collecting"
  /\ chunks' = IF ok THEN chunks \cup {window} ELSE chunks
  /\ live' = IF ok THEN "collected" ELSE "failed"
  /\ UNCHANGED <<backlog, firing, gaps, scheduled, window, passed, queue>>

\* IntervalSuccess: the scheduler moves past the window, unless the callback
\* was removed meanwhile.
Succeed ==
  /\ live' = "idle" /\ window' = window + 1
  /\ passed' = IF scheduled = "on" THEN passed \cup {window} ELSE passed
  /\ scheduled' = IF scheduled = "ending" THEN "off" ELSE scheduled

\* IntervalRetry: the same window again, or none when removed.
Retry ==
  /\ IF scheduled = "ending" THEN scheduled' = "off" /\ Dropped
       ELSE live' = "retry" /\ UNCHANGED <<scheduled, window>>
  /\ UNCHANGED passed

\* An error is logged.
ResolveLive(ok) ==
  /\ live = "collected"
  /\ firing' = (firing /\ ~ok)
  /\ Succeed
  /\ UNCHANGED <<backlog, chunks, gaps, queue>>

\* INSERT ... ON CONFLICT DO UPDATE: expires_at stays that of the first.
Enqueued(w) == [state |-> "pending", ready |-> FALSE, old |-> backlog[w].old]

\* Mutant: an error of the transaction is logged and the window let go.
SettledAnyhow(answered) == Succeed

SettledBy(answered) == IF answered THEN Succeed ELSE Retry

\* One transaction for the row and the alert.  It commits, fails, or commits
\* with the answer lost.
EnqueueFailure(committed, answered) ==
  /\ live = "failed"
  /\ answered => committed
  /\ backlog' = IF committed THEN [backlog EXCEPT ![window] = Enqueued(window)] ELSE backlog
  /\ firing' = (firing \/ committed)
  /\ SettledBy(answered)
  /\ UNCHANGED <<chunks, gaps, queue>>

----------------------------------------------------------------------------
(* A goroutine of the queue: processOne, and the select of run. *)

At(k, step) == workers[k].step = step

\* Only from "mark" to the end of the pass is a row in hand.
Turned(k, step, w) == [workers EXCEPT ![k].step = step, ![k].window = w]

To(k, step) ==
  workers' = Turned(k, step, IF step \in {"read", "wait", "resolve"} THEN None
                                                                    ELSE workers[k].window)

\* A statement under q.ctx: none succeeds once the queue is stopped.
Statement(ok) == ok => ~cancelled

\* Mutant: a row left in state collecting is taken to be somebody else's.
SelectedPending(w) == backlog[w].state = "pending"

\* SELECT ... WHERE state IN ('pending','collecting')
Selected(w) == Open(w)

\* ORDER BY window_start LIMIT 1
Oldest(w) == Selected(w) /\ \A v \in Windows : Selected(v) => w <= v

\* The window has reached its expiry, is not ready, or is collected.
StepFor(row) ==
  CASE row.old -> "expire"
    [] ~row.old /\ ~row.ready -> "wait"
    [] OTHER -> "mark"

\* Mutant: with nothing in the backlog the goroutine only waits.
EmptyWaits == "wait"

\* sql.ErrNoRows: the alert on failed collection is resolved, then the wait.
EmptyStep == "resolve"

Read(k) ==
  /\ At(k, "read") /\ ~cancelled
  /\ \/ \E w \in Windows :
          /\ Oldest(w)
          /\ IF StepFor(backlog[w]) = "wait" THEN To(k, "wait")
               ELSE workers' = Turned(k, StepFor(backlog[w]), w)
     \/ (\A w \in Windows : ~Selected(w)) /\ To(k, EmptyStep)
  /\ UNCHANGED <<tables, schedule, target, cancelled>>

ReadFails(k) ==
  /\ At(k, "read")
  /\ To(k, "wait")
  /\ UNCHANGED <<tables, schedule, target, cancelled>>

ResolveCollection(k, ok) ==
  /\ At(k, "resolve") /\ Statement(ok)
  /\ firing' = (firing /\ ~ok)
  /\ To(k, "wait")
  /\ UNCHANGED <<backlog, chunks, gaps, schedule, target, cancelled>>

Update(w, state) == backlog' = [backlog EXCEPT ![w].state = state]

\* An error is logged and the window collected all the same.
MarkCollecting(k, ok) ==
  /\ At(k, "mark") /\ Statement(ok)
  /\ IF ok THEN Update(workers[k].window, "collecting") ELSE UNCHANGED backlog
  /\ To(k, "collect")
  /\ UNCHANGED <<chunks, firing, gaps, schedule, target, cancelled>>

\* The chunks are written and the analyses queued, or either fails;
\* a pass of a queue that was stopped meanwhile ends here.
CollectWindow(k, written, submitted) ==
  /\ At(k, "collect")
  /\ submitted => written
  /\ chunks' = IF written THEN chunks \cup {workers[k].window} ELSE chunks
  /\ To(k, CASE cancelled -> "wait"
             [] ~cancelled /\ submitted -> "recovered"
             [] OTHER -> "failed")
  /\ UNCHANGED <<backlog, firing, gaps, schedule, target, cancelled>>

MarkRecovered(k, ok) ==
  /\ At(k, "recovered") /\ Statement(ok)
  /\ IF ok THEN Update(workers[k].window, "recovered") ELSE UNCHANGED backlog
  /\ To(k, IF ok THEN "read" ELSE "wait")
  /\ UNCHANGED <<chunks, firing, gaps, schedule, target, cancelled>>

Reschedule(k, ok) ==
  /\ At(k, "failed") /\ Statement(ok)
  /\ backlog' = IF ok THEN [backlog EXCEPT ![workers[k].window].state = "pending",
                                           ![workers[k].window].ready = FALSE]
                ELSE backlog
  /\ To(k, IF ok THEN "record" ELSE "wait")
  /\ UNCHANGED <<chunks, firing, gaps, schedule, target, cancelled>>

RecordCollectionFailure(k, ok) ==
  /\ At(k, "record") /\ Statement(ok)
  /\ firing' = (firing \/ ok)
  /\ To(k, "wait")
  /\ UNCHANGED <<backlog, chunks, gaps, schedule, target, cancelled>>

\* Whether the update fails or not, the gap is reported.
ExpireWindow(k, ok) ==
  /\ At(k, "expire") /\ Statement(ok)
  /\ IF ok THEN Update(workers[k].window, "expired") ELSE UNCHANGED backlog
  /\ To(k, "gap")
  /\ UNCHANGED <<chunks, firing, gaps, schedule, target, cancelled>>

\* RecordMonitoringFailure, then InterruptAnomalies (see AlertOutbox): errors
\* of both are ignored.
RecordGap(k, ok) ==
  /\ At(k, "gap") /\ Statement(ok)
  /\ gaps' = IF ok THEN gaps \cup {workers[k].window} ELSE gaps
  /\ To(k, "read")
  /\ UNCHANGED <<backlog, chunks, firing, schedule, target, cancelled>>

\* The timer, or a signal, which may come at any time.
WakeUp(k) ==
  /\ At(k, "wait") /\ To(k, "read")
  /\ UNCHANGED <<tables, schedule, target, cancelled>>

\* Mutant: the select of run has no case for the end of the queue.
EndsOnStopOnly(k) == workers[k].stopped

Ends(k) == workers[k].stopped \/ cancelled

Return(k) ==
  /\ At(k, "wait") /\ Ends(k)
  /\ workers' = [workers EXCEPT ![k] = Off]
  /\ UNCHANGED <<tables, schedule, target, cancelled>>

Process(k) ==
  \/ Read(k) \/ ReadFails(k) \/ WakeUp(k) \/ Return(k)
  \/ \E ok \in BOOLEAN :
       \/ ResolveCollection(k, ok) \/ MarkCollecting(k, ok) \/ MarkRecovered(k, ok)
       \/ Reschedule(k, ok) \/ RecordCollectionFailure(k, ok)
       \/ ExpireWindow(k, ok) \/ RecordGap(k, ok)
  \/ \E written, submitted \in BOOLEAN : CollectWindow(k, written, submitted)

----------------------------------------------------------------------------
(* Time. *)

Ripen(w) ==
  /\ Open(w) /\ ~backlog[w].ready
  /\ backlog' = [backlog EXCEPT ![w].ready = TRUE]
  /\ UNCHANGED <<chunks, firing, gaps, schedule, queue>>

Age(w) ==
  /\ backlog[w].state # "absent" /\ ~backlog[w].old
  /\ backlog' = [backlog EXCEPT ![w].old = TRUE]
  /\ UNCHANGED <<chunks, firing, gaps, schedule, queue>>

CollectAlive ==
  \/ StartLive
  \/ \E ok \in BOOLEAN : CollectLive(ok) \/ ResolveLive(ok)
  \/ \E committed, answered \in BOOLEAN : EnqueueFailure(committed, answered)

Next ==
  \/ Schedule \/ Unschedule \/ Stop \/ Restart
  \/ CollectAlive
  \/ \E k \in Workers : Process(k)
  \/ \E w \in Windows : Ripen(w) \/ Age(w)

Spec == Init /\ [][Next]_vars

\* Goroutines run and collections end; a window expires; the select of a
\* goroutine, turned again and again, takes each of its cases at some time.
Fairness ==
  /\ \A k \in Workers : WF_vars(Process(k)) /\ SF_vars(Return(k))
  /\ \A w \in Windows : WF_vars(Age(w))

FairSpec == Spec /\ Fairness

----------------------------------------------------------------------------
(* Properties. *)

TypeOK ==
  /\ backlog \in [Windows -> Row]
  /\ chunks \subseteq Windows /\ gaps \subseteq Windows
  /\ firing \in BOOLEAN /\ cancelled \in BOOLEAN
  /\ scheduled \in {"off", "on", "ending"}
  /\ window \in 1..(MaxWindow + 1)
  /\ live \in {"idle", "retry", "collecting", "collected", "failed"}
  /\ passed \subseteq Windows
  /\ target \in Workers \cup {None}
  /\ workers \in [Workers -> Worker]

\* A window that the scheduler moved past, or that was put in the backlog, is
\* collected, waits in the backlog, or has expired: none gets lost between
\* the scheduler, the backlog and the chunks (collector.go, EnqueueFailure,
\* processOne), whatever fails or crashes in between.
NoWindowLost ==
  \A w \in Windows :
    w \in passed \/ backlog[w].state # "absent" =>
      w \in chunks \/ Open(w) \/ backlog[w].state = "expired"

Alive(k) == workers[k].step # "off"

\* Register and Unregister keep one goroutine in charge of the service: every
\* other one that still runs has been told to stop, and that one runs.
OneWorkerInCharge ==
  /\ \A k \in Workers : Alive(k) /\ ~workers[k].stopped => k = target
  /\ target # None /\ ~cancelled => Alive(target) /\ ~workers[target].stopped

Tracked == target # None /\ ~cancelled

\* A statement without which the queue cannot go on fails, and the step is no
\* other one as well.
Fault ==
  \/ \E k \in Workers :
       /\ ~cancelled
       /\ \/ ReadFails(k) /\ ~Read(k)
          \/ ResolveCollection(k, FALSE) /\ ~ResolveCollection(k, TRUE)
          \/ ExpireWindow(k, FALSE) /\ ~ExpireWindow(k, TRUE)
  \/ \E committed \in BOOLEAN : EnqueueFailure(committed, FALSE)

Healthy == <>[][~Fault]_vars

\* While the service stays registered, no window stays in the backlog: each is
\* recovered or expires (processOne).
BacklogIsSettled ==
  Healthy => \A w \in Windows : []<>(~Tracked \/ ~Open(w))

\* While the service stays registered and no live collection fails, the alert
\* on failed collection does not stay (processOne, ResolveCollection).
CollectionAlertEnds ==
  Healthy => []<>(~Tracked \/ live = "failed" \/ ~firing)

\* A goroutine that was told to stop, and every one once the queue is
\* stopped, returns: Stop, which waits for them, ends (run, Stop).
WorkersReturn ==
  Healthy => \A k \in Workers : []<>~(Alive(k) /\ (workers[k].stopped \/ cancelled))

\* A window whose chunks are persisted is not put back for another attempt.
PersistedIsNotRetried ==
  \A k \in Workers : At(k, "failed") => workers[k].window \notin chunks

=============================================================================
