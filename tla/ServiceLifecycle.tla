--------------------------- MODULE ServiceLifecycle ---------------------------
(***************************************************************************)
(* The life of one service: the handlers of cmd/weewoo-server/             *)
(* api_services.go, each of which changes the row of the service           *)
(* (internal/config/database.go) and then, call by call, the scheduler,    *)
(* the recovery queue and the alerts; the restart in main.go; and the work *)
(* on the service that is in hand meanwhile: a live collection, an attempt *)
(* of the recovery queue, and analyses queued and under way.               *)
(*                                                                         *)
(* Handlers run concurrently, without a lock per service.  A step is one   *)
(* transaction, or one call on the scheduler or the queue.                 *)
(***************************************************************************)
EXTENDS Naturals, Sequences, FiniteSets

CONSTANTS
  Requests,      \* requests that may be served at the same time
  Configs,       \* what a material edit changes, as written: URL, queries, interval
  Rendered,      \* what ReadService makes of it: the URL parsed and rendered again
  Goroutines,    \* goroutines of the recovery queue that may be alive at once
  MaxRevision,   \* bound on the revisions of the service
  MaxFailures,   \* bound on the windows that ever enter the backlog
  QueueCapacity, \* of each channel of the analysis queue
  Faults,        \* whether the process may end, statements fail, answers get lost
  None           \* no row, nothing scheduled, nothing in hand

Revisions == 1..MaxRevision

Windows == 1..MaxFailures

Version ==
  [revision : Revisions, generation : Revisions, paused : BOOLEAN, config : Configs]

\* The scheduler's callbacks of the service: its collection, and the builder.
Callbacks == {"collect", "build"}

\* An invocation: the generation of the service its callback was added with, and
\* whether its context is cancelled.
InFlight == [generation : Revisions, cancelled : BOOLEAN]

\* The service of the recovery queue, and the goroutine that works for it.
Target == [service : Version, goroutine : Goroutines]

\* A goroutine looks at the backlog, collects the window it has in hand, or
\* waits in its select.
Goroutine == [place : {"look", "wait"}, window : {0}] \cup
             [place : {"collect"}, window : Windows]

ASSUME BoundsAssumption ==
  /\ MaxRevision \in Nat \ {0} /\ MaxFailures \in Nat /\ QueueCapacity \in Nat
  /\ Goroutines # {}
ASSUME RenderedAssumption == Rendered \in [Configs -> Configs]
ASSUME FaultsAssumption == Faults \in BOOLEAN
ASSUME NoneAssumption ==
  None \notin Version \cup InFlight \cup Target \cup Goroutine

VARIABLES
  row,         \* the row of table service, or None
  created,     \* whether the service has been created
  handler,     \* what each request is doing
  target,      \* the entry of the service in the recovery queue, or None
  callback,    \* scheduler: the service each callback was added with, or None
  flight,      \* scheduler: the invocation in flight of each callback, or None
  removing,    \* scheduler: the callbacks whose removeAfter is set
  goroutine,   \* the goroutines of the recovery queue, or None
  backlog,     \* the open windows of table collection_backlog
  failed,      \* how many windows have ever entered it
  queue,       \* the generations of the live analyses queued
  history,     \* how many historical analyses are queued
  analysing,   \* the analysis under way, or None
  firing,      \* the conditions of the service with a firing alert
  astray,      \* history: calls of handlers overlapped, or were never made
  lost         \* history: the callbacks added again in flight of a removal

scheduling == <<target, callback>>
analyses == <<queue, history, analysing>>
work == <<flight, removing, goroutine, backlog, failed, analyses>>
vars == <<row, created, handler, scheduling, work, firing, astray, lost>>

\* A row that is to be collected, and what main schedules of it at a start.
Active == row # None /\ ~row.paused

Wanted == IF Active THEN row ELSE None

----------------------------------------------------------------------------
(* Handlers. *)

Kinds == {"pause", "resume", "edit", "reset", "delete"}

\* The calls a handler makes once its change is committed.
Effects == {"Register", "AddCollect", "AddBuild",
            "Unregister", "RemoveCollect", "RemoveBuild", "CloseService"}

\* base is the service as ReadService returned it, expected the revision the
\* change must meet, config what is to be written, saved what was committed.
Handler ==
  [step : {"idle"}] \cup
  [step : {"commit"}, kind : Kinds, base : Version, expected : Revisions, config : Configs] \cup
  [step : {"apply"}, saved : Version, todo : Seq(Effects)]

Idle == [step |-> "idle"]

Become(r, next) == handler' = [handler EXCEPT ![r] = next]

Applying(r) == handler[r].step = "apply"

Quiescent == \A r \in Requests : handler[r].step = "idle"

\* liveServiceTracker.Schedule and Unschedule, call by call.
Schedule == <<"Register", "AddCollect", "AddBuild">>

\* Mutant: the recovery queue keeps a service that is paused or deleted.
UnscheduleCallbacks == <<"RemoveCollect", "RemoveBuild">>

Unschedule == <<"RemoveCollect", "Unregister", "RemoveBuild">>

NoGoroutines == [g \in Goroutines |-> None]

Init ==
  /\ row = None /\ created = FALSE
  /\ handler = [r \in Requests |-> Idle]
  /\ target = None
  /\ callback = [k \in Callbacks |-> None] /\ flight = [k \in Callbacks |-> None]
  /\ removing = {} /\ lost = {}
  /\ goroutine = NoGoroutines
  /\ backlog = {} /\ failed = 0
  /\ queue = <<>> /\ history = 0 /\ analysing = None
  /\ firing = {} /\ astray = FALSE

SetsSchedule(todo) == \E i \in DOMAIN todo : todo[i] # "CloseService"

\* From here on r applies what it committed.  A handler that sets the schedule
\* while no other one does makes up for what went astray before.
Commit(r, saved, todo) ==
  /\ Become(r, IF todo = <<>> THEN Idle
               ELSE [step |-> "apply", saved |-> saved, todo |-> todo])
  /\ astray' = IF SetsSchedule(todo)
                 THEN \E o \in Requests \ {r} : Applying(o) /\ SetsSchedule(handler[o].todo)
                 ELSE astray

\* The change is committed and its answer lost: the handler reports an error and
\* makes none of its calls.
LoseAnswer(r) ==
  /\ Faults
  /\ Become(r, Idle)
  /\ astray' = (astray \/ Wanted' # Wanted)

Committed(r, saved, todo) ==
  /\ Commit(r, saved, todo) \/ LoseAnswer(r)
  /\ UNCHANGED <<scheduling, work, firing, lost>>

\* A request that ends without a change.
Refuse(r) ==
  /\ Become(r, Idle)
  /\ UNCHANGED <<row, scheduling, work, firing, astray, lost>>

\* POST /services: WriteService inserts the row as the client wrote it.
Create(r, config) ==
  /\ ~created /\ handler[r] = Idle
  /\ created' = TRUE
  /\ row' = [revision |-> 1, generation |-> 1, paused |-> FALSE, config |-> config]
  /\ Committed(r, row', Schedule)

\* ReadService: the row, with its URL rendered.
Presented(service) == [service EXCEPT !.config = Rendered[service.config]]

\* The other handlers start with it (no row: not found).  An edit writes the
\* configuration of its client, who may name the revision seen, at most the
\* present one; the others write what they read.  A reset reads the service once
\* more before the transaction; a change between the two ends in the conflict.
Read(r, kind, config, expected) ==
  /\ row # None /\ handler[r] = Idle
  /\ expected <= row.revision
  /\ kind # "edit" => expected = row.revision /\ config = Rendered[row.config]
  /\ Become(r, [step |-> "commit", kind |-> kind, base |-> Presented(row),
                expected |-> expected, config |-> config])
  /\ UNCHANGED <<row, created, scheduling, work, firing, astray, lost>>

\* What h writes: the whole service, as it read it but for what was asked.
PausedOf(h) ==
  IF h.kind \in {"pause", "resume"} THEN h.kind = "pause" ELSE h.base.paused

\* The stored configuration is compared with the one to be written.
Material(h) == h.kind = "reset" \/ h.config # row.config

Saved(h) ==
  [revision   |-> row.revision + 1,
   generation |-> IF Material(h) THEN row.generation + 1 ELSE row.generation,
   paused     |-> PausedOf(h),
   config     |-> h.config]

\* Mutant: an edit or a reset schedules the service whether it is paused or not.
FollowsAlways(h, saved) ==
  CASE h.kind = "pause"  -> Append(Unschedule, "CloseService")
    [] h.kind = "resume" -> Schedule
    [] h.kind = "reset"  -> <<"CloseService">> \o Schedule
    [] h.kind = "edit"   -> Schedule

\* The calls that follow the transaction.
Follows(h, saved) ==
  LET reschedule == IF saved.paused THEN <<>> ELSE Schedule IN
  CASE h.kind = "pause"  -> Append(Unschedule, "CloseService")
    [] h.kind = "resume" -> Schedule
    [] h.kind = "reset"  -> <<"CloseService">> \o reschedule
    [] h.kind = "edit"   -> IF saved.generation # h.base.generation
                              THEN <<"CloseService">> \o reschedule
                              ELSE reschedule

\* Mutant: the transaction does not compare revisions.
AnyRevision(h) == row # None

Expected(h) == row # None /\ row.revision = h.expected

\* updateService: one transaction; a conflict or a missing row ends the request,
\* as an error does that leaves the row as it is.
UpdateService(r) ==
  LET h == handler[r] IN
    /\ h.step = "commit" /\ h.kind # "delete"
    /\ \/ /\ Expected(h) /\ row.revision < MaxRevision
          /\ row' = Saved(h)
          /\ Committed(r, row', Follows(h, row'))
       \/ (~Expected(h) \/ Faults) /\ Refuse(r)
    /\ UNCHANGED created

\* DELETE /services: of whatever revision; nothing to delete is not found.
DeleteService(r) ==
  LET h == handler[r] IN
    /\ h.step = "commit" /\ h.kind = "delete"
    /\ \/ /\ row # None
          /\ row' = None
          /\ Committed(r, h.base, Append(Unschedule, "CloseService"))
       \/ (row = None \/ Faults) /\ Refuse(r)
    /\ UNCHANGED created

----------------------------------------------------------------------------
(* The calls of a handler on the scheduler, the recovery queue, the alerts. *)

\* r makes its next call; after the last one it answers the request.
Makes(r, effect) ==
  /\ Applying(r) /\ Head(handler[r].todo) = effect
  /\ LET rest == Tail(handler[r].todo)
     IN Become(r, IF rest = <<>> THEN Idle ELSE [handler[r] EXCEPT !.todo = rest])
  /\ UNCHANGED <<row, created, backlog, failed, analyses, astray>>

Started == [place |-> "look", window |-> 0]

\* A goroutine is started for a service the queue does not have (the least of
\* the free ones); the target it has is given the new service.
Register(r) ==
  /\ Makes(r, "Register")
  /\ IF target # None
       THEN /\ target' = [target EXCEPT !.service = handler[r].saved]
            /\ UNCHANGED goroutine
       ELSE LET free == {g \in Goroutines : goroutine[g] = None}
                new  == CHOOSE g \in free : TRUE
            IN /\ free # {}
               /\ target' = [service |-> handler[r].saved, goroutine |-> new]
               /\ goroutine' = [goroutine EXCEPT ![new] = Started]
  /\ UNCHANGED <<callback, flight, removing, firing, lost>>

\* The entry goes and the stop channel of its goroutine is closed: which the
\* goroutine looks at when it waits, not before.
Unregister(r) ==
  /\ Makes(r, "Unregister")
  /\ target' = None
  /\ UNCHANGED <<callback, flight, removing, goroutine, firing, lost>>

AddOf    == [collect |-> "AddCollect", build |-> "AddBuild"]
RemoveOf == [collect |-> "RemoveCollect", build |-> "RemoveBuild"]

\* AddCallback: an update of a callback in flight waits behind it; behind a
\* removal in flight it is accepted and lost (IntervalScheduler).
AddCallback(r, k) ==
  /\ Makes(r, AddOf[k])
  /\ callback' = [callback EXCEPT ![k] = handler[r].saved]
  /\ lost' = (lost \ {k}) \cup (removing \cap {k})
  /\ UNCHANGED <<target, flight, removing, goroutine, firing>>

\* RemoveCallback: cancels what is in flight and does not wait for it.
RemoveCallback(r, k) ==
  /\ Makes(r, RemoveOf[k])
  /\ callback' = [callback EXCEPT ![k] = None]
  /\ IF flight[k] = None
       THEN UNCHANGED <<flight, removing>>
       ELSE /\ flight' = [flight EXCEPT ![k].cancelled = TRUE]
            /\ removing' = removing \cup {k}
  /\ lost' = lost \ {k}
  /\ UNCHANGED <<target, goroutine, firing>>

\* CloseService resolves every firing alert; the handlers ignore its error.
CloseService(r, ok) ==
  /\ Makes(r, "CloseService")
  /\ ok \/ Faults
  /\ firing' = IF ok THEN {} ELSE firing
  /\ UNCHANGED <<scheduling, flight, removing, goroutine, lost>>

----------------------------------------------------------------------------
(* The scheduler's invocations. *)

\* Mutant: a full queue takes one more.
SubmitAlways(generation) == queue' = Append(queue, generation)

\* Submit of a live analysis drops the request when the queue is full.
Submit(generation) ==
  queue' = IF Len(queue) < QueueCapacity THEN Append(queue, generation) ELSE queue

\* A callback falls due; the builder's does so at once when it is added.
Start(k) ==
  /\ callback[k] # None /\ flight[k] = None
  /\ flight' = [flight EXCEPT ![k] = [generation |-> callback[k].generation,
                                      cancelled  |-> FALSE]]
  /\ UNCHANGED <<row, created, handler, scheduling, removing, goroutine, backlog,
                 failed, analyses, firing, astray, lost>>

\* The loop takes the completion: the callback goes with a removal in flight.
Returns(k) ==
  /\ flight[k] # None
  /\ flight' = [flight EXCEPT ![k] = None]
  /\ removing' = removing \ {k}
  /\ callback' = IF k \in removing THEN [callback EXCEPT ![k] = None] ELSE callback
  /\ UNCHANGED <<row, created, handler, target, goroutine, history, analysing,
                 astray, lost>>

live == flight["collect"]

\* Chunks and analyses do not look at the context, the resolution does.
CollectLive ==
  /\ Returns("collect")
  /\ Submit(live.generation)
  /\ firing' = IF live.cancelled THEN firing ELSE firing \ {"collection"}
  /\ UNCHANGED <<backlog, failed>>

\* EnqueueFailure: row and alert in one transaction on the callback's context.
FailLive(enqueued) ==
  /\ Returns("collect")
  /\ IF enqueued
       THEN /\ ~live.cancelled /\ failed < MaxFailures
            /\ failed' = failed + 1 /\ backlog' = backlog \cup {failed'}
            /\ firing' = firing \cup {"collection"}
       ELSE /\ live.cancelled \/ Faults
            /\ UNCHANGED <<backlog, failed, firing>>
  /\ UNCHANGED queue

Live == CollectLive \/ \E enqueued \in BOOLEAN : FailLive(enqueued)

Build == Returns("build") /\ UNCHANGED <<backlog, failed, queue, firing>>

----------------------------------------------------------------------------
(* The goroutines of the recovery queue, registered or not. *)

\* Only the backlog tells a goroutine what to do; Recover says when it returns.
At(g, place) == goroutine[g] # None /\ goroutine[g].place = place

Goes(g, place, window) ==
  /\ goroutine' = [goroutine EXCEPT ![g] = [place |-> place, window |-> window]]
  /\ UNCHANGED <<row, created, handler, scheduling, flight, removing, failed, queue,
                 analysing, astray, lost>>

\* Nothing is open: the alert is resolved, but for an error that is ignored.
NothingOpen(g, ok) ==
  /\ At(g, "look") /\ backlog = {}
  /\ ok \/ Faults
  /\ Goes(g, "wait", 0)
  /\ firing' = IF ok THEN firing \ {"collection"} ELSE firing
  /\ UNCHANGED <<backlog, history>>

\* processOne takes the oldest open window: it is due, it waits for its next
\* attempt, or its retention is over.
Oldest(w) == w \in backlog /\ \A o \in backlog : w <= o

TakeWindow(g) ==
  /\ At(g, "look")
  /\ \E w \in Windows : Oldest(w) /\ Goes(g, "collect", w)
  /\ UNCHANGED <<backlog, history, firing>>

Defer(g) ==
  /\ At(g, "look") /\ backlog # {}
  /\ Goes(g, "wait", 0)
  /\ UNCHANGED <<backlog, history, firing>>

Expire(g) ==
  /\ At(g, "look")
  /\ \E w \in Windows : Oldest(w) /\ backlog' = backlog \ {w}
  /\ Goes(g, "look", 0)
  /\ firing' = (firing \ {"anomaly"}) \cup {"gap"}
  /\ UNCHANGED history

\* SubmitContext waits for room; the next window is taken at once.
Recover(g) ==
  /\ At(g, "collect") /\ history < QueueCapacity
  /\ history' = history + 1
  /\ \/ backlog' = backlog \ {goroutine[g].window} /\ Goes(g, "look", 0)
     \/ Faults /\ backlog' = backlog /\ Goes(g, "wait", 0)
  /\ UNCHANGED firing

\* The row is put back by its id, whatever became of it meanwhile.
FailRecovery(g) ==
  /\ At(g, "collect")
  /\ backlog' = backlog \cup {goroutine[g].window}
  /\ Goes(g, "wait", 0)
  /\ firing' = firing \cup {"collection"}
  /\ UNCHANGED history

\* The timer, or a wake of Register and EnqueueFailure.
WakeUp(g) ==
  /\ At(g, "wait")
  /\ Goes(g, "look", 0)
  /\ UNCHANGED <<backlog, history, firing>>

\* The goroutine is no longer that of the target.
Stopped(g) == IF target = None THEN TRUE ELSE target.goroutine # g

\* select finds the stop channel closed.
Return(g) ==
  /\ At(g, "wait") /\ Stopped(g)
  /\ goroutine' = [goroutine EXCEPT ![g] = None]
  /\ UNCHANGED <<row, created, handler, scheduling, flight, removing, backlog, failed,
                 analyses, firing, astray, lost>>

\* One turn of the loop, but for the select.
Process(g) ==
  \/ \E ok \in BOOLEAN : NothingOpen(g, ok)
  \/ TakeWindow(g) \/ Defer(g) \/ Expire(g)
  \/ Recover(g) \/ FailRecovery(g)

Recovery(g) == Process(g) \/ WakeUp(g) \/ Return(g)

----------------------------------------------------------------------------
(* The analysis worker. *)

\* isActiveGeneration: an unknown service is an error, which is recorded.
Check(generation) ==
  CASE row = None                                      -> "impaired"
    [] row # None /\ row.generation = generation       -> "test"
    [] row # None /\ row.generation # generation       -> None

AnalysisStep ==
  UNCHANGED <<row, created, handler, scheduling, flight, removing, goroutine, backlog,
              failed, astray, lost>>

StartAnalysis ==
  /\ analysing = None /\ queue # <<>>
  /\ queue' = Tail(queue)
  /\ analysing' = Check(Head(queue))
  /\ AnalysisStep /\ UNCHANGED <<history, firing>>

\* The other channel: at a start of its own, or at random beside a live one.
StartHistorical ==
  /\ analysing = None /\ history > 0
  /\ history' = history - 1
  /\ analysing' = "historical"
  /\ AnalysisStep /\ UNCHANGED <<queue, firing>>

\* A verdict, or the impairment, or neither (a baseline, or the attempts are
\* used up): none asks for the service.  A historical one touches no alert.
FinishAnalysis(result) ==
  /\ analysing # None
  /\ analysing = "impaired" => result = "failed"
  /\ analysing = "historical" => result = "none"
  /\ analysing' = None
  /\ firing' = CASE result = "none"   -> firing
                 [] result = "good"   -> firing \ {"anomaly", "impaired"}
                 [] result = "bad"    -> (firing \ {"impaired"}) \cup {"anomaly"}
                 [] result = "failed" -> firing \cup {"impaired"}
  /\ AnalysisStep /\ UNCHANGED <<queue, history>>

Results == {"none", "good", "bad", "failed"}

Analysis ==
  \/ StartAnalysis \/ StartHistorical
  \/ \E result \in Results : FinishAnalysis(result)

----------------------------------------------------------------------------
(* Restart. *)

\* The process ends, at any moment, and main schedules what is not paused.
Restart ==
  /\ Faults
  /\ handler' = [r \in Requests |-> Idle]
  /\ callback' = [k \in Callbacks |-> Wanted]
  /\ LET new == CHOOSE g \in Goroutines : TRUE
     IN IF Active
          THEN /\ target' = [service |-> row, goroutine |-> new]
               /\ goroutine' = [NoGoroutines EXCEPT ![new] = Started]
          ELSE target' = None /\ goroutine' = NoGoroutines
  /\ flight' = [k \in Callbacks |-> None] /\ removing' = {}
  /\ queue' = <<>> /\ history' = 0 /\ analysing' = None
  /\ astray' = FALSE /\ lost' = {}
  /\ UNCHANGED <<row, created, backlog, failed, firing>>

Call(r) ==
  \/ Register(r) \/ Unregister(r)
  \/ \E k \in Callbacks : AddCallback(r, k) \/ RemoveCallback(r, k)
  \/ \E ok \in BOOLEAN : CloseService(r, ok)

Serve(r) ==
  \/ \E config \in Configs : Create(r, config)
  \/ \E kind \in Kinds, config \in Configs, expected \in Revisions :
       Read(r, kind, config, expected)
  \/ UpdateService(r)
  \/ DeleteService(r)
  \/ Call(r)

Next ==
  \/ \E r \in Requests : Serve(r)
  \/ \E k \in Callbacks : Start(k)
  \/ Live \/ Build
  \/ \E g \in Goroutines : Recovery(g)
  \/ Analysis
  \/ Restart

Spec == Init /\ [][Next]_vars

\* A live collection ends for sure only once it is cancelled: its queries have
\* no deadline.
CancelledLive == live # None /\ live.cancelled /\ Live

\* A handler makes its calls, recoveries, builds and analyses have deadlines, and
\* select picks among what is ready at random, so a stop channel that is closed
\* is picked in the end.  Requests, live collections and crashes are not fair.
Fairness ==
  /\ \A r \in Requests : WF_vars(Call(r))
  /\ WF_vars(CancelledLive) /\ WF_vars(Build)
  /\ \A g \in Goroutines : WF_vars(Process(g)) /\ SF_vars(Return(g))
  /\ WF_vars(Analysis)

FairSpec == Spec /\ Fairness

----------------------------------------------------------------------------
(* Properties. *)

TypeOK ==
  /\ row \in Version \cup {None}
  /\ created \in BOOLEAN
  /\ handler \in [Requests -> Handler]
  /\ target \in Target \cup {None}
  /\ callback \in [Callbacks -> Version \cup {None}]
  /\ flight \in [Callbacks -> InFlight \cup {None}]
  /\ removing \subseteq Callbacks
  /\ goroutine \in [Goroutines -> Goroutine \cup {None}]
  /\ backlog \subseteq Windows /\ failed \in 0..MaxFailures
  /\ queue \in Seq(Revisions) /\ Len(queue) <= QueueCapacity
  /\ history \in 0..QueueCapacity
  /\ analysing \in {"test", "impaired", "historical", None}
  /\ firing \subseteq {"anomaly", "impaired", "collection", "gap"}
  /\ astray \in BOOLEAN
  /\ lost \subseteq Callbacks

\* Concurrent handlers write the whole row from a copy they read before, with
\* its URL rendered; still each change is that of one request on the latest
\* record: no update is lost, an edit never resumes what was paused meanwhile, a
\* pause never reverts an edit, and a deleted service does not come back.  A
\* generation is made exactly when the writing of the configuration changes, as
\* it does when a pause or a resume writes the rendering over another writing.
Atomic == INSTANCE ServiceRegister WITH service <- row, born <- created

ImplementsServiceRegister == Atomic!RegisterSpec

\* The service of the recovery queue's entry.
Registered == IF target = None THEN None ELSE target.service

\* Between requests the three registrations of a service are those of its row,
\* revision and generation included, or none if it is paused or deleted:
\* however handlers, crashes and completions in flight interleaved.  Excepted
\* are handlers whose calls overlapped or were never made because the answer of
\* their commit was lost (until a later one sets the schedule alone), and a
\* callback, collection or builder, added again in flight of its removal.
ScheduleFollowsRow ==
  Quiescent /\ ~astray =>
    /\ Registered = Wanted
    /\ \A k \in Callbacks \ lost : callback[k] = Wanted

AtRest ==
  /\ \A k \in Callbacks : flight[k] = None
  /\ goroutine = NoGoroutines
  /\ queue = <<>> /\ history = 0 /\ analysing = None

\* A service that stays paused or deleted comes to rest: its collection and its
\* build in flight end, the goroutines of the recovery queue return although
\* they take every window that is ready before they look at their stop channel,
\* the analyses are done, and nothing starts any of it again.
InactiveComesToRest == ([]<>(Active \/ astray)) \/ <>[]AtRest

\* docs/design/alerts.md: pausing or deleting a service closes its active
\* conditions.  So between requests it has no firing alert.
InactiveIsQuiet ==
  Quiescent /\ created /\ ~Active /\ ~astray => firing = {}

=============================================================================
