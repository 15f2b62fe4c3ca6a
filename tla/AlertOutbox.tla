----------------------------- MODULE AlertOutbox -----------------------------
(***************************************************************************)
(* Alerts of one service and their delivery: the transactions of           *)
(* internal/alerting/manager.go on the tables alert, alert_occurrence and  *)
(* alert_outbox, interleaved with the dispatcher of outbox.go, which reads *)
(* and writes the same tables in several steps around one HTTP call.       *)
(*                                                                         *)
(* One action is one database transaction or one HTTP call.  The outbox    *)
(* table is kept as what the code asks of it: its pending rows in the      *)
(* order of their ids, the forms (severities) of an alert that have a      *)
(* delivered firing row, and the form of its latest firing row.            *)
(***************************************************************************)
EXTENDS Naturals, Sequences, FiniteSets

CONSTANTS
  Indicators,   \* indicators analysed per chunk
  Threshold,    \* occurrences that make a condition critical
  MaxChunk,     \* bound on the live chunks analysed, per indicator
  MaxFailures,  \* bound on the failed collections
  MaxReviews,   \* bound on the reviews of an occurrence
  MaxAlerts,    \* bound on the rows of table alert
  MaxPending    \* bound on the pending outbox rows

ASSUME ThresholdAssumption == Threshold \in Nat \ {0}
ASSUME BoundsAssumption ==
  /\ MaxChunk \in Nat /\ MaxFailures \in Nat /\ MaxReviews \in Nat
  /\ MaxAlerts \in Nat \ {0} /\ MaxPending \in Nat \ {0}
ASSUME IndicatorsAssumption ==
  IsFiniteSet(Indicators) /\ {"monitoring", "collection"} \cap Indicators = {}

VARIABLES
  alerts,       \* table alert: one record per id
  occurrences,  \* table alert_occurrence: by occurrence key
  pending,      \* pending rows of alert_outbox, in the order of their ids
  delivered,    \* the severities of an alert with a delivered firing row
  dispatcher,   \* where deliverOne is, and the row it works on
  am,           \* external: the severities of an alert Alertmanager holds
  analysed,     \* the last live chunk analysed, per indicator
  failures,     \* failed collections so far
  unrecorded    \* history: forms Alertmanager accepted, delivery not recorded
                \* before the alert was resolved

tables == <<alerts, occurrences, pending, delivered>>
progress == <<analysed, failures>>
vars == <<tables, dispatcher, am, progress, unrecorded>>

----------------------------------------------------------------------------
(* Tables. *)

Ids == 1..MaxAlerts
Severities == {"warning", "critical"}

\* condition_key: an anomaly per indicator, one impairment, one collection.
Conditions == Indicators \cup {"monitoring", "collection"}

\* No condition can have more occurrences.
MaxCount == MaxChunk * Cardinality(Indicators) + MaxFailures

Alert ==
  [condition : Conditions \cup {"none"},
   status    : {"absent", "firing", "resolved", "deleted"},
   severity  : Severities,
   count     : 0..MaxCount,
   reason    : {"none", "accepted_as_normal", "other"},
   form      : Severities,    \* severity in the latest firing payload
   stale     : BOOLEAN]       \* last_handoff_at is NULL or two minutes old

NoAlert ==
  [condition |-> "none", status |-> "absent", severity |-> "warning", count |-> 0,
   reason |-> "none", form |-> "warning", stale |-> TRUE]

Row ==
  [alert : Ids, operation : {"firing", "resolved"}, severity : Severities,
   \* next_attempt_at: reached, in the future, or the lease of the dispatcher
   attempt : {"due", "waiting", "claimed"}]

NewRow(id, operation, severity) ==
  [alert |-> id, operation |-> operation, severity |-> severity, attempt |-> "due"]

Review == {"none", "accepted", "reverted"}

Occurrence == [alert : Ids, review : Review, revision : Nat]

Unreviewed(id) == [alert |-> id, review |-> "none", revision |-> 0]

\* The occurrence keys; that of a monitoring failure leaves the indicator out.
ChunkKey(i, c) == <<i, c>>
MonitoringKey(c) == <<"monitoring", c>>
CollectionKey(n) == <<"collection", n>>

Idle == [step |-> "idle"]

Init ==
  /\ alerts = [id \in Ids |-> NoAlert]
  /\ occurrences = [key \in {} |-> Unreviewed(1)]
  /\ pending = <<>>
  /\ delivered = [id \in Ids |-> {}]
  /\ dispatcher = Idle
  /\ am = [id \in Ids |-> {}]
  /\ analysed = [i \in Indicators |-> 0]
  /\ failures = 0
  /\ unrecorded = [id \in Ids |-> {}]

Firing == {id \in Ids : alerts[id].status = "firing"}

FiringOn(conditions) == {id \in Firing : alerts[id].condition \in conditions}

\* The id the next INSERT INTO alert returns: ids grow.
FreshIds ==
  {id \in Ids : alerts[id].status = "absent" /\ \A k \in 1..(id-1) : alerts[k].status # "absent"}

OccurrencesOf(id) == {key \in DOMAIN occurrences : occurrences[key].alert = id}

\* INSERT ... ON CONFLICT (occurrence_key) DO NOTHING
WithOccurrence(key, id) ==
  [k \in DOMAIN occurrences \cup {key} |->
     IF k \in DOMAIN occurrences THEN occurrences[k]
                                 ELSE Unreviewed(id)]

\* The rows at the positions kept, in their order.
Only(rows, kept) ==
  LET upTo[n \in 0..Len(rows)] ==
        IF n = 0 THEN <<>>
        ELSE IF n \in kept THEN Append(upTo[n-1], rows[n]) ELSE upTo[n-1]
  IN upTo[Len(rows)]

Orders(S) ==
  {order \in [1..Cardinality(S) -> S] : \A x \in S : \E k \in DOMAIN order : order[k] = x}

----------------------------------------------------------------------------
(* Resolution. *)

IsFiringOf(row, ids) == row.alert \in ids /\ row.operation = "firing"

\* UPDATE alert_outbox SET state='missed' for the pending firing rows of ids.
WithoutFiring(rows, ids) ==
  Only(rows, {k \in DOMAIN rows : ~IsFiringOf(rows[k], ids)})

\* Mutant: only the form last handed off is resolved.
LatestForm(ids) ==
  {form \in ids \X Severities :
     /\ form[2] \in delivered[form[1]]
     /\ "critical" \in delivered[form[1]] => form[2] = "critical"}

\* The forms that get a resolution row, one per severity ever delivered.  The label
\* instance sets forms apart as well, but not those of one alert: it is the value
\* of a configuration key that the program never writes.
DeliveredForms(ids) == {form \in ids \X Severities : form[2] \in delivered[form[1]]}

\* Go iterates the forms in any order.
Resolutions(ids) ==
  {[k \in DOMAIN order |-> NewRow(order[k][1], "resolved", order[k][2])] :
     order \in Orders(DeliveredForms(ids))}

\* Mutant: a firing row that waits for its next attempt is left alone.
ResolvedKeepingRows(rows, ids, resolutions) == rows \o resolutions

Resolved(rows, ids, resolutions) == WithoutFiring(rows, ids) \o resolutions

\* The alerts ids are resolved in one transaction.
WithResolved(ids, reason) ==
  [id \in Ids |->
     IF id \in ids THEN [alerts[id] EXCEPT !.status = "resolved", !.reason = reason]
                   ELSE alerts[id]]

Resolve(ids, reason) ==
  /\ \E resolutions \in Resolutions(ids) : pending' = Resolved(pending, ids, resolutions)
  /\ alerts' = WithResolved(ids, reason)

----------------------------------------------------------------------------
(* Occurrences. *)

SeverityFor(count) == IF count >= Threshold THEN "critical" ELSE "warning"

Rated(alert) ==
  [alert EXCEPT !.severity = SeverityFor(alert.count), !.form = SeverityFor(alert.count)]

\* INSERT INTO alert: a warning, whatever the threshold.
Opened(condition) ==
  [NoAlert EXCEPT !.condition = condition, !.status = "firing", !.count = 1]

Counted(condition, id) ==
  IF id \in Firing THEN Rated([alerts[id] EXCEPT !.count = @ + 1]) ELSE Opened(condition)

\* A collection alert is rated by its count even when it has just been opened.
CountedAttempt(id) == Rated(Counted("collection", id))

\* The alert an occurrence of a condition belongs to: firing, or a new one.
TargetOf(condition) ==
  IF FiringOn({condition}) = {} THEN FreshIds ELSE FiringOn({condition})

\* On escalation the delivered warning is resolved, or a pending one missed.
RetireWarning(rows, id) ==
  IF "warning" \in delivered[id]
    THEN Append(rows, NewRow(id, "resolved", "warning"))
    ELSE Only(rows, {k \in DOMAIN rows :
                        ~(IsFiringOf(rows[k], {id}) /\ rows[k].severity = "warning")})

Notified(rows, id, alert) ==
  Append(IF alert.severity = "critical" /\ alert.count = Threshold
           THEN RetireWarning(rows, id) ELSE rows,
         NewRow(id, "firing", alert.severity))

\* Mutant: a failed commit that did commit is counted again.
AlreadyNever(i, c) == FALSE

AlreadyRecorded(i, c) == ChunkKey(i, c) \in DOMAIN occurrences

\* Good: the impairment of the analysis and the anomaly are over.
RecordGood(i) ==
  /\ analysed[i] < MaxChunk
  /\ analysed' = [analysed EXCEPT ![i] = @ + 1]
  /\ Resolve(FiringOn({"monitoring", i}), "other")
  /\ UNCHANGED <<occurrences, delivered, dispatcher, am, failures, unrecorded>>

\* Bad: the impairment is over, the anomaly opens or goes on.
AddOccurrence(i, c) ==
  \E id \in TargetOf(i), resolutions \in Resolutions(FiringOn({"monitoring"})) :
    LET impaired == FiringOn({"monitoring"}) IN
      /\ alerts' = [WithResolved(impaired, "other") EXCEPT ![id] = Counted(i, id)]
      /\ pending' = Notified(Resolved(pending, impaired, resolutions), id, Counted(i, id))
      /\ occurrences' = WithOccurrence(ChunkKey(i, c), id)

\* The worker repeats the call when the answer of the commit was lost.
RecordAnomaly(i, c) ==
  /\ \/ c = analysed[i] + 1 /\ c <= MaxChunk
     \/ c = analysed[i] /\ ChunkKey(i, c) \in DOMAIN occurrences
  /\ analysed' = [analysed EXCEPT ![i] = c]
  /\ IF AlreadyRecorded(i, c)
       THEN Resolve(FiringOn({"monitoring"}), "other") /\ UNCHANGED occurrences
       ELSE AddOccurrence(i, c)
  /\ UNCHANGED <<delivered, dispatcher, am, failures, unrecorded>>

RecordAnalysisFailure(i) ==
  /\ analysed[i] < MaxChunk
  /\ analysed' = [analysed EXCEPT ![i] = @ + 1]
  /\ \E id \in TargetOf("monitoring") :
       /\ alerts' = [alerts EXCEPT ![id] = Counted("monitoring", id)]
       /\ pending' = Notified(pending, id, Counted("monitoring", id))
       /\ occurrences' = WithOccurrence(MonitoringKey(analysed[i] + 1), id)
  /\ UNCHANGED <<delivered, dispatcher, am, failures, unrecorded>>

RecordCollectionFailure ==
  /\ failures < MaxFailures
  /\ failures' = failures + 1
  /\ \E id \in TargetOf("collection") :
       /\ alerts' = [alerts EXCEPT ![id] = CountedAttempt(id)]
       /\ pending' = Notified(pending, id, CountedAttempt(id))
       /\ occurrences' = WithOccurrence(CollectionKey(failures + 1), id)
  /\ UNCHANGED <<delivered, dispatcher, am, analysed, unrecorded>>

\* Collection recovers, a permanent gap interrupts the anomalies, or the
\* service is paused or deleted.
End(ids) ==
  /\ ids # {}
  /\ Resolve(ids, "other")
  /\ UNCHANGED <<occurrences, delivered, dispatcher, am, progress, unrecorded>>

ResolveCollection == End(FiringOn({"collection"}))
InterruptAnomalies == End(FiringOn(Indicators))
CloseService == End(Firing)

----------------------------------------------------------------------------
(* Reviews of the occurrences of a chunk. *)

\* A decision that names another revision, or the one in force, has no effect.
Reviewed(key, review) ==
  [occurrences EXCEPT ![key].review = review, ![key].revision = @ + 1]

RemainingOf(id, reviewed) == {key \in OccurrencesOf(id) : reviewed[key].review # "accepted"}

Reviewable ==
  {key \in DOMAIN occurrences : key[1] \in Indicators /\ occurrences[key].revision < MaxReviews}

AcceptAsNormal(key) ==
  /\ key \in Reviewable /\ occurrences[key].review # "accepted"
  /\ occurrences' = Reviewed(key, "accepted")
  /\ LET id == occurrences[key].alert IN
       IF id \in Firing /\ RemainingOf(id, occurrences') = {}
         THEN Resolve({id}, "accepted_as_normal")
         ELSE UNCHANGED <<alerts, pending>>
  /\ UNCHANGED <<delivered, dispatcher, am, progress, unrecorded>>

\* The alert goes on if it was resolved by its reviews: its latest payload is
\* sent again.  A unique index refuses it while the condition fires anew.
Reopen(id) ==
  /\ FiringOn({alerts[id].condition}) = {}
  /\ alerts' = [alerts EXCEPT ![id].status = "firing", ![id].reason = "none"]
  /\ pending' = Append(pending, NewRow(id, "firing", alerts[id].form))

\* Mutant: a restored Verdict leaves the alert as it is.
ReopensNever(id) == FALSE

ReopensOnRestore(id) ==
  alerts[id].status = "resolved" /\ alerts[id].reason = "accepted_as_normal"

RestoreVerdict(key) ==
  /\ key \in Reviewable /\ occurrences[key].review # "reverted"
  /\ occurrences' = Reviewed(key, "reverted")
  /\ LET id == occurrences[key].alert IN
       IF ReopensOnRestore(id) THEN Reopen(id) ELSE UNCHANGED <<alerts, pending>>
  /\ UNCHANGED <<delivered, dispatcher, am, progress, unrecorded>>

----------------------------------------------------------------------------
(* The dispatcher, one goroutine. *)

\* The row it works on, if it was not marked missed meanwhile.
Unclaimed(rows) == Only(rows, {k \in DOMAIN rows : rows[k].attempt # "claimed"})

\* Mutant: a row that failed keeps its lease for good.
StillClaimed(rows) == rows

Released(rows) ==
  [k \in DOMAIN rows |->
     IF rows[k].attempt = "claimed" THEN [rows[k] EXCEPT !.attempt = "waiting"] ELSE rows[k]]

\* The first row that is due, leased for longer than a send can take.
Claim ==
  /\ dispatcher.step = "idle"
  /\ \E k \in DOMAIN pending :
       /\ pending[k].attempt = "due"
       /\ \A j \in 1..(k-1) : pending[j].attempt # "due"
       /\ pending' = [pending EXCEPT ![k].attempt = "claimed"]
       /\ dispatcher' = [step |-> "claimed", row |-> pending[k]]
  /\ UNCHANGED <<alerts, occurrences, delivered, am, progress, unrecorded>>

Outdated(row) == row.operation = "firing" /\ alerts[row.alert].status = "resolved"

ReadStatus ==
  /\ dispatcher.step = "claimed"
  /\ IF Outdated(dispatcher.row)
       THEN dispatcher' = Idle /\ pending' = Unclaimed(pending)
       ELSE dispatcher' = [dispatcher EXCEPT !.step = "sending"] /\ UNCHANGED pending
  /\ UNCHANGED <<alerts, occurrences, delivered, am, progress, unrecorded>>

\* External: Alertmanager takes a form to fire or to be over.
Accepted(forms, row) ==
  [forms EXCEPT ![row.alert] = IF row.operation = "firing" THEN @ \cup {row.severity}
                                                           ELSE @ \ {row.severity}]

\* The request is accepted and answered, accepted with the answer lost or
\* late, or not accepted.
Send(accepted, answered) ==
  /\ dispatcher.step = "sending"
  /\ answered => accepted
  /\ am' = IF accepted THEN Accepted(am, dispatcher.row) ELSE am
  /\ unrecorded' = IF accepted THEN Accepted(unrecorded, dispatcher.row) ELSE unrecorded
  /\ dispatcher' = [dispatcher EXCEPT !.step = IF answered THEN "sent" ELSE "failed"]
  /\ UNCHANGED <<tables, progress>>

\* The commit does not look at the state of the row or of the alert.
RecordDelivery ==
  /\ dispatcher.step = "sent"
  /\ LET row == dispatcher.row IN
       /\ delivered' = [delivered EXCEPT ![row.alert] =
                          IF row.operation = "firing" THEN @ \cup {row.severity} ELSE @]
       /\ alerts' = [alerts EXCEPT ![row.alert].stale = FALSE]
       /\ unrecorded' = [unrecorded EXCEPT ![row.alert] =
                           IF alerts[row.alert].status = "firing" THEN @ \ {row.severity} ELSE @]
  /\ pending' = Unclaimed(pending)
  /\ dispatcher' = Idle
  /\ UNCHANGED <<occurrences, am, progress>>

\* markFailed: the row waits for its backoff.
RecordFailure ==
  /\ dispatcher.step = "failed"
  /\ pending' = Released(pending)
  /\ dispatcher' = Idle
  /\ UNCHANGED <<alerts, occurrences, delivered, am, progress, unrecorded>>

\* A database error, or a crash and restart: the lease of the row runs out.
Abandon ==
  /\ dispatcher.step # "idle"
  /\ pending' = Released(pending)
  /\ dispatcher' = Idle
  /\ UNCHANGED <<alerts, occurrences, delivered, am, progress, unrecorded>>

ComesDue(k) ==
  /\ k \in DOMAIN pending /\ pending[k].attempt = "waiting"
  /\ pending' = [pending EXCEPT ![k].attempt = "due"]
  /\ UNCHANGED <<alerts, occurrences, delivered, dispatcher, am, progress, unrecorded>>

\* Two minutes pass after the last hand-off of an alert.
Ages(id) ==
  /\ ~alerts[id].stale
  /\ alerts' = [alerts EXCEPT ![id].stale = TRUE]
  /\ UNCHANGED <<occurrences, pending, delivered, dispatcher, am, progress, unrecorded>>

\* Mutant: only an alert that was never handed off is sent again.
NeverHandedOff ==
  {id \in Firing : alerts[id].stale /\ delivered[id] = {} /\
     \A k \in DOMAIN pending : pending[k].alert # id}

RefreshDue ==
  {id \in Firing : alerts[id].stale /\ \A k \in DOMAIN pending : pending[k].alert # id}

EnqueueRefreshes ==
  /\ dispatcher.step = "idle" /\ RefreshDue # {}
  /\ \E order \in Orders(RefreshDue) :
       pending' = pending \o
         [k \in DOMAIN order |-> NewRow(order[k], "firing", alerts[order[k]].form)]
  /\ UNCHANGED <<alerts, occurrences, delivered, dispatcher, am, progress, unrecorded>>

\* Retention, in the same goroutine; the rows of the alerts go with them.
DeleteExpired(ids) ==
  /\ dispatcher.step = "idle"
  /\ ids # {} /\ \A id \in ids : alerts[id].status = "resolved"
  /\ alerts' = [id \in Ids |-> IF id \in ids THEN [NoAlert EXCEPT !.status = "deleted"]
                                             ELSE alerts[id]]
  /\ occurrences' = [key \in {k \in DOMAIN occurrences : occurrences[k].alert \notin ids} |->
                       occurrences[key]]
  /\ pending' = Only(pending, {k \in DOMAIN pending : pending[k].alert \notin ids})
  /\ delivered' = [id \in Ids |-> IF id \in ids THEN {} ELSE delivered[id]]
  /\ UNCHANGED <<dispatcher, am, progress, unrecorded>>

----------------------------------------------------------------------------

Chunks == 1..MaxChunk

Manager ==
  \/ \E i \in Indicators : RecordGood(i)
  \/ \E i \in Indicators, c \in Chunks : RecordAnomaly(i, c)
  \/ \E i \in Indicators : RecordAnalysisFailure(i)
  \/ RecordCollectionFailure
  \/ ResolveCollection
  \/ InterruptAnomalies
  \/ CloseService
  \/ \E key \in DOMAIN occurrences : AcceptAsNormal(key)
  \/ \E key \in DOMAIN occurrences : RestoreVerdict(key)

Dispatcher ==
  \/ Claim
  \/ ReadStatus
  \/ \E accepted, answered \in BOOLEAN : Send(accepted, answered)
  \/ RecordDelivery
  \/ RecordFailure
  \/ Abandon
  \/ EnqueueRefreshes
  \/ \E ids \in SUBSET Ids : DeleteExpired(ids)

Time ==
  \/ \E k \in 1..MaxPending : ComesDue(k)
  \/ \E id \in Ids : Ages(id)

Bounded == Len(pending') <= MaxPending

Next ==
  \/ Manager /\ Bounded
  \/ Dispatcher /\ Bounded
  \/ Time

Spec == Init /\ [][Next]_vars

\* The dispatcher's goroutine runs and its timers tick (select picks at random
\* among the ready ones); Alertmanager answers, and the database commits, at
\* least every now and then.
Fairness ==
  /\ WF_vars(Claim) /\ WF_vars(RecordFailure)
  /\ SF_vars(ReadStatus) /\ SF_vars(Send(TRUE, TRUE)) /\ SF_vars(RecordDelivery)
  /\ SF_vars(EnqueueRefreshes /\ Bounded)
  /\ \A k \in 1..MaxPending : WF_vars(ComesDue(k))
  /\ \A id \in Ids : WF_vars(Ages(id))

FairSpec == Spec /\ Fairness

----------------------------------------------------------------------------
(* Properties. *)

TypeOK ==
  /\ alerts \in [Ids -> Alert]
  /\ \A key \in DOMAIN occurrences :
       occurrences[key] \in Occurrence
  /\ pending \in Seq(Row)
  /\ delivered \in [Ids -> SUBSET Severities]
  /\ dispatcher.step \in {"idle", "claimed", "sending", "sent", "failed"}
  /\ dispatcher.step # "idle" => dispatcher.row \in Row
  /\ am \in [Ids -> SUBSET Severities]
  /\ analysed \in [Indicators -> 0..MaxChunk] /\ failures \in 0..MaxFailures
  /\ unrecorded \in [Ids -> SUBSET Severities]

HasPending(id, operation, severity) ==
  \E k \in DOMAIN pending :
    /\ pending[k].alert = id /\ pending[k].operation = operation
    /\ pending[k].severity = severity

\* alerts.md, Delivery and resolution: every form of a resolved alert that
\* Alertmanager was told of is withdrawn, across escalations, retries,
\* reordering by backoff, reopening and crashes.  The exception is a form
\* whose hand-off was under way, or unacknowledged, at the resolution.
ResolvedFormsAreWithdrawn ==
  \A id \in Ids : alerts[id].status = "resolved" =>
    \A s \in am[id] : s \in unrecorded[id] \/ HasPending(id, "resolved", s)

\* alerts.md, Delivery and resolution: a firing that was not handed off before
\* the resolution is not replayed after it.  No row of it waits in the outbox.
NoFiringWaitsAfterResolution ==
  \A k \in DOMAIN pending :
    pending[k].operation = "firing" => alerts[pending[k].alert].status = "firing"

\* alerts.md, Model and Reviews: an anomaly goes on exactly while one of its
\* chunks is not accepted as normal, whatever the order of chunks and reviews,
\* unless something else ended it.
ReviewsDecideResolution ==
  \A id \in Ids : alerts[id].condition \in Indicators =>
    /\ alerts[id].status = "firing" => RemainingOf(id, occurrences) # {}
    /\ alerts[id].reason = "accepted_as_normal" => RemainingOf(id, occurrences) = {}

\* alerts.md, Model: the anomaly is critical from the third of its Bad chunks
\* on, each counted once even when recording it is repeated.
AnomalyCountsChunks ==
  \A id \in Ids : alerts[id].condition \in Indicators =>
    /\ alerts[id].count = Cardinality(OccurrencesOf(id))
    /\ alerts[id].count > 1 => alerts[id].severity = SeverityFor(alerts[id].count)

\* ADR 0001: "Alertmanager receives the same firing and resolution content
\* shown in the UI."  Once nothing is left to send for a resolved alert,
\* Alertmanager holds no form of it.
AlertmanagerAgreesOnResolution ==
  \A id \in Ids :
    /\ alerts[id].status = "resolved"
    /\ \A k \in DOMAIN pending : pending[k].alert # id
    /\ dispatcher.step = "idle"
    => am[id] = {}

\* An alert that goes on firing is, again and again, held by Alertmanager in
\* its present severity: a late resolution, a lost answer or a crash is healed
\* by a retry or by the refresh.
FiringReachesAlertmanager ==
  \A id \in Ids :
    []<>(alerts[id].status # "firing" \/ alerts[id].severity \in am[id])

\* outbox.go: every resolution that is queued is handed off in the end, across
\* failures, lost answers and crashes.
OutboxDrains ==
  \A id \in Ids, s \in Severities :
    HasPending(id, "resolved", s) ~> ~HasPending(id, "resolved", s)

=============================================================================
