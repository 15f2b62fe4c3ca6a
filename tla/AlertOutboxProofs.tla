--------------------------- MODULE AlertOutboxProofs ---------------------------
(***************************************************************************)
(* Proofs about AlertOutbox, for any indicators, threshold, and number of  *)
(* chunks, reviews, alerts and outbox rows.                                *)
(*                                                                         *)
(* First the tables alert and alert_occurrence: the reviews decide how     *)
(* long an anomaly goes on, and its count is that of its chunks.  What a   *)
(* transaction does to the outbox does not matter there.  Then the outbox  *)
(* and the dispatcher: no firing waits once its alert is over, and every   *)
(* form Alertmanager was told of is withdrawn.  Last, the bound of the     *)
(* counts, which completes the type invariant.                             *)
(***************************************************************************)
EXTENDS AlertOutbox, NatRecursion, FiniteSetTheorems, TLAPS

\* A row of table alert, however many occurrences it counts.
AlertRow ==
  [condition : Conditions \cup {"none"},
   status    : {"absent", "firing", "resolved", "deleted"},
   severity  : Severities,
   count     : Nat,
   reason    : {"none", "accepted_as_normal", "other"},
   form      : Severities,
   stale     : BOOLEAN]

RowsTyped == alerts \in [Ids -> AlertRow]

\* There are finitely many occurrences, each of an alert that was opened and
\* has not been deleted.
OccurrencesKept ==
  /\ IsFiniteSet(DOMAIN occurrences)
  /\ \A key \in DOMAIN occurrences :
       /\ occurrences[key] \in Occurrence
       /\ alerts[occurrences[key].alert].status \in {"firing", "resolved"}

\* Only an alert that is over has been ended by its reviews.
AcceptedIsOver ==
  \A id \in Ids : alerts[id].reason = "accepted_as_normal" => alerts[id].status = "resolved"

IInv ==
  /\ RowsTyped /\ OccurrencesKept /\ AcceptedIsOver
  /\ ReviewsDecideResolution /\ AnomalyCountsChunks

----------------------------------------------------------------------------
(* What the steps do to the two tables. *)

\* Rows that only resolve, or are handed off, keep everything else.
LEMMA RowsThatResolve ==
  ASSUME IInv, UNCHANGED occurrences, alerts' \in [Ids -> AlertRow],
         \A id \in Ids :
           /\ alerts'[id].condition = alerts[id].condition
           /\ alerts'[id].count = alerts[id].count
           /\ alerts'[id].severity = alerts[id].severity
           /\ \/ alerts'[id].status = alerts[id].status /\ alerts'[id].reason = alerts[id].reason
              \/ /\ alerts[id].status = "firing"
                 /\ alerts'[id].status = "resolved" /\ alerts'[id].reason = "other"
  PROVE  IInv'
<1>1. RowsTyped'
  BY DEF RowsTyped
<1>2. OccurrencesKept'
  BY DEF IInv, OccurrencesKept, Occurrence
<1>3. AcceptedIsOver'
  BY DEF IInv, AcceptedIsOver
<1>4. ReviewsDecideResolution'
  BY DEF IInv, ReviewsDecideResolution, RemainingOf, OccurrencesOf
<1>5. AnomalyCountsChunks'
  BY DEF IInv, AnomalyCountsChunks, OccurrencesOf, SeverityFor
<1> QED
  BY <1>1, <1>2, <1>3, <1>4, <1>5 DEF IInv

LEMMA ResolvedRows ==
  ASSUME IInv, NEW ids \in SUBSET Firing, NEW reason \in {"other", "accepted_as_normal"}
  PROVE  /\ WithResolved(ids, reason) \in [Ids -> AlertRow]
         /\ \A id \in Ids :
              LET new == WithResolved(ids, reason)[id] IN
              /\ new.condition = alerts[id].condition
              /\ new.count = alerts[id].count
              /\ new.severity = alerts[id].severity
              /\ id \notin ids => new = alerts[id]
              /\ id \in ids => /\ alerts[id].status = "firing"
                               /\ new.status = "resolved" /\ new.reason = reason
BY DEF IInv, RowsTyped, AlertRow, WithResolved, Firing

LEMMA EndKeeps ==
  ASSUME IInv, NEW ids \in SUBSET Firing, alerts' = WithResolved(ids, "other"),
         UNCHANGED occurrences
  PROVE  IInv'
BY ResolvedRows, RowsThatResolve

LEMMA HandOffKeeps ==
  ASSUME IInv, NEW id, NEW stale \in BOOLEAN,
         alerts' = [alerts EXCEPT ![id].stale = stale], UNCHANGED occurrences
  PROVE  IInv'
<1>1. alerts' \in [Ids -> AlertRow]
  BY DEF IInv, RowsTyped, AlertRow
<1>2. \A other \in Ids :
        /\ alerts'[other].condition = alerts[other].condition
        /\ alerts'[other].count = alerts[other].count
        /\ alerts'[other].severity = alerts[other].severity
        /\ alerts'[other].status = alerts[other].status
        /\ alerts'[other].reason = alerts[other].reason
  BY DEF IInv, RowsTyped, AlertRow
<1> QED
  BY <1>1, <1>2, RowsThatResolve

----------------------------------------------------------------------------
(* An occurrence is added. *)

LEMMA TargetIsOpen ==
  ASSUME IInv, NEW condition, NEW id \in TargetOf(condition)
  PROVE  /\ id \in Ids
         /\ \/ /\ id \in Firing /\ alerts[id].status = "firing"
               /\ alerts[id].condition = condition
            \/ /\ id \notin Firing /\ alerts[id].status = "absent"
               /\ OccurrencesOf(id) = {}
BY DEF TargetOf, FiringOn, Firing, FreshIds, OccurrencesOf, IInv, OccurrencesKept

LEMMA NoAlertRow ==
  /\ NoAlert \in AlertRow
  /\ NoAlert.condition = "none" /\ NoAlert.status = "absent"
  /\ NoAlert.count = 0 /\ NoAlert.reason = "none"
BY DEF NoAlert, AlertRow, Severities

LEMMA RatedRow ==
  ASSUME NEW row \in AlertRow
  PROVE  /\ Rated(row) \in AlertRow
         /\ Rated(row).condition = row.condition /\ Rated(row).status = row.status
         /\ Rated(row).reason = row.reason /\ Rated(row).count = row.count
         /\ Rated(row).severity = SeverityFor(row.count)
<1>1. SeverityFor(row.count) \in Severities
  BY DEF SeverityFor, Severities
<1> QED
  BY <1>1 DEF Rated, AlertRow

LEMMA CountedRow ==
  ASSUME IInv, NEW condition \in Conditions, NEW id \in TargetOf(condition)
  PROVE  LET new == Counted(condition, id) IN
         /\ new \in AlertRow
         /\ new.condition = condition /\ new.status = "firing"
         /\ new.reason # "accepted_as_normal"
         /\ id \in Firing => new.count = alerts[id].count + 1
         /\ id \notin Firing => new.count = 1
         /\ new.count > 1 => new.severity = SeverityFor(new.count)
<1>1. CASE id \in Firing
  <2>1. /\ alerts[id] \in AlertRow /\ alerts[id].condition = condition
        /\ alerts[id].status = "firing" /\ alerts[id].reason # "accepted_as_normal"
    BY <1>1, TargetIsOpen DEF IInv, RowsTyped, AcceptedIsOver, Firing
  <2> DEFINE more == [alerts[id] EXCEPT !.count = @ + 1]
  <2>2. /\ more \in AlertRow /\ more.condition = condition /\ more.status = "firing"
        /\ more.reason # "accepted_as_normal" /\ more.count = alerts[id].count + 1
    BY <2>1 DEF AlertRow
  <2>3. Counted(condition, id) = Rated(more)
    BY <1>1 DEF Counted
  <2> HIDE DEF more
  <2> QED
    BY <1>1, <2>2, <2>3, RatedRow
<1>2. CASE id \notin Firing
  <2>1. /\ Opened(condition) \in AlertRow
        /\ Opened(condition).condition = condition /\ Opened(condition).status = "firing"
        /\ Opened(condition).reason = "none" /\ Opened(condition).count = 1
    BY NoAlertRow DEF Opened, AlertRow
  <2>2. Counted(condition, id) = Opened(condition)
    BY <1>2 DEF Counted
  <2> QED
    BY <1>2, <2>1, <2>2
<1> QED
  BY <1>1, <1>2

\* The occurrences of every alert but the target stay as they are, and the
\* target has one more if the key is new.
LEMMA OneMore ==
  ASSUME IInv, NEW key, NEW id \in Ids, occurrences' = WithOccurrence(key, id)
  PROVE  /\ IsFiniteSet(DOMAIN occurrences')
         /\ \A k \in DOMAIN occurrences :
              k \in DOMAIN occurrences' /\ occurrences'[k] = occurrences[k]
         /\ \A k \in DOMAIN occurrences' :
              k \in DOMAIN occurrences \/ (k = key /\ occurrences'[k] = Unreviewed(id))
         /\ \A other \in Ids \ {id} : OccurrencesOf(other)' = OccurrencesOf(other)
         /\ key \notin DOMAIN occurrences =>
              /\ OccurrencesOf(id)' = OccurrencesOf(id) \cup {key}
              /\ Cardinality(OccurrencesOf(id)') = Cardinality(OccurrencesOf(id)) + 1
<1>1. DOMAIN occurrences' = DOMAIN occurrences \cup {key}
  BY DEF WithOccurrence
<1>2. /\ IsFiniteSet(DOMAIN occurrences')
      /\ IsFiniteSet(OccurrencesOf(id))
  <2>1. IsFiniteSet(DOMAIN occurrences)
    BY DEF IInv, OccurrencesKept
  <2>2. OccurrencesOf(id) \subseteq DOMAIN occurrences
    BY DEF OccurrencesOf
  <2> QED
    BY <1>1, <2>1, <2>2, FS_AddElement, FS_Subset
<1>3. \A k \in DOMAIN occurrences' :
        occurrences'[k] = IF k \in DOMAIN occurrences THEN occurrences[k] ELSE Unreviewed(id)
  BY DEF WithOccurrence
<1>4. \A other \in Ids \ {id} : OccurrencesOf(other)' = OccurrencesOf(other)
  BY <1>1, <1>3 DEF OccurrencesOf, Unreviewed
<1>5. ASSUME key \notin DOMAIN occurrences
      PROVE  /\ OccurrencesOf(id)' = OccurrencesOf(id) \cup {key}
             /\ Cardinality(OccurrencesOf(id)') = Cardinality(OccurrencesOf(id)) + 1
  <2>1. OccurrencesOf(id)' = OccurrencesOf(id) \cup {key}
    BY <1>1, <1>3, <1>5 DEF OccurrencesOf, Unreviewed
  <2>2. key \notin OccurrencesOf(id)
    BY <1>5 DEF OccurrencesOf
  <2> QED
    BY <1>2, <2>1, <2>2, FS_AddElement
<1> QED
  BY <1>1, <1>2, <1>3, <1>4, <1>5

\* One lemma for the three kinds of occurrence; resolved are the impairments
\* that a Bad result ends.
LEMMA OccurrenceKeeps ==
  ASSUME IInv, NEW condition \in Conditions, NEW id \in TargetOf(condition),
         NEW resolved \in SUBSET (Firing \ {id}), NEW key, NEW row \in AlertRow,
         row.condition = condition, row.status = "firing",
         row.reason # "accepted_as_normal",
         condition \in Indicators => row = Counted(condition, id) /\ key \notin DOMAIN occurrences,
         alerts' = [WithResolved(resolved, "other") EXCEPT ![id] = row],
         occurrences' = WithOccurrence(key, id)
  PROVE  IInv'
<1>1. id \in Ids
  BY TargetIsOpen
<1>2. /\ alerts'[id] = row
      /\ alerts' \in [Ids -> AlertRow]
      /\ \A other \in Ids \ {id} :
           /\ alerts'[other].condition = alerts[other].condition
           /\ alerts'[other].count = alerts[other].count
           /\ alerts'[other].severity = alerts[other].severity
           /\ \/ alerts'[other] = alerts[other]
              \/ alerts'[other].status = "resolved" /\ alerts'[other].reason = "other"
  BY <1>1, ResolvedRows
<1>3. OccurrencesKept'
  <2>1. ASSUME NEW k \in DOMAIN occurrences'
        PROVE  /\ occurrences'[k] \in Occurrence
               /\ alerts'[occurrences'[k].alert].status \in {"firing", "resolved"}
    <3>1. CASE k \in DOMAIN occurrences
      BY <1>2, <3>1, <1>1, OneMore DEF IInv, OccurrencesKept, Occurrence
    <3>2. CASE k \notin DOMAIN occurrences
      BY <1>1, <1>2, <3>2, OneMore DEF Occurrence, Unreviewed, Review
    <3> QED
      BY <3>1, <3>2
  <2> QED
    BY <2>1, <1>1, OneMore DEF OccurrencesKept
<1>4. AcceptedIsOver'
  BY <1>2 DEF IInv, AcceptedIsOver
<1>5. ASSUME NEW other \in Ids, alerts'[other].condition \in Indicators, other # id
      PROVE  /\ alerts'[other].status = "firing" => RemainingOf(other, occurrences)' # {}
             /\ alerts'[other].reason = "accepted_as_normal" => RemainingOf(other, occurrences)' = {}
             /\ alerts'[other].count = Cardinality(OccurrencesOf(other)')
             /\ alerts'[other].count > 1 =>
                  alerts'[other].severity = SeverityFor(alerts'[other].count)
  <2>1. OccurrencesOf(other)' = OccurrencesOf(other)
    BY <1>1, <1>5, OneMore
  <2>2. RemainingOf(other, occurrences)' = RemainingOf(other, occurrences)
    <3>1. \A k \in OccurrencesOf(other) : occurrences'[k] = occurrences[k]
      BY <1>1, OneMore DEF OccurrencesOf
    <3> QED
      BY <2>1, <3>1 DEF RemainingOf
  <2> QED
    BY <1>2, <1>5, <2>1, <2>2 DEF IInv, ReviewsDecideResolution, AnomalyCountsChunks
<1>6. ASSUME condition \in Indicators
      PROVE  /\ RemainingOf(id, occurrences)' # {}
             /\ row.count = Cardinality(OccurrencesOf(id)')
             /\ row.count > 1 => row.severity = SeverityFor(row.count)
  <2>1. /\ OccurrencesOf(id)' = OccurrencesOf(id) \cup {key}
        /\ Cardinality(OccurrencesOf(id)') = Cardinality(OccurrencesOf(id)) + 1
    BY <1>1, <1>6, OneMore
  <2>2. key \in RemainingOf(id, occurrences)'
    BY <1>1, <1>6, <2>1, OneMore DEF RemainingOf, OccurrencesOf, Unreviewed
  <2>3. row.count = Cardinality(OccurrencesOf(id)) + 1
    <3>1. CASE id \in Firing
      BY <1>1, <1>6, <3>1, CountedRow, TargetIsOpen DEF IInv, AnomalyCountsChunks
    <3>2. CASE id \notin Firing
      <4>1. OccurrencesOf(id) = {} /\ Cardinality({}) = 0
        BY <3>2, TargetIsOpen, FS_EmptySet
      <4>2. row.count = 1
        BY <1>6, <3>2, CountedRow
      <4> QED
        BY <4>1, <4>2
    <3> QED
      BY <3>1, <3>2
  <2> QED
    BY <1>6, <2>1, <2>2, <2>3, CountedRow
<1>7. ReviewsDecideResolution' /\ AnomalyCountsChunks'
  BY <1>2, <1>5, <1>6 DEF ReviewsDecideResolution, AnomalyCountsChunks
<1> QED
  BY <1>2, <1>3, <1>4, <1>7 DEF IInv, RowsTyped

LEMMA ConditionsDiffer ==
  /\ Indicators \subseteq Conditions /\ "monitoring" \in Conditions /\ "collection" \in Conditions
  /\ "monitoring" \notin Indicators /\ "collection" \notin Indicators
BY IndicatorsAssumption DEF Conditions

LEMMA RecordAnomalyKeeps ==
  ASSUME IInv, NEW i \in Indicators, NEW c \in Chunks, RecordAnomaly(i, c)
  PROVE  IInv'
<1>1. CASE AlreadyRecorded(i, c)
  BY <1>1, EndKeeps DEF RecordAnomaly, Resolve, FiringOn
<1>2. CASE ~AlreadyRecorded(i, c)
  <2>1. PICK id \in TargetOf(i) :
          /\ alerts' = [WithResolved(FiringOn({"monitoring"}), "other") EXCEPT ![id] = Counted(i, id)]
          /\ occurrences' = WithOccurrence(ChunkKey(i, c), id)
    BY <1>2 DEF RecordAnomaly, AddOccurrence
  <2>2. FiringOn({"monitoring"}) \in SUBSET (Firing \ {id})
    BY ConditionsDiffer, TargetIsOpen DEF FiringOn
  <2>3. ChunkKey(i, c) \notin DOMAIN occurrences
    BY <1>2 DEF AlreadyRecorded
  <2>4. /\ Counted(i, id) \in AlertRow /\ Counted(i, id).condition = i
        /\ Counted(i, id).status = "firing" /\ Counted(i, id).reason # "accepted_as_normal"
    BY CountedRow, ConditionsDiffer
  <2> QED
    BY <2>1, <2>2, <2>3, <2>4, ConditionsDiffer, OccurrenceKeeps
<1> QED
  BY <1>1, <1>2

LEMMA NothingResolved ==
  ASSUME IInv, NEW id \in Ids, NEW row
  PROVE  [alerts EXCEPT ![id] = row] = [WithResolved({}, "other") EXCEPT ![id] = row]
<1>1. WithResolved({}, "other") = alerts
  BY DEF WithResolved, IInv, RowsTyped
<1> QED
  BY <1>1

LEMMA RecordAnalysisFailureKeeps ==
  ASSUME IInv, NEW i \in Indicators, RecordAnalysisFailure(i)
  PROVE  IInv'
<1> DEFINE condition == "monitoring"
<1>1. PICK id \in TargetOf(condition) :
        /\ alerts' = [alerts EXCEPT ![id] = Counted(condition, id)]
        /\ occurrences' = WithOccurrence(MonitoringKey(analysed[i] + 1), id)
  BY DEF RecordAnalysisFailure
<1>2. /\ Counted(condition, id) \in AlertRow /\ Counted(condition, id).condition = condition
      /\ Counted(condition, id).status = "firing"
      /\ Counted(condition, id).reason # "accepted_as_normal"
  BY CountedRow, ConditionsDiffer
<1>3. alerts' = [WithResolved({}, "other") EXCEPT ![id] = Counted(condition, id)]
  BY <1>1, TargetIsOpen, NothingResolved
<1> QED
  BY <1>1, <1>2, <1>3, ConditionsDiffer, OccurrenceKeeps

LEMMA RecordCollectionFailureKeeps ==
  ASSUME IInv, RecordCollectionFailure
  PROVE  IInv'
<1> DEFINE condition == "collection"
<1>1. PICK id \in TargetOf(condition) :
        /\ alerts' = [alerts EXCEPT ![id] = CountedAttempt(id)]
        /\ occurrences' = WithOccurrence(CollectionKey(failures + 1), id)
  BY DEF RecordCollectionFailure
<1>2. /\ CountedAttempt(id) \in AlertRow /\ CountedAttempt(id).condition = condition
      /\ CountedAttempt(id).status = "firing"
      /\ CountedAttempt(id).reason # "accepted_as_normal"
  BY CountedRow, RatedRow, ConditionsDiffer DEF CountedAttempt
<1>3. alerts' = [WithResolved({}, "other") EXCEPT ![id] = CountedAttempt(id)]
  BY <1>1, TargetIsOpen, NothingResolved
<1> QED
  BY <1>1, <1>2, <1>3, ConditionsDiffer, OccurrenceKeeps

LEMMA ReviewKeeps ==
  ASSUME IInv, NEW key \in DOMAIN occurrences, NEW review \in Review
  PROVE  /\ DOMAIN Reviewed(key, review) = DOMAIN occurrences
         /\ \A k \in DOMAIN occurrences :
              /\ Reviewed(key, review)[k] \in Occurrence
              /\ Reviewed(key, review)[k].alert = occurrences[k].alert
              /\ k # key => Reviewed(key, review)[k] = occurrences[k]
         /\ Reviewed(key, review)[key].review = review
         /\ occurrences[key].alert \in Ids
<1> DEFINE mid == [occurrences[key] EXCEPT !.review = review]
           new == [mid EXCEPT !.revision = occurrences[key].revision + 1]
<1>1. \A k \in DOMAIN occurrences : occurrences[k] \in Occurrence
  BY DEF IInv, OccurrencesKept
<1>2. /\ new \in Occurrence /\ new.alert = occurrences[key].alert
      /\ new.review = review
  <2>1. occurrences[key] \in Occurrence
    BY <1>1
  <2>2. /\ mid \in Occurrence /\ mid.alert = occurrences[key].alert
        /\ mid.review = review
    BY <2>1 DEF Occurrence
  <2>3. occurrences[key].revision + 1 \in Nat
    BY <2>1 DEF Occurrence
  <2> HIDE DEF mid
  <2> QED
    BY <2>2, <2>3 DEF Occurrence
<1>3. Reviewed(key, review) =
        [k \in DOMAIN occurrences |-> IF k = key THEN new ELSE occurrences[k]]
  BY DEF Reviewed
<1>4. occurrences[key].alert \in Ids
  BY <1>1 DEF Occurrence
<1> HIDE DEF new
<1> QED
  BY <1>1, <1>2, <1>3, <1>4

\* A review of one occurrence, and the change of status that it decides.
LEMMA DecisionKeeps ==
  ASSUME IInv, NEW key \in DOMAIN occurrences, NEW review \in Review,
         occurrences' = Reviewed(key, review), alerts' \in [Ids -> AlertRow],
         \A id \in Ids :
           /\ alerts'[id].condition = alerts[id].condition
           /\ alerts'[id].count = alerts[id].count
           /\ alerts'[id].severity = alerts[id].severity
           /\ id # occurrences[key].alert => alerts'[id] = alerts[id]
           /\ alerts[id].status \in {"firing", "resolved"} =>
                alerts'[id].status \in {"firing", "resolved"},
         LET id == occurrences[key].alert IN
           /\ alerts'[id].reason = "accepted_as_normal" => alerts'[id].status = "resolved"
           /\ alerts'[id].condition \in Indicators =>
                /\ alerts'[id].status = "firing" => RemainingOf(id, occurrences') # {}
                /\ alerts'[id].reason = "accepted_as_normal" => RemainingOf(id, occurrences') = {}
  PROVE  IInv'
<1>1. /\ DOMAIN occurrences' = DOMAIN occurrences
      /\ \A k \in DOMAIN occurrences :
           /\ occurrences'[k] \in Occurrence
           /\ occurrences'[k].alert = occurrences[k].alert
           /\ k # key => occurrences'[k] = occurrences[k]
  BY ReviewKeeps
<1>2. OccurrencesKept'
  BY <1>1 DEF IInv, OccurrencesKept, Occurrence
<1>3. AcceptedIsOver'
  BY DEF IInv, AcceptedIsOver
<1>4. \A id \in Ids : OccurrencesOf(id)' = OccurrencesOf(id)
  BY <1>1 DEF OccurrencesOf
<1>5. AnomalyCountsChunks'
  BY <1>4 DEF IInv, AnomalyCountsChunks, SeverityFor
<1>6. ASSUME NEW id \in Ids
      PROVE  RemainingOf(id, occurrences)' =
               {k \in OccurrencesOf(id) : occurrences'[k].review # "accepted"}
  BY <1>4 DEF RemainingOf
<1>7. ASSUME NEW id \in Ids
      PROVE  RemainingOf(id, occurrences)' = RemainingOf(id, occurrences')
  <2>1. RemainingOf(id, occurrences') =
          {k \in OccurrencesOf(id) : occurrences'[k].review # "accepted"}
    BY DEF RemainingOf
  <2> QED
    BY <1>6, <2>1
<1>8. ASSUME NEW id \in Ids, id # occurrences[key].alert
      PROVE  RemainingOf(id, occurrences)' = RemainingOf(id, occurrences)
  <2>1. \A k \in OccurrencesOf(id) : occurrences'[k] = occurrences[k]
    BY <1>1, <1>8 DEF OccurrencesOf
  <2> QED
    BY <1>6, <2>1 DEF RemainingOf
<1>9. ReviewsDecideResolution'
  <2>1. ASSUME NEW id \in Ids, alerts'[id].condition \in Indicators
        PROVE  /\ alerts'[id].status = "firing" => RemainingOf(id, occurrences)' # {}
               /\ alerts'[id].reason = "accepted_as_normal" => RemainingOf(id, occurrences)' = {}
    <3>1. CASE id = occurrences[key].alert
      BY <1>7, <2>1, <3>1
    <3>2. CASE id # occurrences[key].alert
      BY <1>8, <2>1, <3>2 DEF IInv, ReviewsDecideResolution
    <3> QED
      BY <3>1, <3>2
  <2> QED
    BY <2>1 DEF ReviewsDecideResolution
<1> QED
  BY <1>2, <1>3, <1>5, <1>9 DEF IInv, RowsTyped

LEMMA AcceptAsNormalKeeps ==
  ASSUME IInv, NEW key \in DOMAIN occurrences, AcceptAsNormal(key)
  PROVE  IInv'
<1> DEFINE id == occurrences[key].alert
<1>1. occurrences' = Reviewed(key, "accepted") /\ "accepted" \in Review
  BY DEF AcceptAsNormal, Review
<1>2. id \in Ids
  BY ReviewKeeps DEF Review
<1>3. CASE id \in Firing /\ RemainingOf(id, occurrences') = {}
  <2>1. alerts' = WithResolved({id}, "accepted_as_normal")
    BY <1>3 DEF AcceptAsNormal, Resolve
  <2>2. {id} \in SUBSET Firing
    BY <1>3
  <2> QED
    BY <1>1, <1>2, <1>3, <2>1, <2>2, ResolvedRows, DecisionKeeps
<1>4. CASE ~(id \in Firing /\ RemainingOf(id, occurrences') = {})
  <2>1. alerts' = alerts
    BY <1>4 DEF AcceptAsNormal
  <2>2. alerts[id].status = "firing" => RemainingOf(id, occurrences') # {}
    BY <1>2, <1>4 DEF Firing
  <2>3. ASSUME alerts[id].reason = "accepted_as_normal", alerts[id].condition \in Indicators
        PROVE  RemainingOf(id, occurrences') = {}
    <3>1. \A k \in OccurrencesOf(id) : occurrences[k].review = "accepted"
      BY <1>2, <2>3 DEF IInv, ReviewsDecideResolution, RemainingOf
    <3>2. \A k \in OccurrencesOf(id) : occurrences'[k].review = "accepted"
      BY <1>1, <3>1, ReviewKeeps DEF OccurrencesOf
    <3> QED
      BY <3>2 DEF RemainingOf
  <2>4. alerts[id].reason = "accepted_as_normal" => alerts[id].status = "resolved"
    BY <1>2 DEF IInv, AcceptedIsOver
  <2> QED
    BY <1>1, <2>1, <2>2, <2>3, <2>4, DecisionKeeps DEF IInv, RowsTyped
<1> QED
  BY <1>3, <1>4

LEMMA RestoreVerdictKeeps ==
  ASSUME IInv, NEW key \in DOMAIN occurrences, RestoreVerdict(key)
  PROVE  IInv'
<1> DEFINE id == occurrences[key].alert
<1>1. occurrences' = Reviewed(key, "reverted") /\ "reverted" \in Review
  BY DEF RestoreVerdict, Review
<1>2. id \in Ids
  BY ReviewKeeps DEF Review
<1>3. RemainingOf(id, occurrences') # {}
  <2>1. key \in RemainingOf(id, occurrences')
    BY <1>1, ReviewKeeps DEF RemainingOf, OccurrencesOf
  <2> QED
    BY <2>1
<1>4. CASE ReopensOnRestore(id)
  <2>1. alerts' = [alerts EXCEPT ![id].status = "firing", ![id].reason = "none"]
    BY <1>4 DEF RestoreVerdict, Reopen
  <2>2. alerts' \in [Ids -> AlertRow]
    BY <1>2, <2>1 DEF IInv, RowsTyped, AlertRow
  <2>3. /\ alerts'[id].status = "firing" /\ alerts'[id].reason = "none"
        /\ \A other \in Ids :
             /\ alerts'[other].condition = alerts[other].condition
             /\ alerts'[other].count = alerts[other].count
             /\ alerts'[other].severity = alerts[other].severity
             /\ other # id => alerts'[other] = alerts[other]
    BY <1>2, <2>1 DEF IInv, RowsTyped, AlertRow
  <2>4. \A other \in Ids : alerts[other].status \in {"firing", "resolved"} =>
                            alerts'[other].status \in {"firing", "resolved"}
    BY <2>3
  <2> QED
    BY <1>1, <1>3, <2>2, <2>3, <2>4, DecisionKeeps
<1>5. CASE ~ReopensOnRestore(id)
  <2>1. alerts' = alerts
    BY <1>5 DEF RestoreVerdict
  <2>2. alerts[id].reason # "accepted_as_normal"
    BY <1>2, <1>5 DEF ReopensOnRestore, IInv, AcceptedIsOver
  <2> QED
    BY <1>1, <1>3, <2>1, <2>2, DecisionKeeps DEF IInv, RowsTyped
<1> QED
  BY <1>4, <1>5

----------------------------------------------------------------------------
(* Retention, and the steps that touch neither table. *)

LEMMA DeleteExpiredKeeps ==
  ASSUME IInv, NEW ids \in SUBSET Ids, DeleteExpired(ids)
  PROVE  IInv'
<1>1. /\ DOMAIN occurrences' = {k \in DOMAIN occurrences : occurrences[k].alert \notin ids}
      /\ \A k \in DOMAIN occurrences' : occurrences'[k] = occurrences[k]
  BY DEF DeleteExpired
<1>2. /\ \A id \in Ids \ ids : alerts'[id] = alerts[id]
      /\ \A id \in ids : alerts'[id] = [NoAlert EXCEPT !.status = "deleted"]
      /\ alerts' = [id \in Ids |-> alerts'[id]]
  BY DEF DeleteExpired
<1> DEFINE deleted == [NoAlert EXCEPT !.status = "deleted"]
<1>3. /\ deleted \in AlertRow /\ deleted.status = "deleted"
      /\ deleted.count = 0 /\ deleted.reason = "none"
  BY NoAlertRow DEF AlertRow
<1>4. RowsTyped'
  BY <1>2, <1>3 DEF IInv, RowsTyped
<1>5. OccurrencesKept'
  <2>1. IsFiniteSet(DOMAIN occurrences')
    BY <1>1, FS_Subset DEF IInv, OccurrencesKept
  <2>2. ASSUME NEW k \in DOMAIN occurrences'
        PROVE  /\ occurrences'[k] \in Occurrence
               /\ alerts'[occurrences'[k].alert].status \in {"firing", "resolved"}
    BY <1>1, <1>2 DEF IInv, OccurrencesKept, Occurrence
  <2> QED
    BY <2>1, <2>2 DEF OccurrencesKept
<1>6. AcceptedIsOver'
  BY <1>2, <1>3 DEF IInv, AcceptedIsOver
<1>7. /\ \A id \in Ids \ ids : /\ OccurrencesOf(id)' = OccurrencesOf(id)
                              /\ RemainingOf(id, occurrences)' = RemainingOf(id, occurrences)
      /\ \A id \in ids : OccurrencesOf(id)' = {}
  BY <1>1 DEF OccurrencesOf, RemainingOf
<1>8. ReviewsDecideResolution'
  <2>1. \A id \in ids : alerts'[id].status # "firing" /\ alerts'[id].reason # "accepted_as_normal"
    BY <1>2, <1>3
  <2> QED
    BY <1>2, <1>7, <2>1 DEF IInv, ReviewsDecideResolution
<1>9. AnomalyCountsChunks'
  <2>1. \A id \in ids : alerts'[id].count = 0 /\ Cardinality(OccurrencesOf(id)') = 0
    BY <1>2, <1>3, <1>7, FS_EmptySet
  <2>2. \A id \in Ids \ ids : /\ alerts'[id] = alerts[id]
                              /\ Cardinality(OccurrencesOf(id)') = Cardinality(OccurrencesOf(id))
    BY <1>2, <1>7
  <2> QED
    BY <2>1, <2>2 DEF IInv, AnomalyCountsChunks, SeverityFor
<1> QED
  BY <1>4, <1>5, <1>6, <1>8, <1>9 DEF IInv

LEMMA OtherStepsKeep ==
  ASSUME IInv, UNCHANGED <<alerts, occurrences>>
  PROVE  IInv'
BY DEF IInv, RowsTyped, OccurrencesKept, AcceptedIsOver, ReviewsDecideResolution,
       AnomalyCountsChunks, OccurrencesOf, RemainingOf, SeverityFor

LEMMA ManagerKeeps ==
  ASSUME IInv, Manager
  PROVE  IInv'
<1>1. ASSUME NEW i \in Indicators, RecordGood(i)
      PROVE  IInv'
  BY <1>1, EndKeeps DEF RecordGood, Resolve, FiringOn
<1>2. ASSUME NEW ids \in SUBSET Firing, End(ids)
      PROVE  IInv'
  BY <1>2, EndKeeps DEF End, Resolve
<1>3. CASE ResolveCollection
  BY <1>2, <1>3 DEF ResolveCollection, FiringOn
<1>4. CASE InterruptAnomalies
  BY <1>2, <1>4 DEF InterruptAnomalies, FiringOn
<1>5. CASE CloseService
  BY <1>2, <1>5 DEF CloseService
<1> QED
  BY <1>1, <1>3, <1>4, <1>5, RecordAnomalyKeeps, RecordAnalysisFailureKeeps,
     RecordCollectionFailureKeeps, AcceptAsNormalKeeps, RestoreVerdictKeeps DEF Manager

LEMMA DispatcherKeeps ==
  ASSUME IInv, Dispatcher
  PROVE  IInv'
<1>1. CASE RecordDelivery
  BY <1>1, HandOffKeeps DEF RecordDelivery
<1>2. CASE \E accepted, answered \in BOOLEAN : Send(accepted, answered)
  BY <1>2, OtherStepsKeep DEF Send, tables
<1>3. CASE \E ids \in SUBSET Ids : DeleteExpired(ids)
  BY <1>3, DeleteExpiredKeeps
<1>4. CASE Claim \/ ReadStatus \/ RecordFailure \/ Abandon \/ EnqueueRefreshes
  BY <1>4, OtherStepsKeep DEF Claim, ReadStatus, RecordFailure, Abandon, EnqueueRefreshes
<1> QED
  BY <1>1, <1>2, <1>3, <1>4 DEF Dispatcher

LEMMA TimeKeeps ==
  ASSUME IInv, Time
  PROVE  IInv'
<1>1. CASE \E id \in Ids : Ages(id)
  BY <1>1, HandOffKeeps DEF Ages
<1>2. CASE \E k \in 1..MaxPending : ComesDue(k)
  BY <1>2, OtherStepsKeep DEF ComesDue
<1> QED
  BY <1>1, <1>2 DEF Time

LEMMA StartsSound ==
  ASSUME Init
  PROVE  IInv
<1>1. /\ DOMAIN occurrences = {} /\ \A id \in Ids : OccurrencesOf(id) = {}
      /\ IsFiniteSet({}) /\ Cardinality({}) = 0
  BY FS_EmptySet DEF Init, OccurrencesOf
<1>2. /\ alerts \in [Ids -> AlertRow]
      /\ \A id \in Ids : alerts[id].status = "absent" /\ alerts[id].count = 0
                        /\ alerts[id].reason = "none"
  BY NoAlertRow DEF Init
<1>3. RowsTyped /\ OccurrencesKept
  BY <1>1, <1>2 DEF RowsTyped, OccurrencesKept
<1>4. AcceptedIsOver /\ ReviewsDecideResolution
  BY <1>2 DEF AcceptedIsOver, ReviewsDecideResolution
<1>5. AnomalyCountsChunks
  <2>1. \A id \in Ids : Cardinality(OccurrencesOf(id)) = 0
    BY <1>1, Zenon
  <2> QED
    BY <1>2, <2>1 DEF AnomalyCountsChunks
<1> QED
  BY <1>3, <1>4, <1>5 DEF IInv

----------------------------------------------------------------------------
(* The rows of a table, whatever their order. *)

RowsOf(rows) == {rows[k] : k \in DOMAIN rows}

LEMMA AppendRows ==
  ASSUME NEW S, NEW rows \in Seq(S), NEW row \in S
  PROVE  /\ Append(rows, row) \in Seq(S)
         /\ RowsOf(Append(rows, row)) = RowsOf(rows) \cup {row}
<1>1. /\ Len(rows) \in Nat /\ DOMAIN rows = 1..Len(rows)
      /\ Append(rows, row) \in Seq(S)
      /\ DOMAIN Append(rows, row) = 1..(Len(rows) + 1)
      /\ \A k \in 1..Len(rows) : Append(rows, row)[k] = rows[k]
      /\ Append(rows, row)[Len(rows) + 1] = row
  OBVIOUS
<1>2. RowsOf(Append(rows, row)) \subseteq RowsOf(rows) \cup {row}
  BY <1>1 DEF RowsOf
<1>3. RowsOf(rows) \subseteq RowsOf(Append(rows, row))
  BY <1>1 DEF RowsOf
<1>4. row \in RowsOf(Append(rows, row))
  BY <1>1 DEF RowsOf
<1> QED
  BY <1>1, <1>2, <1>3, <1>4

LEMMA ConcatRows ==
  ASSUME NEW S, NEW s \in Seq(S), NEW t \in Seq(S)
  PROVE  s \o t \in Seq(S) /\ RowsOf(s \o t) = RowsOf(s) \cup RowsOf(t)
<1>1. /\ Len(s) \in Nat /\ Len(t) \in Nat /\ s \o t \in Seq(S)
      /\ DOMAIN s = 1..Len(s) /\ DOMAIN t = 1..Len(t)
      /\ DOMAIN (s \o t) = 1..(Len(s) + Len(t))
      /\ \A i \in 1..(Len(s) + Len(t)) :
           (s \o t)[i] = IF i <= Len(s) THEN s[i] ELSE t[i - Len(s)]
  OBVIOUS
<1>2. \A i \in DOMAIN (s \o t) : (s \o t)[i] \in RowsOf(s) \cup RowsOf(t)
  BY <1>1 DEF RowsOf
<1>3. \A i \in DOMAIN s : s[i] \in RowsOf(s \o t)
  BY <1>1 DEF RowsOf
<1>4. \A i \in DOMAIN t : t[i] \in RowsOf(s \o t)
  <2>1. ASSUME NEW i \in DOMAIN t
        PROVE  i + Len(s) \in DOMAIN (s \o t) /\ (s \o t)[i + Len(s)] = t[i]
    BY <1>1
  <2> QED
    BY <2>1 DEF RowsOf
<1> QED
  BY <1>1, <1>2, <1>3, <1>4 DEF RowsOf

\* What Only builds up from the first n rows.
IsOnly(g, rows, kept, n) ==
  g = [i \in 0..n |->
         IF i = 0 THEN <<>>
         ELSE IF i \in kept THEN Append(g[i-1], rows[i]) ELSE g[i-1]]

LEMMA OnlyExists ==
  ASSUME NEW rows, NEW kept, NEW n \in Nat
  PROVE  \E g : IsOnly(g, rows, kept, n)
<1> DEFINE T == {m \in Nat : \E g : IsOnly(g, rows, kept, m)}
<1>1. 0 \in T
  <2>1. IsOnly([i \in 0..0 |-> <<>>], rows, kept, 0)
    BY DEF IsOnly
  <2> QED
    BY <2>1
<1>2. ASSUME NEW m \in T
      PROVE  m + 1 \in T
  <2>1. PICK g : IsOnly(g, rows, kept, m)
    OBVIOUS
  <2> DEFINE next == IF m + 1 \in kept THEN Append(g[m], rows[m + 1]) ELSE g[m]
             h == [i \in 0..(m + 1) |-> IF i = m + 1 THEN next ELSE g[i]]
  <2>2. \A i \in 0..m : g[i] = IF i = 0 THEN <<>>
                               ELSE IF i \in kept THEN Append(g[i-1], rows[i]) ELSE g[i-1]
    BY <2>1 DEF IsOnly
  <2>3. \A i \in 0..(m + 1) :
          h[i] = IF i = 0 THEN <<>>
                 ELSE IF i \in kept THEN Append(h[i-1], rows[i]) ELSE h[i-1]
    BY <2>2
  <2> HIDE DEF next
  <2>4. IsOnly(h, rows, kept, m + 1)
    BY <2>3 DEF IsOnly
  <2> QED
    BY <2>4
<1>3. T \in SUBSET Nat
  OBVIOUS
<1>4. T = Nat
  <2> HIDE DEF T
  <2> QED
    BY <1>1, <1>2, <1>3, NatSetInduction
<1> QED
  BY <1>4

LEMMA OnlyIs ==
  ASSUME NEW rows, NEW kept, Len(rows) \in Nat
  PROVE  \E g : IsOnly(g, rows, kept, Len(rows)) /\ Only(rows, kept) = g[Len(rows)]
<1> DEFINE g == CHOOSE f : IsOnly(f, rows, kept, Len(rows))
<1>1. IsOnly(g, rows, kept, Len(rows))
  BY OnlyExists
<1>2. Only(rows, kept) = g[Len(rows)]
  BY DEF Only, IsOnly
<1> QED
  BY <1>1, <1>2

LEMMA OnlyKept ==
  ASSUME NEW S, NEW rows \in Seq(S), NEW kept
  PROVE  /\ Only(rows, kept) \in Seq(S)
         /\ RowsOf(Only(rows, kept)) = {rows[k] : k \in DOMAIN rows \cap kept}
<1> DEFINE N == Len(rows)
<1>1. N \in Nat /\ DOMAIN rows = 1..N /\ \A k \in 1..N : rows[k] \in S
  OBVIOUS
<1>2. PICK g : IsOnly(g, rows, kept, N) /\ Only(rows, kept) = g[N]
  BY <1>1, OnlyIs
<1> DEFINE T == {n \in Nat : n <= N =>
                   /\ g[n] \in Seq(S)
                   /\ RowsOf(g[n]) = {rows[k] : k \in 1..n \cap kept}}
<1>3. 0 \in T
  <2>1. g[0] = <<>>
    BY <1>1, <1>2 DEF IsOnly
  <2>2. <<>> \in Seq(S) /\ RowsOf(<<>>) = {}
    BY DEF RowsOf
  <2>3. {rows[k] : k \in 1..0 \cap kept} = {}
    OBVIOUS
  <2> QED
    BY <2>1, <2>2, <2>3
<1>4. ASSUME NEW n \in T
      PROVE  n + 1 \in T
  <2> SUFFICES ASSUME n + 1 <= N
               PROVE  /\ g[n + 1] \in Seq(S)
                      /\ RowsOf(g[n + 1]) = {rows[k] : k \in 1..(n + 1) \cap kept}
    OBVIOUS
  <2>1. g[n + 1] = IF n + 1 \in kept THEN Append(g[n], rows[n + 1]) ELSE g[n]
    <3>1. \A i \in 0..N :
            g[i] = IF i = 0 THEN <<>>
                   ELSE IF i \in kept THEN Append(g[i-1], rows[i]) ELSE g[i-1]
      <4> HIDE DEF N
      <4> QED
        BY <1>2 DEF IsOnly
    <3>2. n \in Nat /\ n + 1 \in 0..N /\ n + 1 # 0 /\ (n + 1) - 1 = n
      BY <1>1
    <3> HIDE DEF N, T
    <3> QED
      BY <3>1, <3>2
  <2>2. g[n] \in Seq(S) /\ RowsOf(g[n]) = {rows[k] : k \in 1..n \cap kept}
    BY <1>1
  <2>3. CASE n + 1 \in kept
    <3>1. rows[n + 1] \in S
      BY <1>1
    <3>2. RowsOf(Append(g[n], rows[n + 1])) = RowsOf(g[n]) \cup {rows[n + 1]}
      BY <2>2, <3>1, AppendRows
    <3>3. 1..(n + 1) \cap kept = (1..n \cap kept) \cup {n + 1}
      BY <2>3
    <3>4. {rows[k] : k \in 1..(n + 1) \cap kept}
            = {rows[k] : k \in 1..n \cap kept} \cup {rows[n + 1]}
      BY <3>3
    <3> QED
      BY <2>1, <2>2, <2>3, <3>1, <3>2, <3>4
  <2>4. CASE n + 1 \notin kept
    <3>1. 1..(n + 1) \cap kept = 1..n \cap kept
      BY <2>4
    <3> QED
      BY <2>1, <2>2, <2>4, <3>1
  <2> QED
    BY <2>3, <2>4
<1>5. N \in T
  <2> HIDE DEF T
  <2>1. T = Nat
    <3>1. T \in SUBSET Nat
      BY DEF T
    <3> QED
      BY <1>3, <1>4, <3>1, NatSetInduction
  <2> QED
    BY <1>1, <2>1
<1> QED
  BY <1>1, <1>2, <1>5

----------------------------------------------------------------------------
(* The outbox.  What it says of the rows is said of their set. *)

\* The row the dispatcher works on, but for its next attempt.
HeldRow(row) ==
  /\ dispatcher.step # "idle"
  /\ row.alert = dispatcher.row.alert /\ row.operation = dispatcher.row.operation
  /\ row.severity = dispatcher.row.severity

OutboxTyped ==
  /\ pending \in Seq(Row) /\ delivered \in [Ids -> SUBSET Severities]
  /\ am \in [Ids -> SUBSET Severities] /\ unrecorded \in [Ids -> SUBSET Severities]
  /\ \/ dispatcher = Idle
     \/ dispatcher \in [step : {"claimed", "sending", "sent", "failed"}, row : Row]

\* Only the row of the dispatcher is leased.
ClaimedIsHeld == \A row \in RowsOf(pending) : row.attempt = "claimed" => HeldRow(row)

\* A resolution that was answered has withdrawn its form.
WithdrawalIsSent ==
  dispatcher.step = "sent" /\ dispatcher.row.operation = "resolved"
    => dispatcher.row.severity \notin am[dispatcher.row.alert]

\* No form of an alert is held by Alertmanager that the outbox does not know of.
FormsAreKnown ==
  \A id \in Ids :
    alerts[id].status # "deleted" => am[id] \subseteq delivered[id] \cup unrecorded[id]

FiringRows(rows) == \A row \in rows : row.operation = "firing" => alerts[row.alert].status = "firing"

Withdraws(rows, id, s) ==
  \E row \in rows : row.alert = id /\ row.operation = "resolved" /\ row.severity = s

FormsEnd ==
  \A id \in Ids : alerts[id].status = "resolved" =>
    \A s \in am[id] : s \in unrecorded[id] \/ Withdraws(RowsOf(pending), id, s)

OutboxInv ==
  /\ OutboxTyped /\ ClaimedIsHeld /\ WithdrawalIsSent /\ FormsAreKnown
  /\ FiringRows(RowsOf(pending)) /\ FormsEnd

LEMMA RowsAreTyped ==
  ASSUME NEW rows \in Seq(Row), NEW row \in RowsOf(rows)
  PROVE  row \in Row
BY DEF RowsOf

\* What a transaction of the manager may do to the outbox.
LEMMA TransactionKeeps ==
  ASSUME OutboxInv, UNCHANGED <<delivered, dispatcher, am, unrecorded>>,
         pending' \in Seq(Row),
         \A row \in RowsOf(pending') : row \in RowsOf(pending) \/ row.attempt = "due",
         \A row \in RowsOf(pending) : row.operation = "resolved" => row \in RowsOf(pending'),
         \A row \in RowsOf(pending') : row.operation = "firing" =>
           alerts'[row.alert].status = "firing",
         \A id \in Ids :
           /\ alerts'[id].status # "deleted" => alerts[id].status # "deleted"
           /\ alerts'[id].status = "resolved" =>
                \/ alerts[id].status = "resolved"
                \/ \A s \in delivered[id] : NewRow(id, "resolved", s) \in RowsOf(pending')
  PROVE  OutboxInv'
<1>1. OutboxTyped'
  BY DEF OutboxInv, OutboxTyped
<1>2. ClaimedIsHeld'
  <2>1. ASSUME NEW row \in RowsOf(pending'), row.attempt = "claimed"
        PROVE  HeldRow(row)
    BY <2>1 DEF OutboxInv, ClaimedIsHeld
  <2>2. RowsOf(pending)' = RowsOf(pending')
    BY DEF RowsOf
  <2>3. \A row : HeldRow(row)' <=> HeldRow(row)
    BY DEF HeldRow
  <2> QED
    BY <2>1, <2>2, <2>3 DEF ClaimedIsHeld
<1>3. WithdrawalIsSent' /\ FormsAreKnown'
  BY DEF OutboxInv, WithdrawalIsSent, FormsAreKnown
<1>4. FiringRows(RowsOf(pending))'
  BY DEF FiringRows, RowsOf
<1>5. FormsEnd'
  <2>1. ASSUME NEW id \in Ids, alerts'[id].status = "resolved", NEW s \in am[id],
               s \notin unrecorded[id]
        PROVE  Withdraws(RowsOf(pending'), id, s)
    <3>1. CASE alerts[id].status = "resolved"
      <4>1. PICK row \in RowsOf(pending) :
              row.alert = id /\ row.operation = "resolved" /\ row.severity = s
        BY <2>1, <3>1 DEF OutboxInv, FormsEnd, Withdraws
      <4> QED
        BY <4>1 DEF Withdraws
    <3>2. CASE alerts[id].status # "resolved"
      <4>1. s \in delivered[id]
        BY <2>1 DEF OutboxInv, FormsAreKnown
      <4>2. NewRow(id, "resolved", s) \in RowsOf(pending')
        BY <2>1, <3>2, <4>1
      <4> QED
        BY <4>2 DEF Withdraws, NewRow
    <3> QED
      BY <3>1, <3>2
  <2>2. \A id, s : Withdraws(RowsOf(pending), id, s)' <=> Withdraws(RowsOf(pending'), id, s)
    BY DEF Withdraws, RowsOf
  <2> QED
    BY <2>1, <2>2 DEF FormsEnd
<1> QED
  BY <1>1, <1>2, <1>3, <1>4, <1>5 DEF OutboxInv

----------------------------------------------------------------------------
(* Rows that are taken out, and rows that are put in. *)

LEMMA FiringRowsGo ==
  ASSUME NEW rows \in Seq(Row), NEW ids
  PROVE  /\ WithoutFiring(rows, ids) \in Seq(Row)
         /\ RowsOf(WithoutFiring(rows, ids)) = {row \in RowsOf(rows) : ~IsFiringOf(row, ids)}
<1> DEFINE kept == {k \in DOMAIN rows : ~IsFiringOf(rows[k], ids)}
<1>1. /\ Only(rows, kept) \in Seq(Row)
      /\ RowsOf(Only(rows, kept)) = {rows[k] : k \in DOMAIN rows \cap kept}
  BY OnlyKept
<1>2. WithoutFiring(rows, ids) = Only(rows, kept)
  BY DEF WithoutFiring
<1>3. {rows[k] : k \in DOMAIN rows \cap kept} = {row \in RowsOf(rows) : ~IsFiringOf(row, ids)}
  BY DEF RowsOf
<1> QED
  BY <1>1, <1>2, <1>3

LEMMA ClaimedRowGoes ==
  ASSUME NEW rows \in Seq(Row)
  PROVE  /\ Unclaimed(rows) \in Seq(Row)
         /\ RowsOf(Unclaimed(rows)) = {row \in RowsOf(rows) : row.attempt # "claimed"}
<1> DEFINE kept == {k \in DOMAIN rows : rows[k].attempt # "claimed"}
<1>1. /\ Only(rows, kept) \in Seq(Row)
      /\ RowsOf(Only(rows, kept)) = {rows[k] : k \in DOMAIN rows \cap kept}
  BY OnlyKept
<1>2. Unclaimed(rows) = Only(rows, kept)
  BY DEF Unclaimed
<1>3. {rows[k] : k \in DOMAIN rows \cap kept} = {row \in RowsOf(rows) : row.attempt # "claimed"}
  BY DEF RowsOf
<1> QED
  BY <1>1, <1>2, <1>3

LEMMA NewRowTyped ==
  ASSUME NEW id \in Ids, NEW operation \in {"firing", "resolved"}, NEW severity \in Severities
  PROVE  /\ NewRow(id, operation, severity) \in Row
         /\ NewRow(id, operation, severity).attempt = "due"
         /\ NewRow(id, operation, severity).operation = operation
         /\ NewRow(id, operation, severity).alert = id
         /\ NewRow(id, operation, severity).severity = severity
BY DEF NewRow, Row

LEMMA OrderIsFinite ==
  ASSUME NEW S, IsFiniteSet(S), NEW order \in Orders(S)
  PROVE  /\ Cardinality(S) \in Nat /\ order \in [1..Cardinality(S) -> S]
         /\ \A x \in S : \E k \in 1..Cardinality(S) : order[k] = x
BY FS_CardinalityType DEF Orders

LEMMA SeveritiesFinite == IsFiniteSet(Severities) /\ IsFiniteSet(Ids)
<1>1. IsFiniteSet(Severities)
  <2>1. Severities = {"warning"} \cup {"critical"}
    BY DEF Severities
  <2> QED
    BY <2>1, FS_Singleton, FS_AddElement
<1>2. IsFiniteSet(Ids)
  BY FS_Interval, BoundsAssumption DEF Ids
<1> QED
  BY <1>1, <1>2

LEMMA ResolutionRows ==
  ASSUME delivered \in [Ids -> SUBSET Severities], NEW ids \in SUBSET Ids,
         NEW resolutions \in Resolutions(ids)
  PROVE  /\ resolutions \in Seq(Row)
         /\ \A row \in RowsOf(resolutions) : row.operation = "resolved" /\ row.attempt = "due"
         /\ \A id \in ids : \A s \in delivered[id] :
              NewRow(id, "resolved", s) \in RowsOf(resolutions)
<1> DEFINE S == DeliveredForms(ids)
<1>1. /\ S \subseteq Ids \X Severities
      /\ \A id \in ids : \A s \in delivered[id] : <<id, s>> \in S
  BY DEF DeliveredForms
<1>2. IsFiniteSet(S)
  BY <1>1, SeveritiesFinite, FS_Product, FS_Subset
<1>3. PICK order \in Orders(S) :
        resolutions = [k \in DOMAIN order |-> NewRow(order[k][1], "resolved", order[k][2])]
  BY DEF Resolutions
<1> HIDE DEF S
<1>4. /\ Cardinality(S) \in Nat /\ order \in [1..Cardinality(S) -> S]
      /\ \A x \in S : \E k \in 1..Cardinality(S) : order[k] = x
  BY <1>2, <1>3, OrderIsFinite
<1>5. \A k \in 1..Cardinality(S) :
        /\ resolutions[k] = NewRow(order[k][1], "resolved", order[k][2])
        /\ order[k][1] \in Ids /\ order[k][2] \in Severities
  BY <1>1, <1>3, <1>4
<1>6. DOMAIN resolutions = 1..Cardinality(S)
  BY <1>3, <1>4
<1>7. \A k \in 1..Cardinality(S) :
        resolutions[k] \in Row /\ resolutions[k].operation = "resolved" /\ resolutions[k].attempt = "due"
  BY <1>5, NewRowTyped
<1>8. resolutions \in Seq(Row)
  <2>1. resolutions \in [1..Cardinality(S) -> Row]
    BY <1>3, <1>6, <1>7
  <2> QED
    BY <1>4, <2>1
<1>9. ASSUME NEW id \in ids, NEW s \in delivered[id]
      PROVE  NewRow(id, "resolved", s) \in RowsOf(resolutions)
  <2>1. PICK k \in 1..Cardinality(S) : order[k] = <<id, s>>
    BY <1>1, <1>4
  <2>2. resolutions[k] = NewRow(id, "resolved", s)
    BY <1>5, <2>1
  <2> QED
    BY <1>6, <2>2 DEF RowsOf
<1> QED
  BY <1>6, <1>7, <1>8, <1>9 DEF RowsOf

LEMMA RowsOfResolved ==
  ASSUME delivered \in [Ids -> SUBSET Severities], NEW ids \in SUBSET Ids,
         NEW resolutions \in Resolutions(ids), NEW rows \in Seq(Row)
  PROVE  LET new == Resolved(rows, ids, resolutions) IN
         /\ new \in Seq(Row)
         /\ \A row \in RowsOf(new) :
              \/ row \in RowsOf(rows) /\ ~IsFiringOf(row, ids)
              \/ row.operation = "resolved" /\ row.attempt = "due"
         /\ \A row \in RowsOf(rows) : ~IsFiringOf(row, ids) => row \in RowsOf(new)
         /\ \A id \in ids : \A s \in delivered[id] : NewRow(id, "resolved", s) \in RowsOf(new)
BY FiringRowsGo, ResolutionRows, ConcatRows DEF Resolved

----------------------------------------------------------------------------
(* The transactions of the manager. *)

\* Alerts are resolved, and the rows ROWS of the others are put in.
LEMMA EndsAndNotifies ==
  ASSUME IInv, OutboxInv, NEW ids \in SUBSET Firing, NEW resolutions \in Resolutions(ids),
         NEW rows, pending' = rows,
         UNCHANGED <<delivered, dispatcher, am, unrecorded>>,
         rows \in Seq(Row),
         \A row \in RowsOf(rows) :
           row \in RowsOf(Resolved(pending, ids, resolutions)) \/ row.attempt = "due",
         \A row \in RowsOf(Resolved(pending, ids, resolutions)) :
           row.operation = "resolved" => row \in RowsOf(rows),
         \A row \in RowsOf(rows) :
           row.operation = "firing" =>
             \/ row \in RowsOf(Resolved(pending, ids, resolutions))
             \/ alerts'[row.alert].status = "firing",
         \A id \in ids : alerts'[id].status = "resolved",
         \A id \in Ids \ ids :
           \/ alerts'[id].status = alerts[id].status
           \/ alerts'[id].status = "firing" /\ alerts[id].status # "deleted"
  PROVE  OutboxInv'
<1> DEFINE new == Resolved(pending, ids, resolutions)
<1>1. /\ delivered \in [Ids -> SUBSET Severities] /\ pending \in Seq(Row)
      /\ ids \in SUBSET Ids
  BY DEF OutboxInv, OutboxTyped, Firing
<1>2. /\ \A row \in RowsOf(new) :
           \/ row \in RowsOf(pending) /\ ~IsFiringOf(row, ids)
           \/ row.operation = "resolved" /\ row.attempt = "due"
      /\ \A row \in RowsOf(pending) : ~IsFiringOf(row, ids) => row \in RowsOf(new)
      /\ \A id \in ids : \A s \in delivered[id] : NewRow(id, "resolved", s) \in RowsOf(new)
  BY <1>1, RowsOfResolved
<1> HIDE DEF new
<1>3. \A row \in RowsOf(pending') : row \in RowsOf(pending) \/ row.attempt = "due"
  BY <1>2 DEF new
<1>4. \A row \in RowsOf(pending) : row.operation = "resolved" => row \in RowsOf(pending')
  BY <1>2 DEF new, IsFiringOf
<1>5. ASSUME NEW row \in RowsOf(pending'), row.operation = "firing"
      PROVE  alerts'[row.alert].status = "firing"
  <2>1. CASE row \in RowsOf(new)
    <3>1. row \in RowsOf(pending) /\ ~IsFiringOf(row, ids)
      BY <1>2, <1>5, <2>1
    <3>2. row.alert \in Ids \ ids /\ alerts[row.alert].status = "firing"
      BY <1>1, <1>5, <3>1, RowsAreTyped DEF IsFiringOf, Row, OutboxInv, FiringRows
    <3> QED
      BY <3>2
  <2>2. CASE row \notin RowsOf(new)
    BY <1>5, <2>2 DEF new
  <2> QED
    BY <2>1, <2>2
<1>6. ASSUME NEW id \in Ids
      PROVE  /\ alerts'[id].status # "deleted" => alerts[id].status # "deleted"
             /\ alerts'[id].status = "resolved" =>
                  \/ alerts[id].status = "resolved"
                  \/ \A s \in delivered[id] : NewRow(id, "resolved", s) \in RowsOf(pending')
  <2>1. CASE id \in ids
    <3>1. alerts[id].status = "firing"
      BY <2>1 DEF Firing
    <3>2. \A s \in delivered[id] : NewRow(id, "resolved", s) \in RowsOf(new)
      BY <1>2, <2>1
    <3>3. \A s \in delivered[id] : NewRow(id, "resolved", s).operation = "resolved"
      BY DEF NewRow
    <3>4. \A s \in delivered[id] : NewRow(id, "resolved", s) \in RowsOf(pending')
      BY <3>2, <3>3 DEF new
    <3> QED
      BY <3>1, <3>4
  <2>2. CASE id \notin ids
    BY <2>2
  <2> QED
    BY <2>1, <2>2
<1> QED
  BY <1>3, <1>4, <1>5, <1>6, TransactionKeeps

LEMMA ResolveKeepsOutbox ==
  ASSUME IInv, OutboxInv, NEW ids \in SUBSET Firing, NEW reason \in {"other", "accepted_as_normal"},
         Resolve(ids, reason), UNCHANGED <<delivered, dispatcher, am, unrecorded>>
  PROVE  OutboxInv'
<1>1. PICK resolutions \in Resolutions(ids) : pending' = Resolved(pending, ids, resolutions)
  BY DEF Resolve
<1>2. Resolved(pending, ids, resolutions) \in Seq(Row)
  BY RowsOfResolved DEF OutboxInv, OutboxTyped, Firing
<1>3. /\ \A id \in ids : alerts'[id].status = "resolved"
      /\ \A id \in Ids \ ids : alerts'[id].status = alerts[id].status
  BY ResolvedRows DEF Resolve, Firing
<1>4. \A row \in RowsOf(pending') : row \in RowsOf(Resolved(pending, ids, resolutions))
  BY <1>1
<1>5. \A row \in RowsOf(Resolved(pending, ids, resolutions)) : row \in RowsOf(pending')
  BY <1>1
<1> HIDE DEF Resolve
<1> QED
  BY <1>1, <1>2, <1>3, EndsAndNotifies

LEMMA RetiredRows ==
  ASSUME NEW rows \in Seq(Row), NEW id \in Ids
  PROVE  LET new == RetireWarning(rows, id) IN
         /\ new \in Seq(Row)
         /\ \A row \in RowsOf(new) :
              row \in RowsOf(rows) \/ (row.operation = "resolved" /\ row.attempt = "due")
         /\ \A row \in RowsOf(rows) : row.operation = "resolved" => row \in RowsOf(new)
<1> DEFINE kept == {k \in DOMAIN rows :
                      ~(IsFiringOf(rows[k], {id}) /\ rows[k].severity = "warning")}
<1>1. NewRow(id, "resolved", "warning") \in Row
      /\ NewRow(id, "resolved", "warning").operation = "resolved"
      /\ NewRow(id, "resolved", "warning").attempt = "due"
  BY NewRowTyped DEF Severities
<1>2. CASE "warning" \in delivered[id]
  BY <1>1, <1>2, AppendRows DEF RetireWarning
<1>3. CASE "warning" \notin delivered[id]
  <2>1. RetireWarning(rows, id) = Only(rows, kept)
    BY <1>3 DEF RetireWarning
  <2>2. /\ Only(rows, kept) \in Seq(Row)
        /\ RowsOf(Only(rows, kept)) = {rows[k] : k \in DOMAIN rows \cap kept}
    BY OnlyKept
  <2>3. \A row \in RowsOf(rows) :
          row.operation = "resolved" => row \in {rows[k] : k \in DOMAIN rows \cap kept}
    BY DEF RowsOf, IsFiringOf
  <2>4. {rows[k] : k \in DOMAIN rows \cap kept} \subseteq RowsOf(rows)
    BY DEF RowsOf
  <2> HIDE DEF kept
  <2> QED
    BY <2>1, <2>2, <2>3, <2>4
<1> QED
  BY <1>2, <1>3

LEMMA NotifiedRows ==
  ASSUME NEW rows \in Seq(Row), NEW id \in Ids, NEW alert \in AlertRow
  PROVE  LET new == Notified(rows, id, alert) IN
         /\ new \in Seq(Row)
         /\ \A row \in RowsOf(new) :
              \/ row \in RowsOf(rows)
              \/ row.attempt = "due" /\ (row.operation = "firing" => row.alert = id)
         /\ \A row \in RowsOf(rows) : row.operation = "resolved" => row \in RowsOf(new)
<1> DEFINE old == IF alert.severity = "critical" /\ alert.count = Threshold
                    THEN RetireWarning(rows, id) ELSE rows
           added == NewRow(id, "firing", alert.severity)
<1>1. /\ old \in Seq(Row)
      /\ \A row \in RowsOf(old) :
           row \in RowsOf(rows) \/ (row.operation = "resolved" /\ row.attempt = "due")
      /\ \A row \in RowsOf(rows) : row.operation = "resolved" => row \in RowsOf(old)
  BY RetiredRows
<1>2. added \in Row /\ added.attempt = "due" /\ added.alert = id
  BY NewRowTyped DEF AlertRow
<1>3. Notified(rows, id, alert) = Append(old, added)
  BY DEF Notified
<1> HIDE DEF old, added
<1>4. Append(old, added) \in Seq(Row) /\ RowsOf(Append(old, added)) = RowsOf(old) \cup {added}
  BY <1>1, <1>2, AppendRows
<1>5. \A row \in RowsOf(old) \cup {added} :
        \/ row \in RowsOf(rows)
        \/ row.attempt = "due" /\ (row.operation = "firing" => row.alert = id)
  BY <1>1, <1>2
<1> QED
  BY <1>1, <1>3, <1>4, <1>5

LEMMA AddOccurrenceKeepsOutbox ==
  ASSUME IInv, OutboxInv, NEW i \in Indicators, NEW c, AddOccurrence(i, c),
         UNCHANGED <<delivered, dispatcher, am, unrecorded>>
  PROVE  OutboxInv'
<1> DEFINE impaired == FiringOn({"monitoring"})
<1>1. PICK id \in TargetOf(i), resolutions \in Resolutions(impaired) :
        /\ alerts' = [WithResolved(impaired, "other") EXCEPT ![id] = Counted(i, id)]
        /\ pending' = Notified(Resolved(pending, impaired, resolutions), id, Counted(i, id))
  BY DEF AddOccurrence
<1>2. /\ Counted(i, id) \in AlertRow /\ Counted(i, id).status = "firing"
      /\ id \in Ids /\ alerts[id].status # "deleted"
  BY ConditionsDiffer, CountedRow, TargetIsOpen
<1>3. impaired \in SUBSET Firing /\ Firing \subseteq Ids /\ id \notin impaired
  BY ConditionsDiffer, TargetIsOpen DEF FiringOn, Firing
<1>4. /\ \A other \in impaired : alerts'[other].status = "resolved"
      /\ alerts'[id].status = "firing"
      /\ \A other \in Ids \ impaired : other # id => alerts'[other].status = alerts[other].status
  <2> HIDE DEF impaired
  <2> QED
    BY <1>1, <1>2, <1>3, ResolvedRows
<1> HIDE DEF impaired
<1> DEFINE rows == Resolved(pending, impaired, resolutions)
<1>5. rows \in Seq(Row)
  BY <1>3, RowsOfResolved DEF OutboxInv, OutboxTyped
<1>6. /\ pending' \in Seq(Row)
      /\ \A row \in RowsOf(pending') :
           \/ row \in RowsOf(rows)
           \/ row.attempt = "due" /\ (row.operation = "firing" => row.alert = id)
      /\ \A row \in RowsOf(rows) : row.operation = "resolved" => row \in RowsOf(pending')
  <2> HIDE DEF rows
  <2> QED
    BY <1>1, <1>2, <1>5, NotifiedRows DEF rows
<1>7. \A row \in RowsOf(pending') : row.operation = "firing" =>
        row \in RowsOf(rows) \/ alerts'[row.alert].status = "firing"
  BY <1>4, <1>6
<1>8. \A other \in Ids \ impaired :
        \/ alerts'[other].status = alerts[other].status
        \/ alerts'[other].status = "firing" /\ alerts[other].status # "deleted"
  BY <1>2, <1>4
<1> QED
  BY <1>3, <1>4, <1>6, <1>7, <1>8, EndsAndNotifies

\* An occurrence is counted, and nothing is resolved.
LEMMA NotifyKeepsOutbox ==
  ASSUME IInv, OutboxInv, NEW condition \in Conditions, NEW id \in TargetOf(condition),
         NEW alert \in AlertRow, alert.status = "firing",
         alerts' = [alerts EXCEPT ![id] = alert], pending' = Notified(pending, id, alert),
         UNCHANGED <<delivered, dispatcher, am, unrecorded>>
  PROVE  OutboxInv'
<1>1. id \in Ids /\ alerts[id].status # "deleted" /\ pending \in Seq(Row)
  BY TargetIsOpen DEF OutboxInv, OutboxTyped
<1>2. \A other \in Ids : alerts'[other] = IF other = id THEN alert ELSE alerts[other]
  BY <1>1 DEF IInv, RowsTyped
<1>3. /\ pending' \in Seq(Row)
      /\ \A row \in RowsOf(pending') :
           \/ row \in RowsOf(pending)
           \/ row.attempt = "due" /\ (row.operation = "firing" => row.alert = id)
      /\ \A row \in RowsOf(pending) : row.operation = "resolved" => row \in RowsOf(pending')
  BY <1>1, NotifiedRows
<1>4. ASSUME NEW row \in RowsOf(pending'), row.operation = "firing"
      PROVE  alerts'[row.alert].status = "firing"
  <2>1. CASE row \in RowsOf(pending)
    BY <1>1, <1>2, <1>4, <2>1, RowsAreTyped DEF OutboxInv, FiringRows, Row
  <2>2. CASE row \notin RowsOf(pending)
    BY <1>1, <1>2, <1>3, <1>4, <2>2
  <2> QED
    BY <2>1, <2>2
<1>5. \A other \in Ids :
        /\ alerts'[other].status # "deleted" => alerts[other].status # "deleted"
        /\ alerts'[other].status = "resolved" => alerts[other].status = "resolved"
  BY <1>1, <1>2
<1> QED
  BY <1>3, <1>4, <1>5, TransactionKeeps

LEMMA ReopenKeepsOutbox ==
  ASSUME IInv, OutboxInv, NEW id \in Ids, alerts[id].status = "resolved", Reopen(id),
         UNCHANGED <<delivered, dispatcher, am, unrecorded>>
  PROVE  OutboxInv'
<1> DEFINE added == NewRow(id, "firing", alerts[id].form)
<1>1. added \in Row /\ added.attempt = "due" /\ added.alert = id /\ added.operation = "firing"
  BY NewRowTyped DEF IInv, RowsTyped, AlertRow
<1>2. /\ alerts'[id].status = "firing"
      /\ \A other \in Ids : other # id => alerts'[other] = alerts[other]
  BY DEF Reopen, IInv, RowsTyped, AlertRow
<1>3. pending \in Seq(Row) /\ pending' = Append(pending, added)
  BY DEF Reopen, OutboxInv, OutboxTyped
<1> HIDE DEF added
<1>4. pending' \in Seq(Row) /\ RowsOf(pending') = RowsOf(pending) \cup {added}
  BY <1>1, <1>3, AppendRows
<1>5. ASSUME NEW row \in RowsOf(pending'), row.operation = "firing"
      PROVE  alerts'[row.alert].status = "firing"
  BY <1>1, <1>2, <1>3, <1>4, <1>5, RowsAreTyped DEF OutboxInv, FiringRows, Row
<1>6. \A other \in Ids :
        /\ alerts'[other].status # "deleted" => alerts[other].status # "deleted"
        /\ alerts'[other].status = "resolved" => alerts[other].status = "resolved"
  BY <1>2
<1> QED
  BY <1>1, <1>4, <1>5, <1>6, TransactionKeeps

LEMMA NothingSentKeepsOutbox ==
  ASSUME OutboxInv, UNCHANGED <<pending, delivered, dispatcher, am, unrecorded>>,
         \A id \in Ids : alerts'[id].status = alerts[id].status
  PROVE  OutboxInv'
<1>1. pending \in Seq(Row) /\ RowsOf(pending') = RowsOf(pending)
  BY DEF OutboxInv, OutboxTyped
<1>2. \A row \in RowsOf(pending') : row.operation = "firing" => alerts'[row.alert].status = "firing"
  BY <1>1, RowsAreTyped DEF OutboxInv, FiringRows, Row
<1> QED
  BY <1>1, <1>2, TransactionKeeps

LEMMA ManagerKeepsOutbox ==
  ASSUME IInv, OutboxInv, Manager
  PROVE  OutboxInv'
<1>1. ASSUME NEW i \in Indicators, RecordGood(i)
      PROVE  OutboxInv'
  BY <1>1, ResolveKeepsOutbox DEF RecordGood, FiringOn
<1>2. ASSUME NEW i \in Indicators, NEW c, RecordAnomaly(i, c)
      PROVE  OutboxInv'
  <2>1. CASE AlreadyRecorded(i, c)
    BY <1>2, <2>1, ResolveKeepsOutbox DEF RecordAnomaly, FiringOn
  <2>2. CASE ~AlreadyRecorded(i, c)
    BY <1>2, <2>2, AddOccurrenceKeepsOutbox DEF RecordAnomaly
  <2> QED
    BY <2>1, <2>2
<1>3. ASSUME NEW i \in Indicators, RecordAnalysisFailure(i)
      PROVE  OutboxInv'
  <2> DEFINE condition == "monitoring"
  <2>1. PICK id \in TargetOf(condition) :
          /\ alerts' = [alerts EXCEPT ![id] = Counted(condition, id)]
          /\ pending' = Notified(pending, id, Counted(condition, id))
    BY <1>3 DEF RecordAnalysisFailure
  <2>2. Counted(condition, id) \in AlertRow /\ Counted(condition, id).status = "firing"
    BY CountedRow, ConditionsDiffer
  <2> QED
    BY <1>3, <2>1, <2>2, ConditionsDiffer, NotifyKeepsOutbox DEF RecordAnalysisFailure
<1>4. CASE RecordCollectionFailure
  <2> DEFINE condition == "collection"
  <2>1. PICK id \in TargetOf(condition) :
          /\ alerts' = [alerts EXCEPT ![id] = CountedAttempt(id)]
          /\ pending' = Notified(pending, id, CountedAttempt(id))
    BY <1>4 DEF RecordCollectionFailure
  <2>2. CountedAttempt(id) \in AlertRow /\ CountedAttempt(id).status = "firing"
    BY CountedRow, RatedRow, ConditionsDiffer DEF CountedAttempt
  <2> QED
    BY <1>4, <2>1, <2>2, ConditionsDiffer, NotifyKeepsOutbox DEF RecordCollectionFailure
<1>5. ASSUME NEW ids \in SUBSET Firing, End(ids)
      PROVE  OutboxInv'
  BY <1>5, ResolveKeepsOutbox DEF End
<1>6. CASE ResolveCollection \/ InterruptAnomalies \/ CloseService
  BY <1>5, <1>6 DEF ResolveCollection, InterruptAnomalies, CloseService, FiringOn
<1>7. ASSUME NEW key \in DOMAIN occurrences, AcceptAsNormal(key)
      PROVE  OutboxInv'
  <2> DEFINE id == occurrences[key].alert
  <2>1. CASE id \in Firing /\ RemainingOf(id, occurrences') = {}
    BY <1>7, <2>1, ResolveKeepsOutbox DEF AcceptAsNormal
  <2>2. CASE ~(id \in Firing /\ RemainingOf(id, occurrences') = {})
    BY <1>7, <2>2, NothingSentKeepsOutbox DEF AcceptAsNormal
  <2> QED
    BY <2>1, <2>2
<1>8. ASSUME NEW key \in DOMAIN occurrences, RestoreVerdict(key)
      PROVE  OutboxInv'
  <2> DEFINE id == occurrences[key].alert
  <2>1. id \in Ids
    BY DEF IInv, OccurrencesKept, Occurrence
  <2>2. CASE ReopensOnRestore(id)
    BY <1>8, <2>1, <2>2, ReopenKeepsOutbox DEF RestoreVerdict, ReopensOnRestore
  <2>3. CASE ~ReopensOnRestore(id)
    BY <1>8, <2>3, NothingSentKeepsOutbox DEF RestoreVerdict
  <2> QED
    BY <2>2, <2>3
<1> QED
  BY <1>1, <1>2, <1>3, <1>4, <1>6, <1>7, <1>8 DEF Manager

----------------------------------------------------------------------------
(* The steps of the dispatcher. *)

LEMMA DispatcherRow ==
  ASSUME OutboxInv, dispatcher.step # "idle"
  PROVE  /\ dispatcher.step \in {"claimed", "sending", "sent", "failed"}
         /\ dispatcher \in [step : {"claimed", "sending", "sent", "failed"}, row : Row]
         /\ dispatcher.row \in Row
         /\ dispatcher.row.alert \in Ids /\ dispatcher.row.severity \in Severities
         /\ dispatcher.row.operation \in {"firing", "resolved"}
BY DEF OutboxInv, OutboxTyped, Idle, Row

SameForm(r, s) == r.alert = s.alert /\ r.operation = s.operation /\ r.severity = s.severity

\* Rows change only their next attempt.
LEMMA AttemptsKeepOutbox ==
  ASSUME OutboxInv, UNCHANGED <<alerts, delivered, am, unrecorded>>,
         dispatcher' = Idle
           \/ dispatcher' \in [step : {"claimed", "sending", "sent", "failed"}, row : Row],
         DOMAIN pending' = DOMAIN pending, pending' \in Seq(Row),
         \A k \in DOMAIN pending : SameForm(pending'[k], pending[k]),
         ClaimedIsHeld', WithdrawalIsSent'
  PROVE  OutboxInv'
<1>1. OutboxTyped'
  BY DEF OutboxInv, OutboxTyped
<1>2. /\ \A row \in RowsOf(pending') : \E old \in RowsOf(pending) : SameForm(row, old)
      /\ \A old \in RowsOf(pending) : \E row \in RowsOf(pending') : SameForm(row, old)
  BY DEF RowsOf
<1>3. FiringRows(RowsOf(pending))'
  <2>1. \A row \in RowsOf(pending') : row.operation = "firing" => alerts[row.alert].status = "firing"
    BY <1>2 DEF OutboxInv, FiringRows, SameForm
  <2> QED
    BY <2>1 DEF FiringRows, RowsOf
<1>4. FormsAreKnown'
  BY DEF OutboxInv, FormsAreKnown
<1>5. FormsEnd'
  <2>1. \A id \in Ids, s \in Severities :
          Withdraws(RowsOf(pending), id, s) => Withdraws(RowsOf(pending'), id, s)
    BY <1>2 DEF Withdraws, SameForm
  <2>2. \A id, s : Withdraws(RowsOf(pending), id, s)' <=> Withdraws(RowsOf(pending'), id, s)
    BY DEF Withdraws, RowsOf
  <2>3. \A id \in Ids : am[id] \subseteq Severities
    BY DEF OutboxInv, OutboxTyped
  <2> QED
    BY <2>1, <2>2, <2>3 DEF OutboxInv, FormsEnd
<1> QED
  BY <1>1, <1>3, <1>4, <1>5 DEF OutboxInv

LEMMA ClaimKeepsOutbox ==
  ASSUME OutboxInv, Claim
  PROVE  OutboxInv'
<1>1. PICK k \in DOMAIN pending :
        /\ pending' = [pending EXCEPT ![k].attempt = "claimed"]
        /\ dispatcher' = [step |-> "claimed", row |-> pending[k]]
  BY DEF Claim
<1>2. /\ pending \in Seq(Row) /\ Len(pending) \in Nat /\ DOMAIN pending = 1..Len(pending)
      /\ \A j \in DOMAIN pending : pending[j] \in Row
  BY DEF OutboxInv, OutboxTyped
<1>3. /\ DOMAIN pending' = DOMAIN pending
      /\ \A j \in DOMAIN pending :
           /\ pending'[j] \in Row /\ SameForm(pending'[j], pending[j])
           /\ j # k => pending'[j] = pending[j]
  BY <1>1, <1>2 DEF Row, SameForm
<1>4. pending' \in Seq(Row)
  <2>1. pending' \in [1..Len(pending) -> Row]
    BY <1>1, <1>2, <1>3
  <2> QED
    BY <1>2, <2>1
<1>5. dispatcher' \in [step : {"claimed", "sending", "sent", "failed"}, row : Row]
  BY <1>1, <1>2
<1>6. ClaimedIsHeld'
  <2>1. \A j \in DOMAIN pending : pending[j].attempt # "claimed"
    BY DEF OutboxInv, ClaimedIsHeld, HeldRow, RowsOf, Claim
  <2>2. ASSUME NEW j \in DOMAIN pending, pending'[j].attempt = "claimed"
        PROVE  SameForm(pending'[j], pending[k])
    <3>1. j = k
      BY <1>3, <2>1, <2>2
    <3> QED
      BY <1>3, <3>1
  <2>3. \A row \in RowsOf(pending') : row.attempt = "claimed" => SameForm(row, pending[k])
    BY <1>3, <2>2 DEF RowsOf
  <2> QED
    BY <1>1, <2>3 DEF ClaimedIsHeld, RowsOf, HeldRow, SameForm
<1>7. WithdrawalIsSent'
  BY <1>1 DEF WithdrawalIsSent
<1> QED
  BY <1>3, <1>4, <1>5, <1>6, <1>7, AttemptsKeepOutbox DEF Claim

LEMMA ReleaseKeepsOutbox ==
  ASSUME OutboxInv, pending' = Released(pending), dispatcher' = Idle,
         UNCHANGED <<alerts, delivered, am, unrecorded>>
  PROVE  OutboxInv'
<1>1. /\ pending \in Seq(Row) /\ Len(pending) \in Nat /\ DOMAIN pending = 1..Len(pending)
      /\ \A j \in DOMAIN pending : pending[j] \in Row
  BY DEF OutboxInv, OutboxTyped
<1>2. /\ DOMAIN pending' = DOMAIN pending
      /\ pending' = [j \in 1..Len(pending) |-> pending'[j]]
      /\ \A j \in DOMAIN pending :
           /\ pending'[j] \in Row /\ SameForm(pending'[j], pending[j])
           /\ pending'[j].attempt # "claimed"
  BY <1>1 DEF Released, Row, SameForm
<1>3. pending' \in Seq(Row)
  <2>1. pending' \in [1..Len(pending) -> Row]
    BY <1>1, <1>2
  <2> QED
    BY <1>1, <2>1
<1>4. ClaimedIsHeld' /\ WithdrawalIsSent'
  BY <1>2 DEF ClaimedIsHeld, RowsOf, WithdrawalIsSent, Idle
<1> QED
  BY <1>2, <1>3, <1>4, AttemptsKeepOutbox

LEMMA ComesDueKeepsOutbox ==
  ASSUME OutboxInv, NEW k, ComesDue(k)
  PROVE  OutboxInv'
<1>1. /\ pending \in Seq(Row) /\ Len(pending) \in Nat /\ DOMAIN pending = 1..Len(pending)
      /\ \A j \in DOMAIN pending : pending[j] \in Row
      /\ k \in DOMAIN pending /\ pending' = [pending EXCEPT ![k].attempt = "due"]
      /\ UNCHANGED <<alerts, delivered, dispatcher, am, unrecorded>>
  BY DEF OutboxInv, OutboxTyped, ComesDue
<1>2. /\ DOMAIN pending' = DOMAIN pending
      /\ \A j \in DOMAIN pending :
           /\ pending'[j] \in Row /\ SameForm(pending'[j], pending[j])
           /\ pending'[j].attempt = "claimed" => pending'[j] = pending[j]
  BY <1>1 DEF Row, SameForm
<1>3. pending' \in Seq(Row)
  <2>1. pending' \in [1..Len(pending) -> Row]
    BY <1>1, <1>2
  <2> QED
    BY <1>1, <2>1
<1>4. ClaimedIsHeld'
  <2>1. \A row \in RowsOf(pending') : row.attempt = "claimed" => row \in RowsOf(pending)
    BY <1>2 DEF RowsOf
  <2>2. \A row \in RowsOf(pending') : row.attempt = "claimed" => HeldRow(row)
    BY <2>1 DEF OutboxInv, ClaimedIsHeld
  <2> QED
    BY <1>1, <2>2 DEF ClaimedIsHeld, RowsOf, HeldRow
<1>5. WithdrawalIsSent' /\ OutboxTyped
  BY <1>1 DEF OutboxInv, WithdrawalIsSent
<1> QED
  BY <1>1, <1>2, <1>3, <1>4, <1>5, AttemptsKeepOutbox DEF OutboxTyped

\* The dispatcher is done with its row, and no form is lost from sight.
LEMMA RowDone ==
  ASSUME OutboxInv, dispatcher.step # "idle",
         pending' = Unclaimed(pending), dispatcher' = Idle, UNCHANGED am,
         delivered' \in [Ids -> SUBSET Severities], unrecorded' \in [Ids -> SUBSET Severities],
         dispatcher.row.operation = "resolved" =>
           dispatcher.row.severity \notin am[dispatcher.row.alert],
         \A id \in Ids :
           /\ alerts'[id].status = alerts[id].status
           /\ alerts[id].status # "deleted" => am[id] \subseteq delivered'[id] \cup unrecorded'[id]
           /\ alerts[id].status = "resolved" => unrecorded'[id] = unrecorded[id]
  PROVE  OutboxInv'
<1>1. /\ pending \in Seq(Row) /\ pending' \in Seq(Row)
      /\ RowsOf(pending') = {row \in RowsOf(pending) : row.attempt # "claimed"}
  BY ClaimedRowGoes DEF OutboxInv, OutboxTyped
<1>2. OutboxTyped'
  BY <1>1 DEF OutboxInv, OutboxTyped
<1>3. ClaimedIsHeld' /\ WithdrawalIsSent'
  <2>1. \A row \in RowsOf(pending') : row.attempt # "claimed"
    BY <1>1
  <2> QED
    BY <2>1 DEF ClaimedIsHeld, RowsOf, WithdrawalIsSent, Idle
<1>4. FormsAreKnown'
  BY DEF FormsAreKnown
<1>5. FiringRows(RowsOf(pending))'
  <2>1. \A row \in RowsOf(pending') : row.operation = "firing" => alerts'[row.alert].status = "firing"
    BY <1>1, RowsAreTyped DEF OutboxInv, FiringRows, Row
  <2> QED
    BY <2>1 DEF FiringRows, RowsOf
<1>6. FormsEnd'
  <2>1. ASSUME NEW id \in Ids, alerts[id].status = "resolved", NEW s \in am[id],
               s \notin unrecorded[id]
        PROVE  Withdraws(RowsOf(pending'), id, s)
    <3>1. PICK row \in RowsOf(pending) :
            row.alert = id /\ row.operation = "resolved" /\ row.severity = s
      BY <2>1 DEF OutboxInv, FormsEnd, Withdraws
    <3>2. row.attempt # "claimed"
      BY <2>1, <3>1 DEF OutboxInv, ClaimedIsHeld, HeldRow
    <3> QED
      BY <1>1, <3>1, <3>2 DEF Withdraws
  <2>2. \A id, s : Withdraws(RowsOf(pending), id, s)' <=> Withdraws(RowsOf(pending'), id, s)
    BY DEF Withdraws, RowsOf
  <2> QED
    BY <2>1, <2>2 DEF FormsEnd
<1> QED
  BY <1>2, <1>3, <1>4, <1>5, <1>6 DEF OutboxInv

LEMMA ReadStatusKeepsOutbox ==
  ASSUME OutboxInv, ReadStatus
  PROVE  OutboxInv'
<1>1. dispatcher.step # "idle"
  BY DEF ReadStatus
<1>2. CASE Outdated(dispatcher.row)
  <2>1. dispatcher.row.operation = "firing"
    BY <1>2 DEF Outdated
  <2>2. /\ pending' = Unclaimed(pending) /\ dispatcher' = Idle
        /\ UNCHANGED <<alerts, delivered, am, unrecorded>>
    BY <1>2 DEF ReadStatus
  <2>3. \A id \in Ids :
          alerts[id].status # "deleted" => am[id] \subseteq delivered'[id] \cup unrecorded'[id]
    BY <2>2 DEF OutboxInv, FormsAreKnown
  <2> QED
    BY <1>1, <2>1, <2>2, <2>3, RowDone DEF OutboxInv, OutboxTyped
<1>3. CASE ~Outdated(dispatcher.row)
  <2>1. /\ dispatcher' = [dispatcher EXCEPT !.step = "sending"]
        /\ UNCHANGED <<pending, alerts, delivered, am, unrecorded>>
    BY <1>3 DEF ReadStatus
  <2>2. /\ dispatcher' \in [step : {"claimed", "sending", "sent", "failed"}, row : Row]
        /\ dispatcher'.row = dispatcher.row /\ dispatcher'.step = "sending"
    BY <1>1, <2>1, DispatcherRow
  <2>3. ClaimedIsHeld' /\ WithdrawalIsSent'
    BY <1>1, <2>1, <2>2 DEF OutboxInv, ClaimedIsHeld, RowsOf, HeldRow, WithdrawalIsSent
  <2>4. \A k \in DOMAIN pending : SameForm(pending'[k], pending[k])
    BY <2>1 DEF SameForm
  <2>5. pending' \in Seq(Row) /\ DOMAIN pending' = DOMAIN pending
    BY <2>1 DEF OutboxInv, OutboxTyped
  <2> QED
    BY <2>1, <2>2, <2>3, <2>4, <2>5, AttemptsKeepOutbox
<1> QED
  BY <1>2, <1>3

LEMMA SendKeepsOutbox ==
  ASSUME OutboxInv, NEW accepted \in BOOLEAN, NEW answered \in BOOLEAN, Send(accepted, answered)
  PROVE  OutboxInv'
<1> DEFINE row == dispatcher.row
<1>1. /\ row \in Row /\ row.alert \in Ids /\ row.severity \in Severities
      /\ row.operation \in {"firing", "resolved"}
      /\ dispatcher' \in [step : {"claimed", "sending", "sent", "failed"}, row : Row]
      /\ dispatcher'.row = row /\ dispatcher'.step = IF answered THEN "sent" ELSE "failed"
      /\ dispatcher.step # "idle"
      /\ UNCHANGED <<pending, alerts, delivered>>
  BY DispatcherRow DEF Send, tables
<1>2. /\ am \in [Ids -> SUBSET Severities] /\ unrecorded \in [Ids -> SUBSET Severities]
  BY DEF OutboxInv, OutboxTyped
<1> HIDE DEF row
<1>3. \/ accepted /\ am' = Accepted(am, row) /\ unrecorded' = Accepted(unrecorded, row)
      \/ ~accepted /\ ~answered /\ am' = am /\ unrecorded' = unrecorded
  BY DEF Send, row
<1>4. ASSUME NEW forms \in [Ids -> SUBSET Severities]
      PROVE  /\ Accepted(forms, row) \in [Ids -> SUBSET Severities]
             /\ \A id \in Ids \ {row.alert} : Accepted(forms, row)[id] = forms[id]
             /\ Accepted(forms, row)[row.alert] =
                  IF row.operation = "firing" THEN forms[row.alert] \cup {row.severity}
                                              ELSE forms[row.alert] \ {row.severity}
  BY <1>1, <1>4 DEF Accepted
<1>5. OutboxTyped'
  <2>1. am' \in [Ids -> SUBSET Severities] /\ unrecorded' \in [Ids -> SUBSET Severities]
    BY <1>2, <1>3, <1>4
  <2> QED
    BY <1>1, <2>1 DEF OutboxInv, OutboxTyped
<1>6. ClaimedIsHeld'
  BY <1>1 DEF OutboxInv, ClaimedIsHeld, RowsOf, HeldRow, row
<1>7. WithdrawalIsSent'
  <2>1. ASSUME answered, row.operation = "resolved"
        PROVE  row.severity \notin am'[row.alert]
    BY <1>2, <1>3, <1>4, <2>1
  <2> QED
    BY <1>1, <2>1 DEF WithdrawalIsSent
<1>8. \* The two sets change alike.
      \A id \in Ids : \A s \in am'[id] :
        \/ s \in unrecorded'[id]
        \/ s \in am[id] /\ s \notin unrecorded[id]
  <2>1. ASSUME NEW id \in Ids, NEW s \in am'[id], s \notin unrecorded'[id]
        PROVE  s \in am[id] /\ s \notin unrecorded[id]
    <3>1. CASE id = row.alert
      <4>1. CASE accepted
        <5>1. /\ am'[id] = IF row.operation = "firing" THEN am[id] \cup {row.severity}
                                                       ELSE am[id] \ {row.severity}
              /\ unrecorded'[id] = IF row.operation = "firing"
                                     THEN unrecorded[id] \cup {row.severity}
                                     ELSE unrecorded[id] \ {row.severity}
          BY <1>2, <1>3, <1>4, <3>1, <4>1
        <5> QED
          BY <2>1, <5>1
      <4>2. CASE ~accepted
        BY <1>3, <2>1, <4>2
      <4> QED
        BY <4>1, <4>2
    <3>2. CASE id # row.alert
      <4>1. am'[id] = am[id] /\ unrecorded'[id] = unrecorded[id]
        <5>1. /\ Accepted(am, row)[id] = am[id]
              /\ Accepted(unrecorded, row)[id] = unrecorded[id]
          BY <1>2, <1>4, <3>2
        <5> QED
          BY <1>3, <5>1
      <4> QED
        BY <2>1, <4>1
    <3> QED
      BY <3>1, <3>2
  <2> QED
    BY <2>1
<1>9. FormsAreKnown' /\ FiringRows(RowsOf(pending))' /\ FormsEnd'
  BY <1>1, <1>8 DEF OutboxInv, FormsAreKnown, FormsEnd, FiringRows, Withdraws, RowsOf
<1> QED
  BY <1>5, <1>6, <1>7, <1>9 DEF OutboxInv

LEMMA RecordDeliveryKeepsOutbox ==
  ASSUME IInv, OutboxInv, RecordDelivery
  PROVE  OutboxInv'
<1> DEFINE row == dispatcher.row
<1>1. /\ dispatcher.step = "sent" /\ row.alert \in Ids /\ row.severity \in Severities
      /\ row.operation \in {"firing", "resolved"}
      /\ row.operation = "resolved" => row.severity \notin am[row.alert]
  BY DispatcherRow DEF RecordDelivery, OutboxInv, WithdrawalIsSent
<1>2. /\ delivered' = [delivered EXCEPT ![row.alert] =
                         IF row.operation = "firing" THEN @ \cup {row.severity} ELSE @]
      /\ alerts' = [alerts EXCEPT ![row.alert].stale = FALSE]
      /\ unrecorded' = [unrecorded EXCEPT ![row.alert] =
                          IF alerts[row.alert].status = "firing" THEN @ \ {row.severity} ELSE @]
      /\ pending' = Unclaimed(pending) /\ dispatcher' = Idle /\ am' = am
  BY DEF RecordDelivery
<1> HIDE DEF row
<1>3. /\ delivered \in [Ids -> SUBSET Severities] /\ unrecorded \in [Ids -> SUBSET Severities]
      /\ alerts \in [Ids -> AlertRow]
  BY DEF OutboxInv, OutboxTyped, IInv, RowsTyped
<1>4. /\ delivered' \in [Ids -> SUBSET Severities] /\ unrecorded' \in [Ids -> SUBSET Severities]
  BY <1>1, <1>2, <1>3
<1>5. \A id \in Ids : alerts'[id].status = alerts[id].status
  BY <1>2, <1>3 DEF AlertRow
<1>6. \A id \in Ids : alerts[id].status = "resolved" => unrecorded'[id] = unrecorded[id]
  BY <1>1, <1>2, <1>3
<1>7. ASSUME NEW id \in Ids, alerts[id].status # "deleted", NEW s \in am[id]
      PROVE  s \in delivered'[id] \cup unrecorded'[id]
  <2>1. s \in delivered[id] \cup unrecorded[id]
    BY <1>7 DEF OutboxInv, FormsAreKnown
  <2>2. CASE id = row.alert /\ s = row.severity
    BY <1>1, <1>2, <1>3, <1>7, <2>1, <2>2
  <2>3. CASE ~(id = row.alert /\ s = row.severity)
    BY <1>1, <1>2, <1>3, <2>1, <2>3
  <2> QED
    BY <2>2, <2>3
<1> QED
  BY <1>1, <1>2, <1>4, <1>5, <1>6, <1>7, RowDone DEF row

LEMMA EnqueueRefreshesKeepsOutbox ==
  ASSUME OutboxInv, IInv, EnqueueRefreshes
  PROVE  OutboxInv'
<1> DEFINE S == RefreshDue
<1>1. S \subseteq Firing /\ S \subseteq Ids /\ IsFiniteSet(S)
  <2>1. S \subseteq Firing /\ S \subseteq Ids
    BY DEF RefreshDue, Firing
  <2> QED
    BY <2>1, SeveritiesFinite, FS_Subset
<1>2. PICK order \in Orders(S) :
        pending' = pending \o [k \in DOMAIN order |-> NewRow(order[k], "firing", alerts[order[k]].form)]
  BY DEF EnqueueRefreshes
<1> HIDE DEF S
<1> DEFINE new == [k \in DOMAIN order |-> NewRow(order[k], "firing", alerts[order[k]].form)]
<1>3. Cardinality(S) \in Nat /\ order \in [1..Cardinality(S) -> S]
  BY <1>1, <1>2, OrderIsFinite
<1>4. \A k \in 1..Cardinality(S) :
        /\ new[k] \in Row /\ new[k].attempt = "due" /\ new[k].alert \in Firing
  <2>1. ASSUME NEW k \in 1..Cardinality(S)
        PROVE  /\ order[k] \in Ids /\ order[k] \in Firing
               /\ alerts[order[k]].form \in Severities
               /\ new[k] = NewRow(order[k], "firing", alerts[order[k]].form)
    BY <1>1, <1>3, <2>1 DEF IInv, RowsTyped, AlertRow
  <2> HIDE DEF new
  <2> QED
    BY <2>1, NewRowTyped
<1>5. new \in Seq(Row) /\ DOMAIN new = 1..Cardinality(S)
  <2>1. new = [k \in 1..Cardinality(S) |-> new[k]]
    BY <1>3
  <2>2. new \in [1..Cardinality(S) -> Row]
    BY <1>4, <2>1
  <2> QED
    BY <1>3, <2>2
<1>6. /\ pending \in Seq(Row) /\ UNCHANGED <<alerts, delivered, dispatcher, am, unrecorded>>
  BY DEF OutboxInv, OutboxTyped, EnqueueRefreshes
<1>7. pending' = pending \o new
  BY <1>2
<1> HIDE DEF new
<1>8. pending' \in Seq(Row) /\ RowsOf(pending') = RowsOf(pending) \cup RowsOf(new)
  BY <1>5, <1>6, <1>7, ConcatRows
<1>9. \A row \in RowsOf(new) : row.attempt = "due" /\ alerts[row.alert].status = "firing"
  BY <1>4, <1>5 DEF RowsOf, Firing
<1>10. \A row \in RowsOf(pending') : row.operation = "firing" => alerts'[row.alert].status = "firing"
  BY <1>6, <1>8, <1>9 DEF OutboxInv, FiringRows
<1> QED
  BY <1>6, <1>8, <1>9, <1>10, TransactionKeeps

LEMMA DeleteExpiredKeepsOutbox ==
  ASSUME IInv, OutboxInv, NEW ids \in SUBSET Ids, DeleteExpired(ids)
  PROVE  OutboxInv'
<1> DEFINE kept == {k \in DOMAIN pending : pending[k].alert \notin ids}
<1>1. /\ dispatcher.step = "idle" /\ UNCHANGED <<dispatcher, am, unrecorded>>
      /\ pending' = Only(pending, kept)
      /\ delivered' = [id \in Ids |-> IF id \in ids THEN {} ELSE delivered[id]]
  BY DEF DeleteExpired
<1>2. /\ \A id \in Ids \ ids : alerts'[id] = alerts[id]
      /\ \A id \in ids : alerts'[id].status = "deleted"
  BY NoAlertRow DEF DeleteExpired, AlertRow
<1>3. pending \in Seq(Row) /\ delivered \in [Ids -> SUBSET Severities]
  BY DEF OutboxInv, OutboxTyped
<1>4. pending' \in Seq(Row) /\ RowsOf(pending') = {pending[k] : k \in DOMAIN pending \cap kept}
  BY <1>1, <1>3, OnlyKept
<1>5. {pending[k] : k \in DOMAIN pending \cap kept} = {row \in RowsOf(pending) : row.alert \notin ids}
  BY DEF RowsOf
<1> HIDE DEF kept
<1>6. RowsOf(pending') = {row \in RowsOf(pending) : row.alert \notin ids}
  BY <1>4, <1>5
<1>7. OutboxTyped'
  BY <1>1, <1>3, <1>4 DEF OutboxInv, OutboxTyped
<1>8. ClaimedIsHeld' /\ WithdrawalIsSent'
  <2>1. \A row \in RowsOf(pending') : row.attempt # "claimed"
    BY <1>1, <1>6 DEF OutboxInv, ClaimedIsHeld, HeldRow
  <2> QED
    BY <1>1, <2>1 DEF ClaimedIsHeld, RowsOf, WithdrawalIsSent
<1>9. FormsAreKnown'
  BY <1>1, <1>2, <1>3 DEF OutboxInv, FormsAreKnown
<1>10. FiringRows(RowsOf(pending))'
  <2>1. \A row \in RowsOf(pending') : row.operation = "firing" => alerts'[row.alert].status = "firing"
    BY <1>2, <1>3, <1>6, RowsAreTyped DEF OutboxInv, FiringRows, Row
  <2> QED
    BY <2>1 DEF FiringRows, RowsOf
<1>11. FormsEnd'
  <2>1. ASSUME NEW id \in Ids, alerts'[id].status = "resolved", NEW s \in am[id],
               s \notin unrecorded[id]
        PROVE  Withdraws(RowsOf(pending'), id, s)
    <3>1. id \notin ids /\ alerts[id].status = "resolved"
      BY <1>2, <2>1
    <3> QED
      BY <1>6, <2>1, <3>1 DEF OutboxInv, FormsEnd, Withdraws
  <2>2. \A id, s : Withdraws(RowsOf(pending), id, s)' <=> Withdraws(RowsOf(pending'), id, s)
    BY DEF Withdraws, RowsOf
  <2> QED
    BY <1>1, <2>1, <2>2 DEF FormsEnd
<1> QED
  BY <1>7, <1>8, <1>9, <1>10, <1>11 DEF OutboxInv

LEMMA OutboxStep ==
  ASSUME IInv, OutboxInv, [Next]_vars
  PROVE  OutboxInv'
<1>1. CASE RecordFailure \/ Abandon
  BY <1>1, ReleaseKeepsOutbox DEF RecordFailure, Abandon
<1>2. CASE Dispatcher
  BY <1>1, <1>2, ClaimKeepsOutbox, ReadStatusKeepsOutbox, SendKeepsOutbox,
     RecordDeliveryKeepsOutbox, EnqueueRefreshesKeepsOutbox, DeleteExpiredKeepsOutbox
     DEF Dispatcher
<1>3. ASSUME NEW id \in Ids, Ages(id)
      PROVE  OutboxInv'
  <2>1. \A other \in Ids : alerts'[other].status = alerts[other].status
    BY <1>3 DEF Ages, IInv, RowsTyped, AlertRow
  <2> QED
    BY <1>3, <2>1, NothingSentKeepsOutbox DEF Ages
<1>4. CASE UNCHANGED vars
  BY <1>4, NothingSentKeepsOutbox DEF vars, tables
<1> QED
  BY <1>2, <1>3, <1>4, ManagerKeepsOutbox, ComesDueKeepsOutbox DEF Next, Time

LEMMA OutboxStarts ==
  ASSUME Init
  PROVE  OutboxInv
<1>1. pending = <<>> /\ dispatcher = Idle /\ RowsOf(<<>>) = {} /\ <<>> \in Seq(Row)
  BY DEF Init, RowsOf
<1>2. \A id \in Ids : am[id] = {} /\ alerts[id].status = "absent"
  BY NoAlertRow DEF Init
<1>3. OutboxTyped
  BY <1>1 DEF Init, OutboxTyped
<1> QED
  BY <1>1, <1>2, <1>3 DEF OutboxInv, ClaimedIsHeld, WithdrawalIsSent, Idle, FormsAreKnown,
     FiringRows, FormsEnd

----------------------------------------------------------------------------
(* Counts.  Each occurrence has an analysis or a failed collection to itself. *)

SeenIn(upTo) == {chunk \in Indicators \X Chunks : chunk[2] <= upTo[chunk[1]]}

Events == Cardinality(SeenIn(analysed)) + failures

CountInv ==
  /\ analysed \in [Indicators -> 0..MaxChunk] /\ failures \in 0..MaxFailures
  /\ \A id \in Ids : alerts[id].count <= Events

LEMMA SeenFinite ==
  ASSUME NEW upTo
  PROVE  /\ IsFiniteSet(SeenIn(upTo)) /\ Cardinality(SeenIn(upTo)) \in Nat
         /\ Cardinality(SeenIn(upTo)) <= MaxChunk * Cardinality(Indicators)
         /\ Cardinality(Indicators) \in Nat
<1>1. /\ IsFiniteSet(Chunks) /\ Cardinality(Chunks) = MaxChunk
      /\ IsFiniteSet(Indicators) /\ Cardinality(Indicators) \in Nat
  <2>1. IsFiniteSet(1..MaxChunk)
        /\ Cardinality(1..MaxChunk) = IF 1 > MaxChunk THEN 0 ELSE MaxChunk - 1 + 1
    BY BoundsAssumption, FS_Interval
  <2>2. IsFiniteSet(Indicators) /\ Cardinality(Indicators) \in Nat
    BY IndicatorsAssumption, FS_CardinalityType
  <2> QED
    BY <2>1, <2>2, BoundsAssumption DEF Chunks
<1>2. /\ IsFiniteSet(Indicators \X Chunks)
      /\ Cardinality(Indicators \X Chunks) = Cardinality(Indicators) * Cardinality(Chunks)
  BY <1>1, FS_Product
<1>3. SeenIn(upTo) \in SUBSET (Indicators \X Chunks)
  BY DEF SeenIn
<1>4. /\ IsFiniteSet(SeenIn(upTo))
      /\ Cardinality(SeenIn(upTo)) <= Cardinality(Indicators \X Chunks)
  BY <1>2, <1>3, FS_Subset
<1>5. Cardinality(SeenIn(upTo)) \in Nat
  BY <1>4, FS_CardinalityType
<1>6. Cardinality(Indicators) * MaxChunk = MaxChunk * Cardinality(Indicators)
  BY <1>1, BoundsAssumption
<1> QED
  BY <1>1, <1>2, <1>4, <1>5, <1>6

LEMMA OneMoreSeen ==
  ASSUME CountInv, NEW i \in Indicators, analysed[i] < MaxChunk,
         analysed' = [analysed EXCEPT ![i] = analysed[i] + 1]
  PROVE  /\ analysed' \in [Indicators -> 0..MaxChunk]
         /\ Cardinality(SeenIn(analysed')) = Cardinality(SeenIn(analysed)) + 1
<1> DEFINE added == <<i, analysed[i] + 1>>
<1>1. /\ analysed \in [Indicators -> 0..MaxChunk] /\ MaxChunk \in Nat
      /\ analysed' \in [Indicators -> 0..MaxChunk]
  BY BoundsAssumption DEF CountInv
<1>2. analysed[i] + 1 \in Chunks /\ added \in Indicators \X Chunks
  BY <1>1 DEF Chunks
<1>3. ASSUME NEW chunk \in Indicators \X Chunks
      PROVE  chunk[2] <= analysed'[chunk[1]] <=> chunk[2] <= analysed[chunk[1]] \/ chunk = added
  <2>1. /\ chunk = <<chunk[1], chunk[2]>> /\ chunk[1] \in Indicators /\ chunk[2] \in Nat
        /\ analysed[chunk[1]] \in Nat
    BY <1>1, <1>3 DEF Chunks
  <2>2. CASE chunk[1] = i
    <3>1. analysed'[chunk[1]] = analysed[i] + 1
      BY <1>1, <2>2
    <3>2. chunk = added <=> chunk[2] = analysed[i] + 1
      BY <2>1, <2>2
    <3> HIDE DEF added
    <3> QED
      BY <2>1, <2>2, <3>1, <3>2
  <2>3. CASE chunk[1] # i
    BY <1>1, <2>1, <2>3
  <2> QED
    BY <2>2, <2>3
<1>4. SeenIn(analysed') = SeenIn(analysed) \cup {added}
  <2> HIDE DEF added
  <2> QED
    BY <1>2, <1>3 DEF SeenIn
<1>5. added \notin SeenIn(analysed)
  BY <1>1 DEF SeenIn
<1> HIDE DEF added
<1> QED
  BY <1>1, <1>4, <1>5, SeenFinite, FS_AddElement

\* Either no count grows, or one event comes and one count with it.
LEMMA CountsKeep ==
  ASSUME IInv, CountInv, alerts' \in [Ids -> AlertRow],
         analysed' \in [Indicators -> 0..MaxChunk], failures' \in 0..MaxFailures,
         \/ Events' = Events /\ \A id \in Ids : alerts'[id].count <= alerts[id].count
         \/ /\ Events' = Events + 1
            /\ \A id \in Ids : \/ alerts'[id].count <= alerts[id].count + 1
                               \/ alerts'[id].count = 1
  PROVE  CountInv'
<1>1. Events \in Nat
  BY SeenFinite, BoundsAssumption DEF Events, CountInv
<1>2. \A id \in Ids : alerts'[id].count \in Nat /\ alerts[id].count \in Nat
  BY DEF IInv, RowsTyped, AlertRow
<1>3. \A id \in Ids : alerts'[id].count <= Events'
  BY <1>1, <1>2 DEF CountInv
<1> QED
  BY <1>3 DEF CountInv

LEMMA ProgressKept ==
  ASSUME CountInv, UNCHANGED <<analysed, failures>>
  PROVE  /\ Events' = Events
         /\ analysed' \in [Indicators -> 0..MaxChunk] /\ failures' \in 0..MaxFailures
BY DEF CountInv, Events

LEMMA AnalysedOnce ==
  ASSUME CountInv, NEW i \in Indicators, analysed[i] < MaxChunk,
         analysed' = [analysed EXCEPT ![i] = analysed[i] + 1], UNCHANGED failures
  PROVE  /\ Events' = Events + 1
         /\ analysed' \in [Indicators -> 0..MaxChunk] /\ failures' \in 0..MaxFailures
<1>1. /\ analysed' \in [Indicators -> 0..MaxChunk]
      /\ Cardinality(SeenIn(analysed')) = Cardinality(SeenIn(analysed)) + 1
  BY OneMoreSeen
<1>2. Cardinality(SeenIn(analysed)) \in Nat /\ failures \in Nat /\ failures' \in 0..MaxFailures
  BY SeenFinite, BoundsAssumption DEF CountInv
<1>3. Events' = Cardinality(SeenIn(analysed')) + failures'
  BY DEF Events, SeenIn
<1> QED
  BY <1>1, <1>2, <1>3 DEF Events

\* Rows whose counts stay as they are.
LEMMA SameCounts ==
  ASSUME IInv, NEW ids \in SUBSET Firing, NEW reason \in {"other", "accepted_as_normal"},
         alerts' = WithResolved(ids, reason)
  PROVE  /\ alerts' \in [Ids -> AlertRow]
         /\ \A id \in Ids : alerts'[id].count = alerts[id].count /\ alerts[id].count \in Nat
BY ResolvedRows DEF IInv, RowsTyped, AlertRow

LEMMA OneCounted ==
  ASSUME IInv, NEW condition \in Conditions, NEW id \in TargetOf(condition),
         NEW resolved \in SUBSET Firing, NEW alert \in AlertRow,
         alert.count = Counted(condition, id).count,
         alerts' = [WithResolved(resolved, "other") EXCEPT ![id] = alert]
  PROVE  /\ alerts' \in [Ids -> AlertRow]
         /\ \A other \in Ids :
              alerts'[other].count <= alerts[other].count + 1 \/ alerts'[other].count = 1
<1>1. id \in Ids
  BY TargetIsOpen
<1>2. /\ WithResolved(resolved, "other") \in [Ids -> AlertRow]
      /\ \A other \in Ids : WithResolved(resolved, "other")[other].count = alerts[other].count
  BY ResolvedRows
<1>3. alert.count = alerts[id].count + 1 \/ alert.count = 1
  BY CountedRow
<1>4. \A other \in Ids : alerts[other].count \in Nat
  BY DEF IInv, RowsTyped, AlertRow
<1>5. /\ alerts' \in [Ids -> AlertRow] /\ alerts'[id] = alert
      /\ \A other \in Ids \ {id} : alerts'[other].count = alerts[other].count
  BY <1>1, <1>2
<1> QED
  BY <1>1, <1>3, <1>4, <1>5

LEMMA AnomalyCounts ==
  ASSUME IInv, CountInv, NEW i \in Indicators, NEW c \in Chunks, RecordAnomaly(i, c)
  PROVE  CountInv'
<1>1. /\ analysed \in [Indicators -> 0..MaxChunk] /\ failures' = failures
      /\ failures \in 0..MaxFailures /\ MaxChunk \in Nat
  BY BoundsAssumption DEF RecordAnomaly, CountInv
<1>2. CASE c = analysed[i] + 1
  <2>1. analysed[i] < MaxChunk /\ analysed' = [analysed EXCEPT ![i] = analysed[i] + 1]
    BY <1>1, <1>2 DEF RecordAnomaly
  <2>2. /\ Events' = Events + 1
        /\ analysed' \in [Indicators -> 0..MaxChunk] /\ failures' \in 0..MaxFailures
    BY <1>1, <2>1, AnalysedOnce
  <2>3. CASE AlreadyRecorded(i, c)
    <3>1. FiringOn({"monitoring"}) \in SUBSET Firing
          /\ alerts' = WithResolved(FiringOn({"monitoring"}), "other")
      BY <2>3 DEF RecordAnomaly, Resolve, FiringOn
    <3>2. /\ alerts' \in [Ids -> AlertRow]
          /\ \A id \in Ids : alerts'[id].count = alerts[id].count /\ alerts[id].count \in Nat
      BY <3>1, SameCounts
    <3> QED
      BY <2>2, <3>2, CountsKeep
  <2>4. CASE ~AlreadyRecorded(i, c)
    <3>1. PICK id \in TargetOf(i) :
            alerts' = [WithResolved(FiringOn({"monitoring"}), "other") EXCEPT ![id] = Counted(i, id)]
      BY <2>4 DEF RecordAnomaly, AddOccurrence
    <3>2. Counted(i, id) \in AlertRow /\ FiringOn({"monitoring"}) \in SUBSET Firing
      BY CountedRow, ConditionsDiffer DEF FiringOn
    <3>3. /\ alerts' \in [Ids -> AlertRow]
          /\ \A other \in Ids :
               alerts'[other].count <= alerts[other].count + 1 \/ alerts'[other].count = 1
      BY <3>1, <3>2, ConditionsDiffer, OneCounted
    <3> QED
      BY <2>2, <3>3, CountsKeep
  <2> QED
    BY <2>3, <2>4
<1>3. CASE c # analysed[i] + 1
  <2>1. c = analysed[i] /\ AlreadyRecorded(i, c) /\ analysed' = [analysed EXCEPT ![i] = c]
    BY <1>3 DEF RecordAnomaly, AlreadyRecorded
  <2>2. analysed' = analysed
    BY <1>1, <2>1
  <2>3. FiringOn({"monitoring"}) \in SUBSET Firing
        /\ alerts' = WithResolved(FiringOn({"monitoring"}), "other")
    BY <2>1 DEF RecordAnomaly, Resolve, FiringOn
  <2>4. /\ alerts' \in [Ids -> AlertRow]
        /\ \A id \in Ids : alerts'[id].count = alerts[id].count /\ alerts[id].count \in Nat
    BY <2>3, SameCounts
  <2> QED
    BY <1>1, <2>2, <2>4, ProgressKept, CountsKeep
<1> QED
  BY <1>2, <1>3

LEMMA ManagerCounts ==
  ASSUME IInv, CountInv, Manager
  PROVE  CountInv'
<1>1. ASSUME NEW i \in Indicators, RecordGood(i)
      PROVE  CountInv'
  <2>1. /\ FiringOn({"monitoring", i}) \in SUBSET Firing
        /\ alerts' = WithResolved(FiringOn({"monitoring", i}), "other")
    BY <1>1 DEF RecordGood, Resolve, FiringOn
  <2>2. /\ alerts' \in [Ids -> AlertRow]
        /\ \A id \in Ids : alerts'[id].count = alerts[id].count /\ alerts[id].count \in Nat
    BY <2>1, SameCounts
  <2>3. /\ Events' = Events + 1
        /\ analysed' \in [Indicators -> 0..MaxChunk] /\ failures' \in 0..MaxFailures
    BY <1>1, AnalysedOnce DEF RecordGood
  <2> QED
    BY <2>2, <2>3, CountsKeep
<1>2. ASSUME NEW i \in Indicators, RecordAnalysisFailure(i)
      PROVE  CountInv'
  <2> DEFINE condition == "monitoring"
  <2>1. PICK id \in TargetOf(condition) : alerts' = [alerts EXCEPT ![id] = Counted(condition, id)]
    BY <1>2 DEF RecordAnalysisFailure
  <2>2. /\ Counted(condition, id) \in AlertRow
        /\ alerts' = [WithResolved({}, "other") EXCEPT ![id] = Counted(condition, id)]
    <3>1. Counted(condition, id) \in AlertRow /\ id \in Ids
      BY CountedRow, ConditionsDiffer, TargetIsOpen
    <3> HIDE DEF condition
    <3> QED
      BY <2>1, <3>1, NothingResolved
  <2>3. /\ alerts' \in [Ids -> AlertRow]
        /\ \A other \in Ids :
             alerts'[other].count <= alerts[other].count + 1 \/ alerts'[other].count = 1
    BY <2>2, ConditionsDiffer, OneCounted
  <2>4. /\ Events' = Events + 1
        /\ analysed' \in [Indicators -> 0..MaxChunk] /\ failures' \in 0..MaxFailures
    BY <1>2, AnalysedOnce DEF RecordAnalysisFailure
  <2> QED
    BY <2>3, <2>4, CountsKeep
<1>3. CASE RecordCollectionFailure
  <2> DEFINE condition == "collection"
  <2>1. PICK id \in TargetOf(condition) : alerts' = [alerts EXCEPT ![id] = CountedAttempt(id)]
    BY <1>3 DEF RecordCollectionFailure
  <2>2. /\ CountedAttempt(id) \in AlertRow
        /\ CountedAttempt(id).count = Counted(condition, id).count
        /\ alerts' = [WithResolved({}, "other") EXCEPT ![id] = CountedAttempt(id)]
    <3>1. /\ CountedAttempt(id) \in AlertRow /\ id \in Ids
          /\ CountedAttempt(id).count = Counted(condition, id).count
      BY CountedRow, RatedRow, ConditionsDiffer, TargetIsOpen DEF CountedAttempt
    <3> HIDE DEF condition
    <3> QED
      BY <2>1, <3>1, NothingResolved
  <2>3. /\ alerts' \in [Ids -> AlertRow]
        /\ \A other \in Ids :
             alerts'[other].count <= alerts[other].count + 1 \/ alerts'[other].count = 1
    BY <2>2, ConditionsDiffer, OneCounted
  <2>4. /\ failures \in 0..MaxFailures /\ failures' = failures + 1 /\ failures < MaxFailures
        /\ analysed' = analysed /\ analysed \in [Indicators -> 0..MaxChunk]
    BY <1>3 DEF RecordCollectionFailure, CountInv
  <2>5. Events' = Events + 1 /\ failures' \in 0..MaxFailures
    BY <2>4, SeenFinite, BoundsAssumption DEF Events
  <2> QED
    BY <2>3, <2>4, <2>5, CountsKeep
<1>4. ASSUME NEW ids \in SUBSET Firing, End(ids)
      PROVE  CountInv'
  <2>1. /\ alerts' \in [Ids -> AlertRow]
        /\ \A id \in Ids : alerts'[id].count = alerts[id].count /\ alerts[id].count \in Nat
    BY <1>4, SameCounts DEF End, Resolve
  <2> QED
    BY <1>4, <2>1, ProgressKept, CountsKeep DEF End, progress
<1>5. CASE ResolveCollection \/ InterruptAnomalies \/ CloseService
  BY <1>4, <1>5 DEF ResolveCollection, InterruptAnomalies, CloseService, FiringOn
<1>6. ASSUME NEW key \in DOMAIN occurrences, AcceptAsNormal(key)
      PROVE  CountInv'
  <2>1. \/ alerts' = alerts
        \/ \E ids \in SUBSET Firing : alerts' = WithResolved(ids, "accepted_as_normal")
    BY <1>6 DEF AcceptAsNormal, Resolve
  <2>2. /\ alerts' \in [Ids -> AlertRow]
        /\ \A id \in Ids : alerts'[id].count = alerts[id].count /\ alerts[id].count \in Nat
    <3>1. CASE alerts' = alerts
      BY <3>1 DEF IInv, RowsTyped, AlertRow
    <3>2. CASE alerts' # alerts
      BY <2>1, <3>2, SameCounts
    <3> QED
      BY <3>1, <3>2
  <2> QED
    BY <1>6, <2>2, ProgressKept, CountsKeep DEF AcceptAsNormal, progress
<1>7. ASSUME NEW key \in DOMAIN occurrences, RestoreVerdict(key)
      PROVE  CountInv'
  <2>1. PICK id \in Ids :
          \/ alerts' = alerts
          \/ alerts' = [alerts EXCEPT ![id].status = "firing", ![id].reason = "none"]
    BY <1>7 DEF RestoreVerdict, Reopen, IInv, OccurrencesKept, Occurrence
  <2>2. /\ alerts' \in [Ids -> AlertRow]
        /\ \A other \in Ids : alerts'[other].count = alerts[other].count
                             /\ alerts[other].count \in Nat
    BY <2>1 DEF IInv, RowsTyped, AlertRow
  <2> QED
    BY <1>7, <2>2, ProgressKept, CountsKeep DEF RestoreVerdict, progress
<1> QED
  BY <1>1, <1>2, <1>3, <1>5, <1>6, <1>7, AnomalyCounts DEF Manager

LEMMA CountStep ==
  ASSUME IInv, CountInv, [Next]_vars
  PROVE  CountInv'
<1>1. ASSUME UNCHANGED <<analysed, failures>>, alerts' \in [Ids -> AlertRow],
             \A id \in Ids : alerts'[id].count <= alerts[id].count
      PROVE  CountInv'
  BY <1>1, ProgressKept, CountsKeep
<1>2. /\ alerts \in [Ids -> AlertRow]
      /\ \A id \in Ids : alerts[id].count \in Nat
  BY DEF IInv, RowsTyped, AlertRow
<1>3. ASSUME UNCHANGED <<alerts, analysed, failures>>
      PROVE  CountInv'
  BY <1>1, <1>2, <1>3
<1>4. ASSUME NEW id, NEW stale \in BOOLEAN, alerts' = [alerts EXCEPT ![id].stale = stale],
             UNCHANGED <<analysed, failures>>
      PROVE  CountInv'
  <2>1. alerts' \in [Ids -> AlertRow] /\ \A other \in Ids : alerts'[other].count = alerts[other].count
    BY <1>2, <1>4 DEF AlertRow
  <2> QED
    BY <1>1, <1>2, <1>4, <2>1
<1>5. ASSUME NEW ids \in SUBSET Ids, DeleteExpired(ids)
      PROVE  CountInv'
  <2> DEFINE deleted == [NoAlert EXCEPT !.status = "deleted"]
  <2>1. deleted \in AlertRow /\ deleted.count = 0
    BY NoAlertRow DEF AlertRow
  <2>2. alerts' = [id \in Ids |-> IF id \in ids THEN deleted ELSE alerts[id]]
    BY <1>5 DEF DeleteExpired
  <2> HIDE DEF deleted
  <2>3. alerts' \in [Ids -> AlertRow] /\ \A id \in Ids : alerts'[id].count <= alerts[id].count
    BY <1>2, <2>1, <2>2
  <2> QED
    BY <1>1, <1>5, <2>3 DEF DeleteExpired, progress
<1>6. CASE Dispatcher
  <2>1. CASE RecordDelivery
    BY <1>4, <2>1 DEF RecordDelivery, progress
  <2>2. CASE \E accepted, answered \in BOOLEAN : Send(accepted, answered)
    BY <1>3, <2>2 DEF Send, tables, progress
  <2>3. CASE Claim \/ ReadStatus \/ RecordFailure \/ Abandon \/ EnqueueRefreshes
    BY <1>3, <2>3 DEF Claim, ReadStatus, RecordFailure, Abandon, EnqueueRefreshes, progress
  <2> QED
    BY <1>5, <1>6, <2>1, <2>2, <2>3 DEF Dispatcher
<1>7. CASE Time
  BY <1>3, <1>4, <1>7 DEF Time, Ages, ComesDue, progress
<1>8. CASE UNCHANGED vars
  BY <1>3, <1>8 DEF vars, tables, progress
<1> QED
  BY <1>6, <1>7, <1>8, ManagerCounts DEF Next

LEMMA CountStarts ==
  ASSUME Init
  PROVE  CountInv
<1>1. \A id \in Ids : alerts[id].count = 0
  BY NoAlertRow DEF Init
<1>2. Events \in Nat /\ analysed \in [Indicators -> 0..MaxChunk] /\ failures \in 0..MaxFailures
  BY SeenFinite, BoundsAssumption DEF Events, Init
<1> QED
  BY <1>1, <1>2 DEF CountInv

LEMMA AllTyped ==
  ASSUME IInv, OutboxInv, CountInv
  PROVE  TypeOK
<1>1. \A id \in Ids : alerts[id] \in AlertRow /\ alerts[id].count \in 0..MaxCount
  <2>1. Events \in Nat /\ Events <= MaxCount /\ MaxCount \in Nat
    BY SeenFinite, BoundsAssumption DEF Events, CountInv, MaxCount
  <2> QED
    BY <2>1 DEF IInv, RowsTyped, AlertRow, CountInv
<1>2. \A id \in Ids : alerts[id] \in Alert
  BY <1>1 DEF AlertRow, Alert
<1>3. alerts \in [Ids -> Alert]
  BY <1>2 DEF IInv, RowsTyped
<1>4. /\ dispatcher.step \in {"idle", "claimed", "sending", "sent", "failed"}
      /\ dispatcher.step # "idle" => dispatcher.row \in Row
  BY DispatcherRow DEF OutboxInv, OutboxTyped, Idle
<1> QED
  BY <1>3, <1>4 DEF TypeOK, IInv, OccurrencesKept, OutboxInv, OutboxTyped, CountInv

----------------------------------------------------------------------------
(* One alert fires on a condition at a time. *)

\* The unique index alert_one_firing_condition_idx of the schema.
OneFiring == \A a, b \in Firing : alerts[a].condition = alerts[b].condition => a = b

LEMMA FewerFiring ==
  ASSUME OneFiring,
         \A id \in Ids : alerts'[id].status = "firing" =>
           alerts[id].status = "firing" /\ alerts'[id].condition = alerts[id].condition
  PROVE  OneFiring'
BY DEF OneFiring, Firing

LEMMA EndedFiring ==
  ASSUME IInv, OneFiring, NEW ids \in SUBSET Firing,
         NEW reason \in {"other", "accepted_as_normal"}, alerts' = WithResolved(ids, reason)
  PROVE  OneFiring'
<1>1. \A id \in Ids : alerts'[id].status = "firing" =>
        alerts[id].status = "firing" /\ alerts'[id].condition = alerts[id].condition
  BY ResolvedRows
<1> QED
  BY <1>1, FewerFiring

\* An occurrence goes to the alert that fires on its condition, if there is one.
LEMMA TargetFires ==
  ASSUME IInv, OneFiring, NEW condition \in Conditions, NEW id \in TargetOf(condition),
         NEW resolved \in SUBSET Firing, NEW row, row.condition = condition,
         alerts' = [WithResolved(resolved, "other") EXCEPT ![id] = row]
  PROVE  OneFiring'
<1>1. id \in Ids /\ alerts'[id] = row
  BY TargetIsOpen, ResolvedRows
<1>2. \A other \in Ids \ {id} : alerts'[other].status = "firing" =>
        other \in Firing /\ alerts'[other].condition = alerts[other].condition
  BY <1>1, ResolvedRows DEF Firing
<1>3. \A other \in Firing \ {id} : alerts[other].condition # condition
  <2>1. ASSUME NEW other \in Firing, alerts[other].condition = condition
        PROVE  other = id
    <3>1. id \in FiringOn({condition})
      BY <2>1 DEF TargetOf, FiringOn
    <3> QED
      BY <2>1, <3>1 DEF FiringOn, OneFiring
  <2> QED
    BY <2>1
<1> QED
  BY <1>1, <1>2, <1>3 DEF OneFiring, Firing

LEMMA AnomalyFires ==
  ASSUME IInv, OneFiring, NEW i \in Indicators, NEW c \in Chunks, RecordAnomaly(i, c)
  PROVE  OneFiring'
<1>1. CASE AlreadyRecorded(i, c)
  BY <1>1, EndedFiring DEF RecordAnomaly, Resolve, FiringOn
<1>2. CASE ~AlreadyRecorded(i, c)
  <2>1. PICK id \in TargetOf(i) :
          alerts' = [WithResolved(FiringOn({"monitoring"}), "other") EXCEPT ![id] = Counted(i, id)]
    BY <1>2 DEF RecordAnomaly, AddOccurrence
  <2>2. Counted(i, id).condition = i /\ FiringOn({"monitoring"}) \in SUBSET Firing
    BY CountedRow, ConditionsDiffer DEF FiringOn
  <2> QED
    BY <2>1, <2>2, ConditionsDiffer, TargetFires
<1> QED
  BY <1>1, <1>2

LEMMA FailureFires ==
  ASSUME IInv, OneFiring,
         RecordCollectionFailure \/ \E i \in Indicators : RecordAnalysisFailure(i)
  PROVE  OneFiring'
<1> DEFINE Fires(condition, id) ==
             \/ alerts' = [alerts EXCEPT ![id] = Counted(condition, id)]
             \/ alerts' = [alerts EXCEPT ![id] = Rated(Counted(condition, id))]
<1>0. PICK condition \in {"monitoring", "collection"} :
        \E id \in TargetOf(condition) : Fires(condition, id)
  BY DEF RecordCollectionFailure, RecordAnalysisFailure, CountedAttempt
<1>1. PICK id \in TargetOf(condition) : Fires(condition, id)
  BY <1>0
<1>2. /\ condition \in Conditions
      /\ Counted(condition, id).condition = condition
      /\ Rated(Counted(condition, id)).condition = condition
  BY ConditionsDiffer, CountedRow, RatedRow
<1>3. {} \in SUBSET Firing
  OBVIOUS
<1>4. CASE alerts' = [alerts EXCEPT ![id] = Counted(condition, id)]
  <2>1. alerts' = [WithResolved({}, "other") EXCEPT ![id] = Counted(condition, id)]
    BY <1>4, TargetIsOpen, NothingResolved
  <2> QED
    BY <1>2, <1>3, <2>1, TargetFires
<1>5. CASE alerts' = [alerts EXCEPT ![id] = Rated(Counted(condition, id))]
  <2>1. alerts' = [WithResolved({}, "other") EXCEPT ![id] = Rated(Counted(condition, id))]
    BY <1>5, TargetIsOpen, NothingResolved
  <2> QED
    BY <1>2, <1>3, <2>1, TargetFires
<1> QED
  BY <1>1, <1>4, <1>5

\* A review reopens an alert only while no other fires on its condition.
LEMMA ReviewFires ==
  ASSUME IInv, OneFiring, NEW key \in DOMAIN occurrences,
         AcceptAsNormal(key) \/ RestoreVerdict(key)
  PROVE  OneFiring'
<1> DEFINE id == occurrences[key].alert
<1>1. id \in Ids
  BY DEF IInv, OccurrencesKept, Occurrence
<1>2. CASE alerts' = alerts
  BY <1>2, FewerFiring
<1>3. CASE id \in Firing /\ alerts' = WithResolved({id}, "accepted_as_normal")
  <2>1. {id} \in SUBSET Firing
    BY <1>3
  <2> QED
    BY <1>3, <2>1, EndedFiring
<1>4. CASE Reopen(id)
  <2>1. \A other \in Ids :
          /\ alerts'[other].condition = alerts[other].condition
          /\ other # id => alerts'[other] = alerts[other]
    BY <1>1, <1>4 DEF Reopen, IInv, RowsTyped, AlertRow
  <2>2. \A other \in Firing : alerts[other].condition # alerts[id].condition
    BY <1>4 DEF Reopen, FiringOn
  <2> QED
    BY <2>1, <2>2 DEF OneFiring, Firing
<1> QED
  BY <1>2, <1>3, <1>4 DEF AcceptAsNormal, RestoreVerdict, Resolve

LEMMA OneFiringStep ==
  ASSUME IInv, OneFiring, [Next]_vars
  PROVE  OneFiring'
<1>1. ASSUME NEW i \in Indicators, RecordGood(i)
      PROVE  OneFiring'
  BY <1>1, EndedFiring DEF RecordGood, Resolve, FiringOn
<1>2. CASE ResolveCollection \/ InterruptAnomalies \/ CloseService
  <2>1. PICK ids \in SUBSET Firing : End(ids)
    BY <1>2 DEF ResolveCollection, InterruptAnomalies, CloseService, FiringOn
  <2> QED
    BY <2>1, EndedFiring DEF End, Resolve
<1>3. ASSUME NEW ids \in SUBSET Ids, DeleteExpired(ids)
      PROVE  OneFiring'
  <2>1. [NoAlert EXCEPT !.status = "deleted"].status = "deleted"
    BY NoAlertRow DEF AlertRow
  <2>2. \A id \in Ids : alerts'[id] = IF id \in ids THEN [NoAlert EXCEPT !.status = "deleted"]
                                                    ELSE alerts[id]
    BY <1>3 DEF DeleteExpired
  <2> QED
    BY <2>1, <2>2, FewerFiring
<1>4. ASSUME NEW id, NEW stale \in BOOLEAN, alerts' = [alerts EXCEPT ![id].stale = stale]
      PROVE  OneFiring'
  <2>1. \A other \in Ids : /\ alerts'[other].condition = alerts[other].condition
                           /\ alerts'[other].status = alerts[other].status
    BY <1>4 DEF IInv, RowsTyped, AlertRow
  <2> QED
    BY <2>1, FewerFiring
<1>5. CASE RecordDelivery \/ \E id \in Ids : Ages(id)
  BY <1>4, <1>5 DEF RecordDelivery, Ages
<1>6. CASE alerts' = alerts
  BY <1>6, FewerFiring
<1>7. ASSUME \/ Claim \/ ReadStatus \/ RecordFailure \/ Abandon \/ EnqueueRefreshes
             \/ \E accepted, answered \in BOOLEAN : Send(accepted, answered)
             \/ \E k \in 1..MaxPending : ComesDue(k)
             \/ UNCHANGED vars
      PROVE  alerts' = alerts
  BY <1>7 DEF Claim, ReadStatus, RecordFailure, Abandon, EnqueueRefreshes, Send, ComesDue,
     vars, tables
<1> QED
  BY <1>1, <1>2, <1>3, <1>5, <1>6, <1>7, AnomalyFires, FailureFires, ReviewFires
     DEF Next, Manager, Dispatcher, Time

----------------------------------------------------------------------------
(* Theorems. *)

\* The transactions of the alert manager keep rows, occurrences, counts and
\* reviews consistent: the invariant is inductive.
THEOREM AlertsInvariant == Spec => []IInv
<1>1. ASSUME IInv, [Next]_vars
      PROVE  IInv'
  BY <1>1, ManagerKeeps, DispatcherKeeps, TimeKeeps, OtherStepsKeep DEF Next, vars, tables
<1> QED
  BY <1>1, StartsSound, PTL DEF Spec

\* An anomaly goes on exactly while one of its chunks is not accepted as
\* normal, for any number of chunks and reviews in any order.
THEOREM ReviewsDecide == Spec => []ReviewsDecideResolution
<1>1. IInv => ReviewsDecideResolution
  BY DEF IInv
<1> QED
  BY <1>1, AlertsInvariant, PTL

\* The count of an anomaly is that of its distinct chunks, and its severity
\* follows from it, whatever is recorded again.
THEOREM CountsAreTrue == Spec => []AnomalyCountsChunks
<1>1. IInv => AnomalyCountsChunks
  BY DEF IInv
<1> QED
  BY <1>1, AlertsInvariant, PTL

\* The unique index on the firing alerts of a condition holds whatever opens,
\* ends and reopens them: only a review can run into it, and is refused.
THEOREM OneFiringPerCondition == Spec => []OneFiring
<1>1. Init => OneFiring
  BY NoAlertRow DEF Init, OneFiring, Firing
<1>2. IInv /\ OneFiring /\ [Next]_vars => OneFiring'
  BY OneFiringStep
<1> QED
  BY <1>1, <1>2, AlertsInvariant, PTL DEF Spec

\* Through every transaction, hand-off, failure and restart the outbox agrees
\* with the alerts: the dispatcher alone holds a lease, what Alertmanager holds
\* is a delivered or an unrecorded form, and the forms of an alert that is
\* over wait for their withdrawal.
THEOREM OutboxInvariant == Spec => []OutboxInv
<1>1. ASSUME IInv, OutboxInv, [Next]_vars
      PROVE  OutboxInv'
  BY <1>1, OutboxStep
<1> QED
  BY <1>1, OutboxStarts, AlertsInvariant, PTL DEF Spec

\* alerts.md, Delivery and resolution: a firing that was not handed off before
\* the resolution is not replayed after it.
THEOREM NoFiringWaits == Spec => []NoFiringWaitsAfterResolution
<1>1. OutboxInv => NoFiringWaitsAfterResolution
  BY DEF OutboxInv, FiringRows, RowsOf, NoFiringWaitsAfterResolution
<1> QED
  BY <1>1, OutboxInvariant, PTL

\* alerts.md, Delivery and resolution: whatever form of an alert Alertmanager
\* was told of, with its delivery recorded, is withdrawn when the alert is over.
THEOREM FormsAreWithdrawn == Spec => []ResolvedFormsAreWithdrawn
<1>1. OutboxInv => ResolvedFormsAreWithdrawn
  BY DEF OutboxInv, FormsEnd, RowsOf, HasPending, Withdraws, ResolvedFormsAreWithdrawn
<1> QED
  BY <1>1, OutboxInvariant, PTL

\* An alert counts no more occurrences than there were analyses and failed
\* collections: each is counted once, also when recording it is repeated.
THEOREM CountsAreBounded == Spec => []CountInv
<1>1. ASSUME IInv, CountInv, [Next]_vars
      PROVE  CountInv'
  BY <1>1, CountStep
<1> QED
  BY <1>1, CountStarts, AlertsInvariant, PTL DEF Spec

\* Every variable keeps its type; in particular the counts of the alerts stay
\* within the bound of their column's model.
THEOREM AlertsTypeCorrect == Spec => []TypeOK
BY AllTyped, AlertsInvariant, OutboxInvariant, CountsAreBounded, PTL

=============================================================================
