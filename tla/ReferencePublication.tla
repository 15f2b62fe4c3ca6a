------------------------- MODULE ReferencePublication -------------------------
(***************************************************************************)
(* The reference model of one indicator of a service: the chunks collected *)
(* and their Verdicts (internal/ecdf/database.go), the publication of a    *)
(* joint ECDF built from them (collection/builder.go and                   *)
(* ecdf/joint_database.go), the analysis that reads it                     *)
(* (collection/analyze.go), and the changes of a service that start a new  *)
(* generation and drop it (config/database.go).                            *)
(*                                                                         *)
(* One action is one statement or transaction on the database.  Backend    *)
(* tells PostgreSQL, where a publication holds an advisory lock from its   *)
(* first check to its commit, from SQLite, where it gives the only         *)
(* connection back while it builds.                                        *)
(***************************************************************************)
EXTENDS Naturals, Sequences, FiniteSets

CONSTANTS
  Backend,        \* "postgres" or "sqlite"
  Publishers,     \* the hourly builder and the builds that end an import
  Intervals,      \* the build intervals
  Chunks,         \* timestamps of the chunks
  Required,       \* eligible chunks that make the model ready
  Retained,       \* versions kept
  MaxGeneration,  \* bound on the generations of the service
  MaxJobs         \* bound on the analyses queued

ASSUME BackendAssumption == Backend \in {"postgres", "sqlite"}
ASSUME NumbersAssumption ==
  /\ Required \in Nat \ {0} /\ Retained \in Nat \ {0}
  /\ MaxGeneration \in Nat \ {0} /\ MaxJobs \in Nat
ASSUME NobodyAssumption == "nobody" \notin Publishers

VARIABLES
  generation,   \* service.generation
  chunk,        \* table time_chunk: the generation of a chunk, 0 for no row
  verdict,      \* table verdict
  occurrences,  \* table alert_occurrence: the chunks that have one
  ecdf,         \* table ecdf, in the order of the versions
  holder,       \* who holds the advisory lock, or "nobody"
  publisher,    \* where each publication is
  jobs,         \* analyses submitted and not started
  analysis      \* where the analysis worker is

data == <<generation, chunk, verdict, occurrences>>
vars == <<data, ecdf, holder, publisher, jobs, analysis>>

----------------------------------------------------------------------------

Generations == 1..MaxGeneration

\* accepted stands for review_override = true; judge is history, the generation
\* of the reference that a historical analysis compared the chunk with, or 0.
Verdict ==
  [state : {"pending", "baseline", "good", "bad", "failed"}, accepted : BOOLEAN,
   generation : 0..MaxGeneration, judge : 0..MaxGeneration]

PendingIn(g) == [state |-> "pending", accepted |-> FALSE, generation |-> g, judge |-> 0]

\* A stored body by the generation of the chunks it was built from.
Version == [interval : Intervals, generation : Generations]

Job == [chunk : Chunks, generation : Generations, historical : BOOLEAN]

IdlePublisher == [step |-> "idle"]
IdleAnalysis == [step |-> "idle"]

Init ==
  /\ generation = 1
  /\ chunk = [t \in Chunks |-> 0]
  /\ verdict = [t \in Chunks |-> PendingIn(0)]
  /\ occurrences = {}
  /\ ecdf = <<>>
  /\ holder = "nobody"
  /\ publisher = [p \in Publishers |-> IdlePublisher]
  /\ jobs = {}
  /\ analysis = IdleAnalysis

----------------------------------------------------------------------------
(* The service and its chunks. *)

LockFree == Backend = "sqlite" \/ holder = "nobody"

\* Mutant: a material change does not wait for a publication under way.
ChangeGoesAhead == TRUE

ChangeMayCommit == LockFree

\* A material change, or a reset of the baseline.
ChangeGeneration ==
  /\ generation < MaxGeneration /\ ChangeMayCommit
  /\ generation' = generation + 1
  /\ ecdf' = <<>>
  /\ UNCHANGED <<chunk, verdict, occurrences, holder, publisher, jobs, analysis>>

\* Mutant: a collector that started before a change overwrites what came after.
WritesAlways(t, g) == TRUE

IsCurrent(t, g) == chunk[t] <= g

\* A collector or an import, with the service as it read it: a newer chunk is
\* kept, the Verdict starts again with a new generation only.  A full queue
\* drops the analysis.
WriteChunk(t, g, historical) ==
  /\ IF IsCurrent(t, g)
       THEN /\ chunk' = [chunk EXCEPT ![t] = g]
            /\ verdict' = IF verdict[t].generation < g
                            THEN [verdict EXCEPT ![t] = PendingIn(g)]
                            ELSE verdict
       ELSE UNCHANGED <<chunk, verdict>>
  /\ jobs' = IF Cardinality(jobs) < MaxJobs
               THEN jobs \cup {[chunk |-> t, generation |-> g, historical |-> historical]}
               ELSE jobs
  /\ UNCHANGED <<generation, occurrences, ecdf, holder, publisher, analysis>>

\* ReviewOccurrence: an occurrence stays once it was recorded, and so its review
\* is written to the Verdict of the timestamp, of whatever generation and state.
Review(t, accept) ==
  /\ t \in occurrences
  /\ verdict' = [verdict EXCEPT ![t].accepted = accept]
  /\ UNCHANGED <<generation, chunk, occurrences, ecdf, holder, publisher, jobs, analysis>>

Eligible(t) ==
  verdict[t].state \in {"baseline", "good"} \/ (verdict[t].state = "bad" /\ verdict[t].accepted)

\* CountEligibleChunks: the generation of the Verdict.
EligibleCount(g) == Cardinality({t \in Chunks : verdict[t].generation = g /\ Eligible(t)})

\* ScanGoodChunks: the generation of the chunk.
GoodChunks(g) == {t \in Chunks : chunk[t] = g /\ Eligible(t)}

----------------------------------------------------------------------------
(* Publication. *)

Become(p, next) == publisher' = [publisher EXCEPT ![p] = next]

At(p, step) == publisher[p].step = step

To(p, step) == Become(p, [publisher[p] EXCEPT !.step = step])

Release(p) == IF holder = p THEN "nobody" ELSE holder

\* The invocation ends: published, skipped, discarded, or failed.
Finish(p) == Become(p, IdlePublisher) /\ holder' = Release(p)

ReadService(p, interval) ==
  /\ At(p, "idle")
  /\ Become(p, [step |-> "read", generation |-> generation, interval |-> interval])
  /\ UNCHANGED <<data, ecdf, holder, jobs, analysis>>

MeasureReadiness(p) ==
  /\ At(p, "read")
  /\ IF EligibleCount(publisher[p].generation) >= Required THEN To(p, "ready")
                                                           ELSE Become(p, IdlePublisher)
  /\ UNCHANGED <<data, ecdf, holder, jobs, analysis>>

IsPublished(interval) == \E v \in DOMAIN ecdf : ecdf[v].interval = interval

\* Mutant: the lock is tried and its answer ignored.
AlwaysAcquired == TRUE

Acquired == LockFree

\* pg_try_advisory_lock, then the check of the interval.
OpenPublication(p) ==
  /\ At(p, "ready")
  /\ IF ~Acquired \/ IsPublished(publisher[p].interval)
       THEN Become(p, IdlePublisher) /\ UNCHANGED holder
       ELSE To(p, "open") /\ holder' = IF Backend = "postgres" THEN p ELSE holder
  /\ UNCHANGED <<data, ecdf, jobs, analysis>>

\* build: a superseded publication is discarded.
RereadService(p) ==
  /\ At(p, "open")
  /\ IF publisher[p].generation = generation THEN To(p, "building") /\ UNCHANGED holder
                                             ELSE Finish(p)
  /\ UNCHANGED <<data, ecdf, jobs, analysis>>

BuildJointECDF(p) ==
  /\ At(p, "building")
  /\ IF GoodChunks(publisher[p].generation) = {} THEN Finish(p)
                                                 ELSE To(p, "built") /\ UNCHANGED holder
  /\ UNCHANGED <<data, ecdf, jobs, analysis>>

\* Mutant: old versions are never removed.
AllVersions(versions) == versions

Newest(versions) ==
  SubSeq(versions, IF Len(versions) > Retained THEN Len(versions) - Retained + 1 ELSE 1, Len(versions))

\* The transaction that checks again (SQLite), inserts and removes.
Publish(p) ==
  /\ At(p, "built")
  /\ IF Backend = "sqlite" /\ IsPublished(publisher[p].interval)
       THEN UNCHANGED ecdf
       ELSE ecdf' = Newest(Append(ecdf,
              [interval |-> publisher[p].interval, generation |-> publisher[p].generation]))
  /\ Finish(p)
  /\ UNCHANGED <<data, jobs, analysis>>

\* An error, the build timeout, or a crash.
FailPublication(p) ==
  /\ ~At(p, "idle")
  /\ Finish(p)
  /\ UNCHANGED <<data, ecdf, jobs, analysis>>

----------------------------------------------------------------------------
(* Analysis. *)

\* isActiveGeneration: a superseded analysis is dropped.
Analyze(job) ==
  analysis' = IF job.generation = generation THEN [step |-> "active", job |-> job]
                                             ELSE IdleAnalysis

StartAnalysis(job) ==
  /\ analysis.step = "idle" /\ job \in jobs
  /\ jobs' = jobs \ {job}
  /\ Analyze(job)
  /\ UNCHANGED <<data, ecdf, holder, publisher>>

\* A Verdict that could not be recorded: the whole analysis again.
RetryAnalysis ==
  /\ analysis.step \in {"baseline", "judging"}
  /\ Analyze(analysis.job)
  /\ UNCHANGED <<data, ecdf, holder, publisher, jobs>>

\* ReadCurrent: the newest version, of whatever generation it is.
ReadReference ==
  /\ analysis.step = "active"
  /\ analysis' = IF ecdf = <<>>
                   THEN [analysis EXCEPT !.step = "baseline"]
                   ELSE [step |-> "judging", job |-> analysis.job,
                         reference |-> ecdf[Len(ecdf)].generation]
  /\ UNCHANGED <<data, ecdf, holder, publisher, jobs>>

\* The reference has no points at the load of the chunk.
FindNoPoints ==
  /\ analysis.step = "judging"
  /\ analysis' = [step |-> "baseline", job |-> analysis.job]
  /\ UNCHANGED <<data, ecdf, holder, publisher, jobs>>

\* RecordBaseline and RecordAnalysisFailure upsert whatever row is there.
Upsert(t, state) == [verdict EXCEPT ![t].state = state, ![t].judge = 0]

RecordBaseline ==
  /\ analysis.step = "baseline"
  /\ verdict' = Upsert(analysis.job.chunk, "baseline")
  /\ analysis' = IdleAnalysis
  /\ UNCHANGED <<generation, chunk, occurrences, ecdf, holder, publisher, jobs>>

\* The service, the samples, the reference or the query gave an error.
RecordAnalysisFailure ==
  /\ analysis.step \in {"active", "judging"}
  /\ verdict' = Upsert(analysis.job.chunk, "failed")
  /\ analysis' = IdleAnalysis
  /\ UNCHANGED <<generation, chunk, occurrences, ecdf, holder, publisher, jobs>>

\* Mutant: WriteVerdict does not look at the generation of the row.
AnyRow(job) == TRUE

\* WriteVerdict of a historical result looks at the generation of the row,
\* RecordAnalysis of a live one does not.
Writable(job) == job.historical => verdict[job.chunk].generation = job.generation

RecordResult(state) ==
  /\ analysis.step = "judging"
  /\ LET job == analysis.job
         judge == IF job.historical THEN analysis.reference ELSE 0
     IN /\ verdict' = IF Writable(job)
                        THEN [verdict EXCEPT ![job.chunk].state = state, ![job.chunk].judge = judge]
                        ELSE verdict
        /\ occurrences' = IF state = "bad" /\ ~job.historical
                            THEN occurrences \cup {job.chunk}
                            ELSE occurrences
  /\ analysis' = IdleAnalysis
  /\ UNCHANGED <<generation, chunk, ecdf, holder, publisher, jobs>>

\* The queue is in memory: a stop loses what it holds, and so does the third
\* attempt that records nothing.
LoseAnalyses ==
  /\ jobs # {} \/ analysis.step # "idle"
  /\ jobs' = {} /\ analysis' = IdleAnalysis
  /\ UNCHANGED <<data, ecdf, holder, publisher>>

----------------------------------------------------------------------------

\* A collection or an import under way has the service as it read it.
InUse == 1..generation

Next ==
  \/ ChangeGeneration
  \/ \E t \in Chunks, g \in InUse, historical \in BOOLEAN : WriteChunk(t, g, historical)
  \/ \E t \in Chunks, accept \in BOOLEAN : Review(t, accept)
  \/ \E p \in Publishers :
       \/ \E interval \in Intervals : ReadService(p, interval)
       \/ MeasureReadiness(p) \/ OpenPublication(p) \/ RereadService(p)
       \/ BuildJointECDF(p) \/ Publish(p) \/ FailPublication(p)
  \/ \E job \in jobs : StartAnalysis(job)
  \/ RetryAnalysis
  \/ ReadReference
  \/ FindNoPoints
  \/ RecordBaseline
  \/ RecordAnalysisFailure
  \/ \E state \in {"good", "bad"} : RecordResult(state)
  \/ LoseAnalyses

Spec == Init /\ [][Next]_vars

----------------------------------------------------------------------------
(* Properties. *)

TypeOK ==
  /\ generation \in Generations
  /\ chunk \in [Chunks -> 0..MaxGeneration]
  /\ verdict \in [Chunks -> Verdict]
  /\ occurrences \subseteq Chunks
  /\ ecdf \in Seq(Version) /\ Len(ecdf) <= Retained
  /\ holder \in Publishers \cup {"nobody"}
  /\ \A p \in Publishers :
       /\ publisher[p].step \in {"idle", "read", "ready", "open", "building", "built"}
       /\ holder = p => ~At(p, "idle")
  /\ jobs \subseteq Job
  /\ analysis.step \in {"idle", "active", "baseline", "judging"}

\* database_test.go, "material update left an old-generation ECDF published",
\* and config.go, "multi-step publication and baseline changes serialize
\* consistently": no version of an earlier generation survives a change.
PublishedForActiveGeneration ==
  \A v \in DOMAIN ecdf : ecdf[v].generation = generation

\* ecdf-publication.md: one version per interval, whoever publishes it and
\* however often an invocation is retried.
OneVersionPerInterval ==
  \A v, w \in DOMAIN ecdf : ecdf[v].interval = ecdf[w].interval => v = w

\* load-time-of-day.md, Learning and publication: what makes a model ready and
\* what it is built from are the same chunks, though they are counted by the
\* generation of the Verdict and scanned by the generation of the chunk.
ReadinessCountsWhatIsBuilt ==
  \A g \in Generations : EligibleCount(g) = Cardinality(GoodChunks(g))

\* A historical analysis that outlives a change never makes a chunk of the new
\* generation eligible by comparing it with the reference of the old one.
HistoricalVerdictsKeepGeneration ==
  \A t \in Chunks :
    LET v == verdict[t] IN
      (v.judge # 0 /\ v.generation = generation) => v.judge = generation

Published == INSTANCE PublishedReferences WITH active <- generation, versions <- ecdf

\* joint_database.go, Publish, and config.go, "multi-step publication and
\* baseline changes serialize consistently": a publication, from its first
\* check to its commit, and a change of the service are each one event,
\* whatever they interleave with.
ImplementsPublishedReferences == Published!ReferencesSpec

=============================================================================
