---------------------- MODULE ReferencePublicationProofs ----------------------
(* Theorems about ReferencePublication, for every set of publishers, build   *)
(* intervals and chunks, and every bound.                                    *)
EXTENDS ReferencePublication, TLAPS, SequenceTheorems

----------------------------------------------------------------------------
(* The inductive invariant. *)

PublisherState ==
  [step : {"idle"}] \cup
  [step : {"read", "ready", "open", "building", "built"},
   generation : Generations, interval : Intervals]

AnalysisState ==
  [step : {"idle"}] \cup
  [step : {"active", "baseline"}, job : Job] \cup
  [step : {"judging"}, job : Job, reference : Generations]

\* Past its first check.
Locked(p) == publisher[p].step \in {"open", "building", "built"}

\* TypeOK with the records it leaves open.
Typed ==
  /\ generation \in Generations
  /\ chunk \in [Chunks -> 0..MaxGeneration]
  /\ verdict \in [Chunks -> Verdict]
  /\ ecdf \in Seq(Version) /\ Len(ecdf) <= Retained
  /\ holder \in Publishers \cup {"nobody"}
  /\ publisher \in [Publishers -> PublisherState]
  /\ \A p \in Publishers : holder = p => Locked(p)
  /\ jobs \subseteq Job
  /\ analysis \in AnalysisState

\* The row of a Verdict has the generation of its chunk: each is written with
\* the other, and only WriteChunk gives either a generation.
SameGeneration == \A t \in Chunks : verdict[t].generation = chunk[t]

\* On PostgreSQL a publication past its first check holds the lock, and its
\* interval stays unpublished; past its second read its generation is active.
LockProtects ==
  \A p \in Publishers :
    Locked(p) =>
      /\ holder = p
      /\ ~IsPublished(publisher[p].interval)
      /\ ~At(p, "open") => publisher[p].generation = generation

\* On PostgreSQL a reference is never older than the job compared with it.
JudgedByNoOlder ==
  /\ analysis.step = "judging" =>
       analysis.job.generation <= analysis.reference /\ analysis.reference <= generation
  /\ analysis.step \in {"active", "baseline"} => analysis.job.generation <= generation
  /\ \A t \in Chunks :
       verdict[t].judge # 0 =>
         verdict[t].generation <= verdict[t].judge /\ verdict[t].judge <= generation

OnPostgres == LockProtects /\ PublishedForActiveGeneration /\ JudgedByNoOlder

IInv ==
  /\ Typed
  /\ SameGeneration
  /\ OneVersionPerInterval
  /\ Backend = "postgres" => OnPostgres

----------------------------------------------------------------------------
(* The versions kept. *)

\* Trimming keeps the versions at the end, in their order.
LEMMA NewestKeepsTheEnd ==
  ASSUME NEW versions \in Seq(Version)
  PROVE  /\ Newest(versions) \in Seq(Version)
         /\ Len(Newest(versions)) <= Retained
         /\ \E cut \in Nat : \A v \in DOMAIN Newest(versions) :
              v + cut \in DOMAIN versions /\ Newest(versions)[v] = versions[v + cut]
<1> DEFINE cut == IF Len(versions) > Retained THEN Len(versions) - Retained ELSE 0
<1>1. Len(versions) \in Nat /\ Retained \in Nat /\ Retained > 0
  BY NumbersAssumption
<1>2. cut \in Nat /\ cut <= Len(versions) /\ Len(versions) - cut <= Retained
  BY <1>1
<1>3. Newest(versions) = SubSeq(versions, cut + 1, Len(versions))
  BY <1>1 DEF Newest
<1> HIDE DEF cut
<1>4. /\ Newest(versions) \in Seq(Version)
      /\ Len(Newest(versions)) = Len(versions) - cut
      /\ \A v \in 1..(Len(versions) - cut) : Newest(versions)[v] = versions[v + cut]
  BY <1>1, <1>2, <1>3
<1> DEFINE kept == Newest(versions)
<1>5. DOMAIN versions = 1..Len(versions) /\ DOMAIN kept = 1..(Len(versions) - cut)
  BY <1>4
<1> HIDE DEF kept
<1>6. \A v \in DOMAIN kept : v + cut \in DOMAIN versions /\ kept[v] = versions[v + cut]
  BY <1>1, <1>2, <1>4, <1>5 DEF kept
<1>7. QED
  BY <1>1, <1>2, <1>4, <1>6 DEF kept

\* What the transaction of Publish does to the table.
LEMMA PublishedIs ==
  ASSUME NEW versions \in Seq(Version), NEW version \in Version
  PROVE  LET kept == Newest(Append(versions, version)) IN
           /\ kept \in Seq(Version) /\ Len(kept) <= Retained
           /\ \E cut \in Nat : \A v \in DOMAIN kept :
                \/ v + cut \in DOMAIN versions /\ kept[v] = versions[v + cut]
                \/ v + cut = Len(versions) + 1 /\ kept[v] = version
<1> DEFINE all == Append(versions, version)
           kept == Newest(all)
<1>1. /\ all \in Seq(Version) /\ DOMAIN all = 1..(Len(versions) + 1)
      /\ all[Len(versions) + 1] = version
      /\ \A v \in 1..Len(versions) : all[v] = versions[v]
      /\ DOMAIN versions = 1..Len(versions) /\ Len(versions) \in Nat
  OBVIOUS
<1> HIDE DEF all
<1>2. kept \in Seq(Version) /\ Len(kept) <= Retained
  BY <1>1, NewestKeepsTheEnd
<1>3. PICK cut \in Nat : \A v \in DOMAIN kept :
        v + cut \in DOMAIN all /\ kept[v] = all[v + cut]
  BY <1>1, NewestKeepsTheEnd
<1>4. ASSUME NEW v \in DOMAIN kept
      PROVE  \/ v + cut \in DOMAIN versions /\ kept[v] = versions[v + cut]
             \/ v + cut = Len(versions) + 1 /\ kept[v] = version
  <2>1. v + cut \in 1..(Len(versions) + 1) /\ kept[v] = all[v + cut]
    BY <1>1, <1>3
  <2>2. QED
    BY <1>1, <2>1
<1> HIDE DEF kept
<1>5. QED
  BY <1>2, <1>4 DEF kept, all

----------------------------------------------------------------------------
(* The steps of a publication. *)

\* A publication goes on, or ends: its record, the lock, and nothing else.
LEMMA PublisherRecords ==
  ASSUME Typed, NEW p \in Publishers
  PROVE  /\ publisher[p] \in PublisherState
         /\ IdlePublisher \in PublisherState
         /\ ~At(p, "idle") =>
              /\ publisher[p].generation \in Generations
              /\ publisher[p].interval \in Intervals
              /\ \A step \in {"ready", "open", "building", "built"} :
                   LET next == [publisher[p] EXCEPT !.step = step] IN
                     /\ next \in PublisherState /\ next.step = step
                     /\ next.generation = publisher[p].generation
                     /\ next.interval = publisher[p].interval
<1>1. publisher[p] \in PublisherState /\ IdlePublisher \in PublisherState
  BY DEF Typed, PublisherState, IdlePublisher
<1>2. CASE ~At(p, "idle")
  <2>1. publisher[p] \in [step : {"read", "ready", "open", "building", "built"},
                          generation : Generations, interval : Intervals]
    BY <1>1, <1>2 DEF At, PublisherState
  <2>2. QED
    BY <1>1, <2>1 DEF PublisherState
<1>3. QED
  BY <1>1, <1>2

\* A step of publication p that leaves the table as it is.
LEMMA ProceedKeeps ==
  ASSUME IInv, NEW p \in Publishers, NEW next \in PublisherState,
         publisher' = [publisher EXCEPT ![p] = next],
         holder' \in Publishers \cup {"nobody"},
         holder' = p => next.step \in {"open", "building", "built"},
         \A q \in Publishers \ {p} : holder = q <=> holder' = q,
         UNCHANGED <<data, ecdf, jobs, analysis>>,
         next.step \in {"open", "building", "built"} /\ Backend = "postgres" =>
           /\ holder' = p /\ ~IsPublished(next.interval)
           /\ next.step # "open" => next.generation = generation
  PROVE  IInv'
<1> USE DEF IInv
<1>1. /\ publisher'[p] = next /\ \A q \in Publishers \ {p} : publisher'[q] = publisher[q]
      /\ publisher' \in [Publishers -> PublisherState]
  BY DEF Typed
<1>2. Typed'
  BY <1>1 DEF Typed, Locked, data
<1>3. SameGeneration' /\ OneVersionPerInterval'
  BY DEF data, SameGeneration, OneVersionPerInterval
<1>4. ASSUME Backend = "postgres"
      PROVE  OnPostgres'
  <2>1. PublishedForActiveGeneration' /\ JudgedByNoOlder'
    BY <1>4 DEF OnPostgres, data, PublishedForActiveGeneration, JudgedByNoOlder
  <2>2. ASSUME NEW q \in Publishers, Locked(q)'
        PROVE  /\ holder' = q
               /\ ~IsPublished(publisher[q].interval)'
               /\ ~At(q, "open")' => publisher'[q].generation = generation'
    <3>1. CASE q = p
      BY <1>1, <1>4, <2>2, <3>1 DEF Locked, At, data, IsPublished
    <3>2. CASE q # p
      BY <1>1, <1>4, <2>2, <3>2 DEF OnPostgres, LockProtects, Locked, At, data, IsPublished
    <3>3. QED
      BY <3>1, <3>2
  <2>3. LockProtects'
    BY <2>2 DEF LockProtects
  <2>4. QED
    BY <2>1, <2>3 DEF OnPostgres
<1>5. QED
  BY <1>2, <1>3, <1>4

\* Finish releases the lock of p and of nobody else.
LEMMA FinishReleases ==
  ASSUME NEW p \in Publishers, Typed
  PROVE  /\ Release(p) \in Publishers \cup {"nobody"} /\ Release(p) # p
         /\ \A q \in Publishers \ {p} : holder = q <=> Release(p) = q
  BY NobodyAssumption DEF Release, Typed

LEMMA FinishKeeps ==
  ASSUME IInv, NEW p \in Publishers, Finish(p), UNCHANGED <<data, ecdf, jobs, analysis>>
  PROVE  IInv'
<1>1. Typed /\ holder' = Release(p)
      /\ publisher' = [publisher EXCEPT ![p] = IdlePublisher]
  BY DEF IInv, Finish, Become
<1>2. IdlePublisher \in PublisherState /\ IdlePublisher.step = "idle"
  BY <1>1, PublisherRecords DEF IdlePublisher
<1>3. /\ holder' \in Publishers \cup {"nobody"} /\ holder' # p
      /\ \A q \in Publishers \ {p} : holder = q <=> holder' = q
  BY <1>1, FinishReleases
<1> HIDE DEF Finish
<1>4. QED
  BY <1>1, <1>2, <1>3, ProceedKeeps

LEMMA StepsOfPublicationKeep ==
  ASSUME IInv, NEW p \in Publishers,
         \/ \E interval \in Intervals : ReadService(p, interval)
         \/ MeasureReadiness(p) \/ OpenPublication(p) \/ RereadService(p)
         \/ BuildJointECDF(p) \/ FailPublication(p)
  PROVE  IInv'
<1>1. /\ Typed /\ generation \in Generations /\ holder \in Publishers \cup {"nobody"}
      /\ holder = p => Locked(p)
      /\ p # "nobody"
  BY NobodyAssumption DEF IInv, Typed
<1>2. /\ publisher[p] \in PublisherState
      /\ IdlePublisher \in PublisherState /\ IdlePublisher.step = "idle"
  BY <1>1, PublisherRecords DEF IdlePublisher
\* Before its first check a publication does not hold the lock.
<1>3. ASSUME NEW next \in PublisherState, next.step \in {"idle", "read", "ready"}, ~Locked(p),
             Become(p, next), UNCHANGED <<data, ecdf, holder, jobs, analysis>>
      PROVE  IInv'
  <2>1. holder' = holder /\ holder # p /\ publisher' = [publisher EXCEPT ![p] = next]
    BY <1>1, <1>3 DEF Become
  <2>2. QED
    BY <1>1, <1>3, <2>1, ProceedKeeps
\* It holds the lock from there on.
<1>4. ASSUME NEW step \in {"open", "building", "built"}, ~At(p, "idle"), To(p, step),
             UNCHANGED <<data, ecdf, jobs, analysis>>,
             holder' = holder \/ (holder' = p /\ holder = "nobody"),
             Backend = "postgres" =>
               /\ holder' = p /\ ~IsPublished(publisher[p].interval)
               /\ step # "open" => publisher[p].generation = generation
      PROVE  IInv'
  <2> DEFINE next == [publisher[p] EXCEPT !.step = step]
  <2>1. /\ next \in PublisherState /\ next.step = step
        /\ next.generation = publisher[p].generation /\ next.interval = publisher[p].interval
    BY <1>1, <1>4, PublisherRecords
  <2>2. publisher' = [publisher EXCEPT ![p] = next]
    BY <1>4 DEF To, Become
  <2> HIDE DEF next
  <2>3. /\ holder' \in Publishers \cup {"nobody"}
        /\ \A q \in Publishers \ {p} : holder = q <=> holder' = q
    BY <1>1, <1>4, NobodyAssumption
  <2>4. QED
    BY <1>4, <2>1, <2>2, <2>3, ProceedKeeps
<1>5. ASSUME NEW interval \in Intervals, ReadService(p, interval)
      PROVE  IInv'
  <2> DEFINE next == [step |-> "read", generation |-> generation, interval |-> interval]
  <2>1. next \in PublisherState /\ next.step = "read"
    BY <1>1 DEF PublisherState
  <2>2. Become(p, next) /\ ~Locked(p) /\ UNCHANGED <<data, ecdf, holder, jobs, analysis>>
    BY <1>5 DEF ReadService, At, Locked
  <2> HIDE DEF next
  <2>3. QED
    BY <1>3, <2>1, <2>2
<1>6. CASE MeasureReadiness(p)
  <2>1. ~At(p, "idle") /\ ~Locked(p) /\ UNCHANGED <<data, ecdf, holder, jobs, analysis>>
    BY <1>6 DEF MeasureReadiness, At, Locked
  <2>2. CASE To(p, "ready")
    <3> DEFINE next == [publisher[p] EXCEPT !.step = "ready"]
    <3>1. next \in PublisherState /\ next.step = "ready"
      BY <1>1, <2>1, PublisherRecords
    <3>2. Become(p, next)
      BY <2>2 DEF To
    <3> HIDE DEF next
    <3>3. QED
      BY <1>3, <2>1, <3>1, <3>2
  <2>3. CASE Become(p, IdlePublisher)
    BY <1>2, <1>3, <2>1, <2>3
  <2>4. QED
    BY <1>6, <2>2, <2>3 DEF MeasureReadiness
<1>7. CASE OpenPublication(p)
  <2>1. ~At(p, "idle") /\ ~Locked(p) /\ UNCHANGED <<data, ecdf, jobs, analysis>>
    BY <1>7 DEF OpenPublication, At, Locked
  <2>2. CASE ~Acquired \/ IsPublished(publisher[p].interval)
    <3>1. Become(p, IdlePublisher) /\ holder' = holder
      BY <1>7, <2>2 DEF OpenPublication
    <3>2. QED
      BY <1>2, <1>3, <2>1, <3>1
  <2>3. CASE Acquired /\ ~IsPublished(publisher[p].interval)
    <3>1. To(p, "open") /\ holder' = (IF Backend = "postgres" THEN p ELSE holder)
      BY <1>7, <2>3 DEF OpenPublication
    <3>2. Backend = "postgres" => holder = "nobody"
      BY <2>3 DEF Acquired, LockFree
    <3>3. QED
      BY <1>4, <2>1, <2>3, <3>1, <3>2
  <2>4. QED
    BY <2>2, <2>3
\* Once it holds the lock it keeps it.
<1>8. ASSUME NEW from \in {"open", "building"}, NEW step \in {"building", "built"},
             At(p, from), To(p, step), UNCHANGED <<data, ecdf, holder, jobs, analysis>>,
             from = "open" => publisher[p].generation = generation
      PROVE  IInv'
  <2>1. ~At(p, "idle") /\ Locked(p)
    BY <1>8 DEF At, Locked
  <2>2. Backend = "postgres" =>
          /\ holder = p /\ ~IsPublished(publisher[p].interval)
          /\ publisher[p].generation = generation
    BY <1>8, <2>1 DEF IInv, OnPostgres, LockProtects, At
  <2>3. QED
    BY <1>4, <1>8, <2>1, <2>2
<1>9. CASE RereadService(p)
  <2>1. CASE publisher[p].generation = generation
    BY <1>8, <1>9, <2>1 DEF RereadService
  <2>2. CASE publisher[p].generation # generation
    BY <1>9, <2>2, FinishKeeps DEF RereadService
  <2>3. QED
    BY <2>1, <2>2
<1>10. CASE BuildJointECDF(p)
  <2>1. CASE GoodChunks(publisher[p].generation) # {}
    BY <1>8, <1>10, <2>1 DEF BuildJointECDF
  <2>2. CASE GoodChunks(publisher[p].generation) = {}
    BY <1>10, <2>2, FinishKeeps DEF BuildJointECDF
  <2>3. QED
    BY <2>1, <2>2
<1>11. CASE FailPublication(p)
  BY <1>11, FinishKeeps DEF FailPublication
<1>12. QED
  BY <1>5, <1>6, <1>7, <1>9, <1>10, <1>11

\* The transaction that inserts: no version of its interval is there, on
\* SQLite because it looks again, on PostgreSQL because of the lock.
LEMMA PublishKeeps ==
  ASSUME IInv, NEW p \in Publishers, Publish(p)
  PROVE  IInv'
<1>1. Typed /\ Locked(p) /\ ~At(p, "idle") /\ Finish(p) /\ UNCHANGED <<data, jobs, analysis>>
  BY DEF IInv, Publish, At, Locked
<1>2. CASE ecdf' = ecdf
  BY <1>1, <1>2, FinishKeeps
<1>3. CASE ecdf' # ecdf
  <2> DEFINE version == [interval |-> publisher[p].interval, generation |-> publisher[p].generation]
  <2>1. ecdf' = Newest(Append(ecdf, version))
    BY <1>3 DEF Publish
  <2>2. version \in Version /\ version.interval = publisher[p].interval
        /\ version.generation = publisher[p].generation
    BY <1>1, PublisherRecords DEF Version
  <2>3. ~IsPublished(version.interval)
    <3>1. Backend # "postgres" => Backend = "sqlite"
      BY BackendAssumption
    <3>2. Backend = "sqlite" => ~IsPublished(publisher[p].interval)
      BY <1>3 DEF Publish
    <3>3. QED
      BY <1>1, <2>2, <3>1, <3>2 DEF IInv, OnPostgres, LockProtects
  <2>4. Backend = "postgres" => holder = p /\ version.generation = generation
    BY <1>1, <2>2 DEF IInv, OnPostgres, LockProtects, Publish, At
  <2> HIDE DEF version
  <2>5. ecdf' \in Seq(Version) /\ Len(ecdf') <= Retained
    BY <1>1, <2>1, <2>2, PublishedIs DEF Typed
  <2>6. PICK cut \in Nat : \A v \in DOMAIN ecdf' :
          \/ v + cut \in DOMAIN ecdf /\ ecdf'[v] = ecdf[v + cut]
          \/ v + cut = Len(ecdf) + 1 /\ ecdf'[v] = version
    BY <1>1, <2>1, <2>2, PublishedIs DEF Typed
  <2>7. DOMAIN ecdf' \subseteq Nat
    <3>1. DOMAIN ecdf' = 1..Len(ecdf') /\ Len(ecdf') \in Nat
      BY <2>5
    <3>2. QED
      BY <3>1
  <2>8. OneVersionPerInterval'
    <3>1. ASSUME NEW v \in DOMAIN ecdf', NEW w \in DOMAIN ecdf',
                 ecdf'[v].interval = ecdf'[w].interval
          PROVE  v + cut = w + cut
      BY <2>3, <2>6, <3>1 DEF IInv, OneVersionPerInterval, IsPublished
    <3>2. ASSUME NEW v \in DOMAIN ecdf', NEW w \in DOMAIN ecdf',
                 ecdf'[v].interval = ecdf'[w].interval
          PROVE  v = w
      <4>1. v \in Nat /\ w \in Nat /\ v + cut = w + cut
        BY <2>7, <3>1, <3>2
      <4>2. QED
        BY <4>1
    <3>3. QED
      BY <3>2 DEF OneVersionPerInterval
  <2>9. /\ publisher' = [publisher EXCEPT ![p] = IdlePublisher]
        /\ publisher' \in [Publishers -> PublisherState]
        /\ publisher'[p].step = "idle"
        /\ \A q \in Publishers \ {p} : publisher'[q] = publisher[q]
    BY <1>1, PublisherRecords DEF Finish, Become, Typed, IdlePublisher
  <2>10. /\ holder' \in Publishers \cup {"nobody"} /\ holder' # p
         /\ \A q \in Publishers \ {p} : holder = q <=> holder' = q
    BY <1>1, FinishReleases DEF Finish
  <2>11. Typed'
    BY <1>1, <2>5, <2>9, <2>10 DEF Typed, Locked, data
  <2>12. SameGeneration'
    BY <1>1 DEF IInv, SameGeneration, data
  <2>13. ASSUME Backend = "postgres"
         PROVE  OnPostgres'
    <3>1. LockProtects'
      BY <2>4, <2>9, <2>13 DEF IInv, OnPostgres, LockProtects, Locked
    <3>2. PublishedForActiveGeneration'
      BY <1>1, <2>4, <2>6, <2>13 DEF IInv, OnPostgres, PublishedForActiveGeneration, data
    <3>3. JudgedByNoOlder'
      BY <1>1, <2>13 DEF IInv, OnPostgres, JudgedByNoOlder, data
    <3>4. QED
      BY <3>1, <3>2, <3>3 DEF OnPostgres
  <2>14. QED
    BY <2>8, <2>11, <2>12, <2>13 DEF IInv
<1>4. QED
  BY <1>2, <1>3

----------------------------------------------------------------------------
(* The service, its chunks and their analysis. *)

\* A change of the generation waits for whoever holds the lock.
LEMMA ChangeKeeps ==
  ASSUME IInv, ChangeGeneration
  PROVE  IInv'
<1> USE DEF IInv
<1>1. /\ generation \in Nat /\ generation' = generation + 1 /\ generation' \in Generations
      /\ ecdf' = <<>>
      /\ UNCHANGED <<chunk, verdict, holder, publisher, jobs, analysis>>
  BY NumbersAssumption DEF ChangeGeneration, Typed, Generations
<1>2. Typed'
  BY <1>1, NumbersAssumption DEF Typed, Locked
<1>3. SameGeneration' /\ OneVersionPerInterval'
  BY <1>1 DEF SameGeneration, OneVersionPerInterval
<1>4. ASSUME Backend = "postgres"
      PROVE  OnPostgres'
  <2>1. holder = "nobody"
    BY <1>4 DEF ChangeGeneration, ChangeMayCommit, LockFree
  <2>2. LockProtects'
    BY <1>1, <1>4, <2>1, NobodyAssumption DEF OnPostgres, LockProtects, Locked
  <2>3. PublishedForActiveGeneration'
    BY <1>1 DEF PublishedForActiveGeneration
  <2>4. JudgedByNoOlder'
    <3>1. ASSUME NEW t \in Chunks
          PROVE  verdict[t].judge \in Nat
      BY NumbersAssumption DEF Typed, Verdict
    <3>2. analysis.step = "judging" =>
            analysis.reference \in Nat /\ analysis.job.generation \in Nat
      BY DEF Typed, AnalysisState, Job, Generations
    <3>3. analysis.step \in {"active", "baseline"} => analysis.job.generation \in Nat
      BY DEF Typed, AnalysisState, Job, Generations
    <3>4. JudgedByNoOlder
      BY <1>4 DEF OnPostgres
    <3>5. /\ analysis.step = "judging" => analysis.reference <= generation + 1
          /\ analysis.step \in {"active", "baseline"} =>
               analysis.job.generation <= generation + 1
          /\ \A t \in Chunks : verdict[t].judge # 0 => verdict[t].judge <= generation + 1
      BY <1>1, <3>1, <3>2, <3>3, <3>4 DEF JudgedByNoOlder
    <3>6. QED
      BY <1>1, <3>4, <3>5 DEF JudgedByNoOlder
  <2>5. QED
    BY <2>2, <2>3, <2>4 DEF OnPostgres
<1>5. QED
  BY <1>2, <1>3, <1>4

\* A step on chunks, Verdicts and analyses only.
LEMMA RecordKeeps ==
  ASSUME IInv, UNCHANGED <<generation, ecdf, holder, publisher>>,
         chunk' \in [Chunks -> 0..MaxGeneration], verdict' \in [Chunks -> Verdict],
         jobs' \subseteq Job, analysis' \in AnalysisState,
         SameGeneration', Backend = "postgres" => JudgedByNoOlder'
  PROVE  IInv'
<1> USE DEF IInv
<1>1. Typed'
  BY DEF Typed, Locked
<1>2. OneVersionPerInterval'
  BY DEF OneVersionPerInterval
<1>3. Backend = "postgres" => LockProtects' /\ PublishedForActiveGeneration'
  BY DEF OnPostgres, LockProtects, Locked, At, IsPublished, PublishedForActiveGeneration
<1>4. QED
  BY <1>1, <1>2, <1>3 DEF OnPostgres

\* A chunk is written with its generation, the Verdict starts again with it.
LEMMA WriteChunkKeeps ==
  ASSUME IInv, NEW t \in Chunks, NEW g \in InUse, NEW historical \in BOOLEAN,
         WriteChunk(t, g, historical)
  PROVE  IInv'
<1>1. /\ Typed /\ SameGeneration /\ g \in Generations /\ g \in 0..MaxGeneration
      /\ UNCHANGED <<generation, ecdf, holder, publisher, analysis>>
  BY NumbersAssumption DEF IInv, Typed, WriteChunk, InUse, Generations
<1>2. jobs' \subseteq Job
  BY <1>1 DEF Typed, WriteChunk, Job
<1>3. PendingIn(g) \in Verdict /\ PendingIn(g).generation = g /\ PendingIn(g).judge = 0
  BY <1>1, NumbersAssumption DEF PendingIn, Verdict
<1>4. ASSUME NEW u \in Chunks
      PROVE  chunk[u] \in Nat /\ verdict[u] \in Verdict /\ verdict[u].generation = chunk[u]
  BY <1>1 DEF Typed, SameGeneration
<1>5. /\ chunk' \in [Chunks -> 0..MaxGeneration] /\ verdict' \in [Chunks -> Verdict]
      /\ SameGeneration'
      /\ \A u \in Chunks : verdict'[u] = verdict[u] \/ verdict'[u].judge = 0
  <2>1. CASE ~IsCurrent(t, g)
    BY <1>1, <2>1 DEF WriteChunk, Typed, SameGeneration
  <2>2. CASE IsCurrent(t, g)
    <3>1. /\ chunk[t] <= g /\ chunk' = [chunk EXCEPT ![t] = g]
          /\ verdict' = IF verdict[t].generation < g
                          THEN [verdict EXCEPT ![t] = PendingIn(g)] ELSE verdict
      BY <2>2 DEF IsCurrent, WriteChunk
    <3>2. CASE chunk[t] < g
      <4>1. verdict' = [verdict EXCEPT ![t] = PendingIn(g)]
        BY <1>4, <3>1, <3>2
      <4> HIDE DEF PendingIn
      <4>2. QED
        BY <1>1, <1>3, <1>4, <3>1, <4>1 DEF Typed, SameGeneration
    <3>3. CASE ~(chunk[t] < g)
      <4>1. verdict' = verdict /\ chunk[t] = g
        BY <1>1, <1>4, <3>1, <3>3 DEF Generations
      <4>2. QED
        BY <1>1, <1>4, <3>1, <4>1 DEF Typed, SameGeneration
    <3>4. QED
      BY <3>2, <3>3
  <2>3. QED
    BY <2>1, <2>2
<1>6. Backend = "postgres" => JudgedByNoOlder'
  BY <1>1, <1>5 DEF IInv, OnPostgres, JudgedByNoOlder
<1>7. QED
  BY <1>1, <1>2, <1>5, <1>6, RecordKeeps DEF Typed

LEMMA ReviewKeeps ==
  ASSUME IInv, NEW t \in Chunks, NEW accept \in BOOLEAN, Review(t, accept)
  PROVE  IInv'
<1>1. /\ Typed /\ SameGeneration
      /\ verdict' = [verdict EXCEPT ![t].accepted = accept]
      /\ UNCHANGED <<generation, chunk, ecdf, holder, publisher, jobs, analysis>>
  BY DEF IInv, Review
<1>2. \A u \in Chunks : verdict[u] \in Verdict
  BY <1>1 DEF Typed
<1>3. /\ verdict' \in [Chunks -> Verdict]
      /\ \A u \in Chunks : /\ verdict'[u].generation = verdict[u].generation
                           /\ verdict'[u].judge = verdict[u].judge
  BY <1>1, <1>2 DEF Typed, Verdict
<1>4. SameGeneration' /\ (Backend = "postgres" => JudgedByNoOlder')
  BY <1>1, <1>3 DEF IInv, SameGeneration, OnPostgres, JudgedByNoOlder
<1>5. QED
  BY <1>1, <1>3, <1>4, RecordKeeps DEF Typed

\* A record with one more Verdict, of the generation the row has; judge says
\* what the analysis compared the chunk with.
LEMMA VerdictKeeps ==
  ASSUME IInv, NEW t \in Chunks, NEW state \in {"baseline", "good", "bad", "failed"},
         NEW judge \in 0..MaxGeneration,
         verdict' = [verdict EXCEPT ![t].state = state, ![t].judge = judge],
         analysis' = IdleAnalysis,
         UNCHANGED <<generation, chunk, ecdf, holder, publisher, jobs>>,
         (Backend = "postgres" /\ judge # 0) =>
            verdict[t].generation <= judge /\ judge <= generation
  PROVE  IInv'
<1>1. Typed /\ SameGeneration
  BY DEF IInv
<1>2. \A u \in Chunks : verdict[u] \in Verdict
  BY <1>1 DEF Typed
<1>3. /\ verdict' \in [Chunks -> Verdict]
      /\ \A u \in Chunks : verdict'[u].generation = verdict[u].generation
      /\ \A u \in Chunks \ {t} : verdict'[u].judge = verdict[u].judge
      /\ verdict'[t].judge = judge
  BY <1>1, <1>2 DEF Typed, Verdict
<1>4. analysis' \in AnalysisState /\ analysis'.step = "idle"
  BY DEF AnalysisState, IdleAnalysis
<1>5. SameGeneration'
  BY <1>1, <1>3 DEF SameGeneration
<1>6. ASSUME Backend = "postgres"
      PROVE  JudgedByNoOlder'
  BY <1>3, <1>4, <1>6 DEF IInv, OnPostgres, JudgedByNoOlder
<1>7. QED
  BY <1>1, <1>3, <1>4, <1>5, <1>6, RecordKeeps DEF Typed

\* The worker goes on to next, whose job is of no later generation.
LEMMA AnalysisProceeds ==
  ASSUME IInv, NEW next \in AnalysisState, analysis' = next, jobs' \subseteq jobs,
         UNCHANGED <<data, ecdf, holder, publisher>>,
         (Backend = "postgres" /\ next.step \in {"active", "baseline"}) =>
           next.job.generation <= generation,
         (Backend = "postgres" /\ next.step = "judging") =>
           next.job.generation <= next.reference /\ next.reference <= generation
  PROVE  IInv'
<1>1. Typed /\ SameGeneration'
  BY DEF IInv, SameGeneration, data
<1>2. Backend = "postgres" => JudgedByNoOlder'
  BY DEF IInv, OnPostgres, JudgedByNoOlder, data
<1>3. QED
  BY <1>1, <1>2, RecordKeeps DEF Typed, data

\* isActiveGeneration lets a job of the active generation through.
LEMMA AnalyzeKeeps ==
  ASSUME IInv, NEW job \in Job, Analyze(job), jobs' \subseteq jobs,
         UNCHANGED <<data, ecdf, holder, publisher>>
  PROVE  IInv'
<1> DEFINE active == [step |-> "active", job |-> job]
<1>1. /\ active \in AnalysisState /\ active.step = "active" /\ active.job = job
      /\ IdleAnalysis \in AnalysisState /\ IdleAnalysis.step = "idle"
  BY DEF AnalysisState, IdleAnalysis
<1>2. generation \in Nat
  BY DEF IInv, Typed, Generations
<1>3. CASE job.generation = generation
  <2>1. analysis' = active
    BY <1>3 DEF Analyze
  <2> HIDE DEF active
  <2>2. QED
    BY <1>1, <1>2, <1>3, <2>1, AnalysisProceeds
<1>4. CASE job.generation # generation
  <2>1. analysis' = IdleAnalysis
    BY <1>4 DEF Analyze
  <2>2. QED
    BY <1>1, <2>1, AnalysisProceeds
<1>5. QED
  BY <1>3, <1>4

LEMMA AnalysisKeeps ==
  ASSUME IInv,
         \/ \E job \in jobs : StartAnalysis(job)
         \/ RetryAnalysis \/ ReadReference \/ FindNoPoints \/ RecordBaseline
         \/ RecordAnalysisFailure
         \/ \E state \in {"good", "bad"} : RecordResult(state)
         \/ LoseAnalyses
  PROVE  IInv'
<1>1. /\ Typed /\ SameGeneration /\ generation \in Nat /\ jobs \subseteq Job
      /\ analysis \in AnalysisState
      /\ IdleAnalysis \in AnalysisState /\ IdleAnalysis.step = "idle"
  BY DEF IInv, Typed, Generations, AnalysisState, IdleAnalysis
<1>2. analysis.step # "idle" =>
        /\ analysis.job \in Job /\ analysis.job.chunk \in Chunks
        /\ analysis.job.generation \in Nat
  BY <1>1 DEF AnalysisState, Job, Generations
<1>3. analysis.step = "judging" =>
        analysis.reference \in Nat /\ analysis.reference \in Generations
  BY <1>1 DEF AnalysisState, Generations
<1>4. Backend = "postgres" => JudgedByNoOlder /\ PublishedForActiveGeneration
  BY DEF IInv, OnPostgres
<1>5. ASSUME NEW job \in jobs, StartAnalysis(job)
      PROVE  IInv'
  BY <1>1, <1>5, AnalyzeKeeps DEF StartAnalysis
<1>6. CASE RetryAnalysis
  BY <1>1, <1>2, <1>6, AnalyzeKeeps DEF RetryAnalysis
<1>7. CASE ReadReference
  <2>1. /\ analysis.step = "active" /\ UNCHANGED <<data, ecdf, holder, publisher, jobs>>
        /\ analysis \in [step : {"active", "baseline"}, job : Job]
    BY <1>1, <1>7 DEF ReadReference, AnalysisState
  <2>2. CASE ecdf = <<>>
    <3> DEFINE next == [analysis EXCEPT !.step = "baseline"]
    <3>1. next \in AnalysisState /\ next.step = "baseline" /\ next.job = analysis.job
      BY <2>1 DEF AnalysisState
    <3>2. analysis' = next
      BY <1>7, <2>2 DEF ReadReference
    <3> HIDE DEF next
    <3>3. QED
      BY <1>4, <2>1, <3>1, <3>2, AnalysisProceeds DEF JudgedByNoOlder
  <2>3. CASE ecdf # <<>>
    <3> DEFINE reference == ecdf[Len(ecdf)].generation
               next == [step |-> "judging", job |-> analysis.job, reference |-> reference]
    <3>1. ecdf \in Seq(Version) /\ Len(ecdf) \in DOMAIN ecdf /\ ecdf[Len(ecdf)] \in Version
      BY <1>1, <2>3 DEF Typed
    <3>2. reference \in Generations
      BY <3>1 DEF Version
    <3>3. Backend = "postgres" => reference = generation /\ analysis.job.generation <= generation
      BY <1>4, <2>1, <3>1 DEF PublishedForActiveGeneration, JudgedByNoOlder
    <3> HIDE DEF reference
    <3>4. /\ next \in AnalysisState /\ next.step = "judging" /\ next.job = analysis.job
          /\ next.reference = reference
      BY <1>2, <2>1, <3>2 DEF AnalysisState
    <3>5. analysis' = next
      BY <1>7, <2>3 DEF ReadReference, reference
    <3> HIDE DEF next
    <3>6. QED
      BY <1>1, <2>1, <3>3, <3>4, <3>5, AnalysisProceeds
  <2>4. QED
    BY <2>2, <2>3
<1>8. CASE FindNoPoints
  <2> DEFINE next == [step |-> "baseline", job |-> analysis.job]
  <2>1. next \in AnalysisState /\ next.step = "baseline" /\ next.job = analysis.job
    BY <1>2, <1>8 DEF FindNoPoints, AnalysisState
  <2>2. analysis' = next /\ UNCHANGED <<data, ecdf, holder, publisher, jobs>>
    BY <1>8 DEF FindNoPoints
  <2> HIDE DEF next
  <2>3. Backend = "postgres" => analysis.job.generation <= generation
    BY <1>1, <1>2, <1>3, <1>4, <1>8 DEF FindNoPoints, JudgedByNoOlder
  <2>4. QED
    BY <2>1, <2>2, <2>3, AnalysisProceeds
<1>9. CASE RecordBaseline
  <2> DEFINE t == analysis.job.chunk
  <2>1. /\ t \in Chunks /\ analysis' = IdleAnalysis
        /\ verdict' = [verdict EXCEPT ![t].state = "baseline", ![t].judge = 0]
        /\ UNCHANGED <<generation, chunk, ecdf, holder, publisher, jobs>>
    BY <1>2, <1>9 DEF RecordBaseline, Upsert
  <2> HIDE DEF t
  <2>2. 0 \in 0..MaxGeneration
    BY NumbersAssumption
  <2>3. QED
    BY <2>1, <2>2, VerdictKeeps
<1>10. CASE RecordAnalysisFailure
  <2> DEFINE t == analysis.job.chunk
  <2>1. /\ t \in Chunks /\ analysis' = IdleAnalysis
        /\ verdict' = [verdict EXCEPT ![t].state = "failed", ![t].judge = 0]
        /\ UNCHANGED <<generation, chunk, ecdf, holder, publisher, jobs>>
    BY <1>2, <1>10 DEF RecordAnalysisFailure, Upsert
  <2> HIDE DEF t
  <2>2. 0 \in 0..MaxGeneration
    BY NumbersAssumption
  <2>3. QED
    BY <2>1, <2>2, VerdictKeeps
<1>11. ASSUME NEW state \in {"good", "bad"}, RecordResult(state)
       PROVE  IInv'
  <2> DEFINE job == analysis.job
             judge == IF job.historical THEN analysis.reference ELSE 0
  <2>1. /\ analysis.step = "judging" /\ analysis' = IdleAnalysis
        /\ UNCHANGED <<generation, chunk, ecdf, holder, publisher, jobs>>
        /\ job.chunk \in Chunks
    BY <1>2, <1>11 DEF RecordResult
  <2>2. judge \in 0..MaxGeneration
    BY <1>3, <2>1, NumbersAssumption DEF Generations
  <2>3. CASE Writable(job)
    <3>1. verdict' = [verdict EXCEPT ![job.chunk].state = state, ![job.chunk].judge = judge]
      BY <1>11, <2>3 DEF RecordResult
    <3>2. (Backend = "postgres" /\ judge # 0) =>
             verdict[job.chunk].generation <= judge /\ judge <= generation
      BY <1>4, <2>1, <2>3 DEF Writable, JudgedByNoOlder
    <3> HIDE DEF job, judge
    <3>3. QED
      BY <2>1, <2>2, <3>1, <3>2, VerdictKeeps
  <2>4. CASE ~Writable(job)
    <3>1. verdict' = verdict /\ occurrences' = occurrences
      BY <1>11, <2>4 DEF RecordResult, Writable
    <3>2. QED
      BY <1>1, <2>1, <3>1, AnalysisProceeds DEF data
  <2>5. QED
    BY <2>3, <2>4
<1>12. CASE LoseAnalyses
  BY <1>1, <1>12, AnalysisProceeds DEF LoseAnalyses
<1>13. QED
  BY <1>5, <1>6, <1>7, <1>8, <1>9, <1>10, <1>11, <1>12

----------------------------------------------------------------------------
(* The theorems. *)

LEMMA InitEstablishes == Init => IInv
<1> SUFFICES ASSUME Init PROVE IInv
  OBVIOUS
<1>1. /\ PendingIn(0) \in Verdict /\ PendingIn(0).generation = 0 /\ PendingIn(0).judge = 0
  BY NumbersAssumption DEF PendingIn, Verdict
<1>2. /\ IdlePublisher \in PublisherState /\ IdlePublisher.step = "idle"
      /\ IdleAnalysis \in AnalysisState /\ IdleAnalysis.step = "idle"
  BY DEF IdlePublisher, PublisherState, IdleAnalysis, AnalysisState
<1>3. Typed
  <2>1. <<>> \in Seq(Version) /\ Len(<<>>) <= Retained
    BY NumbersAssumption
  <2>2. 1 \in Generations /\ 0 \in 0..MaxGeneration
    BY NumbersAssumption DEF Generations
  <2> HIDE DEF PendingIn
  <2>3. QED
    BY <1>1, <1>2, <2>1, <2>2, NobodyAssumption DEF Init, Typed, Locked
<1>4. SameGeneration /\ OneVersionPerInterval /\ PublishedForActiveGeneration
  BY <1>1 DEF Init, SameGeneration, OneVersionPerInterval, PublishedForActiveGeneration
<1>5. LockProtects /\ JudgedByNoOlder
  BY <1>1, <1>2 DEF Init, LockProtects, Locked, JudgedByNoOlder
<1>6. QED
  BY <1>3, <1>4, <1>5 DEF IInv, OnPostgres

LEMMA StepKeeps == IInv /\ [Next]_vars => IInv'
<1> SUFFICES ASSUME IInv, [Next]_vars PROVE IInv'
  OBVIOUS
<1>1. CASE UNCHANGED vars
  <2>1. /\ UNCHANGED <<generation, chunk, verdict, ecdf, holder, publisher, jobs, analysis>>
    BY <1>1 DEF vars, data
  <2>2. QED
    BY <2>1 DEF IInv, Typed, Locked, SameGeneration, OneVersionPerInterval, OnPostgres,
                LockProtects, At, IsPublished, PublishedForActiveGeneration, JudgedByNoOlder
<1>2. CASE ChangeGeneration
  BY <1>2, ChangeKeeps
<1>3. ASSUME NEW t \in Chunks, NEW g \in InUse, NEW historical \in BOOLEAN,
             WriteChunk(t, g, historical)
      PROVE  IInv'
  BY <1>3, WriteChunkKeeps
<1>4. ASSUME NEW t \in Chunks, NEW accept \in BOOLEAN, Review(t, accept)
      PROVE  IInv'
  BY <1>4, ReviewKeeps
<1>5. ASSUME NEW p \in Publishers,
             \/ \E interval \in Intervals : ReadService(p, interval)
             \/ MeasureReadiness(p) \/ OpenPublication(p) \/ RereadService(p)
             \/ BuildJointECDF(p) \/ Publish(p) \/ FailPublication(p)
      PROVE  IInv'
  BY <1>5, StepsOfPublicationKeep, PublishKeeps
<1>6. CASE \/ \E job \in jobs : StartAnalysis(job)
           \/ RetryAnalysis \/ ReadReference \/ FindNoPoints \/ RecordBaseline
           \/ RecordAnalysisFailure
           \/ \E state \in {"good", "bad"} : RecordResult(state)
           \/ LoseAnalyses
  BY <1>6, AnalysisKeeps
<1>7. QED
  BY <1>1, <1>2, <1>3, <1>4, <1>5, <1>6 DEF Next

\* What the lock, the second checks and the generations in the rows keep, for
\* any publishers, chunks and analyses that interleave with changes of the
\* service.
THEOREM PublicationInvariant == Spec => []IInv
<1>1. QED
  BY InitEstablishes, StepKeeps, PTL DEF Spec

\* Occurrences are those of chunks.
LEMMA OccurrencesOfChunks ==
  ASSUME IInv, occurrences \subseteq Chunks, [Next]_vars
  PROVE  occurrences' \subseteq Chunks
<1>1. ASSUME NEW state \in {"good", "bad"}, RecordResult(state)
      PROVE  occurrences' \subseteq Chunks
  <2>1. analysis.step = "judging" /\ analysis \in AnalysisState
    BY <1>1 DEF RecordResult, IInv, Typed
  <2>2. analysis.job.chunk \in Chunks
    BY <2>1 DEF AnalysisState, Job
  <2> QED BY <1>1, <2>2 DEF RecordResult
<1>2. CASE ~\E state \in {"good", "bad"} : RecordResult(state)
  BY <1>2 DEF Next, vars, data, ChangeGeneration, WriteChunk, Review, ReadService,
     MeasureReadiness, OpenPublication, RereadService, BuildJointECDF, Publish,
     FailPublication, StartAnalysis, RetryAnalysis, ReadReference, FindNoPoints,
     RecordBaseline, RecordAnalysisFailure, LoseAnalyses
<1> QED BY <1>1, <1>2

\* The tables, the lock and the publications are well formed; no more versions
\* are kept than Retained (joint_database.go, Publish).
THEOREM PublicationTypeCorrect == Spec => []TypeOK
<1>a. Init => occurrences \subseteq Chunks
  BY DEF Init
<1>b. IInv /\ occurrences \subseteq Chunks /\ [Next]_vars => (occurrences \subseteq Chunks)'
  BY OccurrencesOfChunks
<1>1. IInv /\ occurrences \subseteq Chunks => TypeOK
  <2> SUFFICES ASSUME IInv, occurrences \subseteq Chunks PROVE TypeOK
    OBVIOUS
  <2>1. ASSUME NEW p \in Publishers
        PROVE  /\ publisher[p].step \in {"idle", "read", "ready", "open", "building", "built"}
               /\ holder = p => ~At(p, "idle")
    BY DEF IInv, Typed, PublisherState, Locked, At
  <2>2. analysis.step \in {"idle", "active", "baseline", "judging"}
    BY DEF IInv, Typed, AnalysisState
  <2>3. QED
    BY <2>1, <2>2 DEF IInv, Typed, TypeOK
<1>2. QED
  BY <1>a, <1>b, <1>1, PublicationInvariant, PTL DEF Spec

\* Hourly builds and builds after imports publish an interval once, on either
\* backend: under the lock, or because the transaction looks again.
THEOREM EachIntervalOnce == Spec => []OneVersionPerInterval
<1>1. IInv => OneVersionPerInterval
  BY DEF IInv
<1>2. QED
  BY <1>1, PublicationInvariant, PTL

\* The chunks counted for readiness are those the body is built from, whatever
\* late collectors and late analyses write, because each row of a Verdict has
\* the generation of its chunk (WriteChunk, CountEligibleChunks, ScanGoodChunks).
THEOREM ReadyFromWhatIsBuilt == Spec => []ReadinessCountsWhatIsBuilt
<1>1. IInv => ReadinessCountsWhatIsBuilt
  <2>1. ASSUME SameGeneration, NEW g \in Generations
        PROVE  {t \in Chunks : verdict[t].generation = g /\ Eligible(t)} = GoodChunks(g)
    BY <2>1 DEF SameGeneration, GoodChunks
  <2>2. QED
    BY <2>1 DEF IInv, ReadinessCountsWhatIsBuilt, EligibleCount
<1>2. QED
  BY <1>1, PublicationInvariant, PTL

\* On PostgreSQL a reference of an earlier generation never survives a change,
\* and none is published after it.
THEOREM NoStaleReference ==
  ASSUME Backend = "postgres"
  PROVE  Spec => []PublishedForActiveGeneration
<1>1. IInv => PublishedForActiveGeneration
  BY DEF IInv, OnPostgres
<1>2. QED
  BY <1>1, PublicationInvariant, PTL

\* On PostgreSQL a historical analysis that outlived a change leaves the chunks
\* of the new generation to the references of the new one.
THEOREM HistoryKeepsGeneration ==
  ASSUME Backend = "postgres"
  PROVE  Spec => []HistoricalVerdictsKeepGeneration
<1>1. IInv => HistoricalVerdictsKeepGeneration
  <2> SUFFICES ASSUME IInv, NEW t \in Chunks, verdict[t].judge # 0,
                      verdict[t].generation = generation
               PROVE  verdict[t].judge = generation
    BY DEF HistoricalVerdictsKeepGeneration
  <2>1. verdict[t].judge \in Nat /\ generation \in Nat
    BY NumbersAssumption DEF IInv, Typed, Verdict, Generations
  <2>2. generation <= verdict[t].judge /\ verdict[t].judge <= generation
    BY DEF IInv, OnPostgres, JudgedByNoOlder
  <2>3. QED
    BY <2>1, <2>2
<1>2. QED
  BY <1>1, PublicationInvariant, PTL

----------------------------------------------------------------------------
(* Refinement: on PostgreSQL publications and changes are single events. *)

\* The versions hold Retained at most, so one version makes room for one.
LEMMA OldestMakesRoom ==
  ASSUME NEW versions \in Seq(Version), Len(versions) <= Retained, NEW version \in Version
  PROVE  Newest(Append(versions, version)) =
           IF Len(versions) = Retained THEN Tail(Append(versions, version))
                                       ELSE Append(versions, version)
<1> DEFINE all == Append(versions, version)
<1>1. /\ all \in Seq(Version) /\ Len(all) = Len(versions) + 1
      /\ Len(versions) \in Nat /\ Retained \in Nat
  BY NumbersAssumption
<1> HIDE DEF all
<1>2. CASE Len(versions) = Retained
  <2>1. Newest(all) = SubSeq(all, 2, Len(all))
    BY <1>1, <1>2 DEF Newest
  <2>2. SubSeq(all, 2, Len(all)) = Tail(all)
    BY <1>1, <1>2
  <2> QED
    BY <1>2, <2>1, <2>2 DEF all
<1>3. CASE Len(versions) # Retained
  <2>1. Newest(all) = SubSeq(all, 1, Len(all))
    <3>1. ~(Len(all) > Retained)
      BY <1>1, <1>3
    <3> QED
      BY <3>1 DEF Newest
  <2>2. SubSeq(all, 1, Len(all)) = all
    BY <1>1
  <2> QED
    BY <1>3, <2>1, <2>2 DEF all
<1> QED
  BY <1>2, <1>3

\* The lock has kept what the publication found at its checks: the interval is
\* not among the versions and the generation is in force.
LEMMA PublishIsOneEvent ==
  ASSUME Backend = "postgres", IInv, NEW p \in Publishers, Publish(p)
  PROVE  \E interval \in Intervals : Published!Publish(interval)
<1> DEFINE interval == publisher[p].interval
           version == [interval |-> interval, generation |-> publisher[p].generation]
<1>1. At(p, "built") /\ ~At(p, "idle") /\ Locked(p) /\ Typed
  BY DEF IInv, Publish, At, Locked
<1>2. interval \in Intervals /\ version \in Version
  BY <1>1, PublisherRecords DEF Version
<1>3. ~IsPublished(interval) /\ publisher[p].generation = generation
  BY <1>1 DEF IInv, OnPostgres, LockProtects, At
<1>4. ecdf' = Newest(Append(ecdf, version)) /\ generation' = generation
  BY DEF Publish, data
<1>5. \A v \in DOMAIN ecdf : ecdf[v].interval # interval
  BY <1>3 DEF IsPublished
<1>6. version = [interval |-> interval, generation |-> generation]
  BY <1>3
<1> HIDE DEF version, interval
<1>7. ecdf' = IF Len(ecdf) = Retained THEN Tail(Append(ecdf, version)) ELSE Append(ecdf, version)
  BY <1>1, <1>2, <1>4, OldestMakesRoom DEF Typed
<1>8. Published!Publish(interval)
  BY <1>4, <1>5, <1>6, <1>7 DEF Published!Publish
<1> QED
  BY <1>2, <1>8

LEMMA StepIsOneEvent ==
  ASSUME Backend = "postgres", IInv, [Next]_vars
  PROVE  [Published!Next]_<<generation, ecdf>>
<1>1. CASE ChangeGeneration
  BY <1>1 DEF ChangeGeneration, Published!Next, Published!Supersede
<1>2. ASSUME NEW p \in Publishers, Publish(p)
      PROVE  Published!Next
  BY <1>2, PublishIsOneEvent DEF Published!Next
<1>3. ASSUME NEW p \in Publishers,
             \/ \E interval \in Intervals : ReadService(p, interval)
             \/ MeasureReadiness(p) \/ OpenPublication(p) \/ RereadService(p)
             \/ BuildJointECDF(p) \/ FailPublication(p)
      PROVE  UNCHANGED <<generation, ecdf>>
  BY <1>3 DEF ReadService, MeasureReadiness, OpenPublication, RereadService,
              BuildJointECDF, FailPublication, data
<1>4. CASE \/ \E t \in Chunks, g \in InUse, historical \in BOOLEAN : WriteChunk(t, g, historical)
           \/ \E t \in Chunks, accept \in BOOLEAN : Review(t, accept)
  BY <1>4 DEF WriteChunk, Review
<1>5. CASE \/ \E job \in jobs : StartAnalysis(job)
           \/ RetryAnalysis \/ ReadReference \/ FindNoPoints \/ RecordBaseline
           \/ RecordAnalysisFailure
           \/ \E state \in {"good", "bad"} : RecordResult(state)
           \/ LoseAnalyses
  BY <1>5 DEF StartAnalysis, RetryAnalysis, ReadReference, FindNoPoints, RecordBaseline,
              RecordAnalysisFailure, RecordResult, LoseAnalyses, data
<1>6. CASE UNCHANGED vars
  BY <1>6 DEF vars, data
<1> QED
  BY <1>1, <1>2, <1>3, <1>4, <1>5, <1>6 DEF Next

\* On PostgreSQL the advisory lock makes a publication, which reads, builds and
\* commits in several transactions, and a change of the service single events.
THEOREM PublicationIsOneEvent ==
  ASSUME Backend = "postgres"
  PROVE  Spec => ImplementsPublishedReferences
<1>1. Init => Published!Init
  BY DEF Init, Published!Init
<1>2. IInv /\ [Next]_vars => [Published!Next]_<<generation, ecdf>>
  BY StepIsOneEvent
<1> QED
  BY <1>1, <1>2, PublicationInvariant, PTL
     DEF Spec, ImplementsPublishedReferences, Published!ReferencesSpec

=============================================================================
