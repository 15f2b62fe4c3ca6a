-------------------------- MODULE ImportJobsProofs --------------------------
(***************************************************************************)
(* Proofs about historical imports, for any number of servers and windows, *)
(* any capacity of the analysis queue and any timeout of the heartbeat.    *)
(***************************************************************************)
EXTENDS ImportJobs, TLAPS

\* The server that imports is up, has the job in memory under its own name,
\* and is ahead of the row as long as the row is its own.
Ownership ==
  Importing =>
    /\ Up(task.server)
    /\ Mine # None /\ Mine.owner = task.server /\ Mine.beat <= now
    /\ Mine.state \in Final <=> task.step = "ended"
    /\ row.owner = task.server => /\ row.beat <= Mine.beat
                                  /\ row.state \in Final => row.state = Mine.state

\* A job is in the table before it is in any memory.
RowFirst ==
  /\ \A s \in Servers : memory[s] # None => row # None
  /\ task = NoTask \/ row # None

\* The counts of the import under way: each window behind it is imported or a
\* gap, and what has been queued are the analyses of the imported ones.
Tally ==
  /\ task.step = "none" => handed = 0 /\ ~cancelled /\ ~Importing
  /\ Unfinished =>
       /\ task.imported + task.gaps + 1 = task.window
       /\ ~task.failed =>
            handed = Indicators * task.imported
                       + (IF task.step \in {"submit", "collected"} THEN task.submitted ELSE 0)
  /\ task.step \in {"submit", "collected"} => task.window <= Windows /\ ~task.failed
  /\ task.step = "submit" => task.submitted < Indicators
  /\ task.step = "collected" => task.submitted \in {0, Indicators}
  /\ task.step \in {"begin", "window"} => ~task.failed
  /\ task.step \in {"summary", "building", "build", "complete"} /\ ~task.failed =>
       task.window = Windows + 1

\* The steps after Import: what they have told the job so far, and that a job
\* that is building cannot be cancelled any more.
Ending ==
  Unfinished =>
    /\ task.step \in {"building", "build", "complete"} =>
         ~task.failed /\ Mine.imported = task.imported /\ Mine.gaps = task.gaps
    /\ task.step \in {"build", "complete"} => Mine.state = "building"
    /\ task.step = "complete" => ~cancelled

Whole(job) ==
  /\ ~cancelled
  /\ job.imported + job.gaps = Windows
  /\ handed = Indicators * job.imported
  /\ (job.state = "complete_with_gaps") = (job.gaps > 0)

WholeAtEnd(job) ==
  job # None => (job.state \in Complete => task.step = "ended" /\ Whole(job))

CompleteAtEnd == WholeAtEnd(row) /\ \A s \in Servers : WholeAtEnd(memory[s])

\* Heartbeats keep up with the clock but for the writes that were lost.
Recent ==
  /\ lost <= MaxLost
  /\ MaxLost + 1 < Timeout /\ Unfinished /\ ~cancelled =>
       /\ row.owner = task.server
       /\ now <= row.beat + lost + (IF due THEN 1 ELSE 0)

Looked ==
  /\ \A s \in Servers : phase[s] \in {"down", "loading"} => checked[s] = None
  /\ StaleImportIsInterrupted

IInv ==
  TypeOK /\ Ownership /\ RowFirst /\ Tally /\ Ending /\ CompleteAtEnd /\ Recent /\ Looked

USE ServersAssumption, NumbersAssumption, NoneAssumption, CapacityAssumption

----------------------------------------------------------------------------
(* Records. *)

LEMMA JobFields ==
  ASSUME NEW job \in Job
  PROVE  /\ job # None
         /\ job.state \in Running \cup Final
         /\ job.owner \in Servers \cup {None}
         /\ job.beat \in Nat
         /\ job.imported \in 0..Windows /\ job.gaps \in 0..Windows
  BY DEF Job

LEMMA JobStated ==
  ASSUME NEW job \in Job, NEW state \in Running \cup Final,
         NEW new, new = [job EXCEPT !.state = state]
  PROVE  /\ new \in Job
         /\ new.state = state /\ new.owner = job.owner /\ new.beat = job.beat
         /\ new.imported = job.imported /\ new.gaps = job.gaps
  BY DEF Job

Beaten(job, state, beat) == [job EXCEPT !.state = state, !.beat = beat]

LEMMA JobBeaten ==
  ASSUME NEW job \in Job, NEW state \in Running \cup Final, NEW beat \in Nat
  PROVE  /\ Beaten(job, state, beat) \in Job
         /\ Beaten(job, state, beat).state = state /\ Beaten(job, state, beat).owner = job.owner
         /\ Beaten(job, state, beat).beat = beat
         /\ Beaten(job, state, beat).imported = job.imported
         /\ Beaten(job, state, beat).gaps = job.gaps
  BY DEF Job, Beaten

LEMMA JobCounted ==
  ASSUME Mine \in Job, NEW result, result.imported \in 0..Windows, result.gaps \in 0..Windows
  PROVE  /\ Counted(result) \in Job
         /\ Counted(result).state = Mine.state /\ Counted(result).owner = Mine.owner
         /\ Counted(result).beat = Mine.beat
         /\ Counted(result).imported = result.imported /\ Counted(result).gaps = result.gaps
  BY DEF Job, Counted

LEMMA JobAlive ==
  ASSUME NEW job \in Job, NEW beat \in Nat, NEW new, new = [job EXCEPT !.beat = beat]
  PROVE  /\ new \in Job
         /\ new.state = job.state /\ new.owner = job.owner /\ new.beat = beat
         /\ new.imported = job.imported /\ new.gaps = job.gaps
  BY DEF Job

LEMMA TaskFields ==
  ASSUME NEW t \in Task
  PROVE  /\ t.server \in Servers \cup {None}
         /\ t.step \in Steps
         /\ t.window \in 1..(Windows + 1)
         /\ t.submitted \in 0..Indicators
         /\ t.imported \in 0..Windows /\ t.gaps \in 0..Windows
         /\ t.failed \in BOOLEAN
  BY DEF Task

LEMMA TaskStepped ==
  ASSUME NEW t \in Task, NEW step \in Steps, NEW new, new = [t EXCEPT !.step = step]
  PROVE  /\ new \in Task
         /\ new.server = t.server /\ new.step = step /\ new.window = t.window
         /\ new.submitted = t.submitted /\ new.imported = t.imported /\ new.gaps = t.gaps
         /\ new.failed = t.failed
  BY DEF Task

Submitted(t, step, n) == [t EXCEPT !.step = step, !.submitted = n]

LEMMA SubmittedFields ==
  ASSUME NEW t \in Task, NEW step \in Steps, NEW n \in 0..Indicators
  PROVE  /\ Submitted(t, step, n) \in Task
         /\ Submitted(t, step, n).server = t.server
         /\ Submitted(t, step, n).step = step
         /\ Submitted(t, step, n).window = t.window
         /\ Submitted(t, step, n).submitted = n
         /\ Submitted(t, step, n).imported = t.imported
         /\ Submitted(t, step, n).gaps = t.gaps
         /\ Submitted(t, step, n).failed = t.failed
  BY DEF Task, Submitted

LEMMA NoTaskIsTask == NoTask \in Task /\ NoTask.server = None /\ NoTask.step = "none"
<1>1. /\ None \in Servers \cup {None} /\ "none" \in Steps /\ 1 \in 1..(Windows + 1)
      /\ 0 \in 0..Indicators /\ 0 \in 0..Windows
  BY DEF Steps, Indicators
<1> QED BY <1>1 DEF NoTask, Task

LEMMA GoneIsTask == Gone \in Task /\ Gone.server = None /\ Gone.step = "ended"
<1>1. "ended" \in Steps
  BY DEF Steps
<1> QED BY <1>1, NoTaskIsTask, TaskStepped DEF Gone

LEMMA EndedIsTask ==
  ASSUME NEW s \in Servers, NEW new, new = [Gone EXCEPT !.server = s]
  PROVE  new \in Task /\ new.server = s /\ new.step = "ended"
  BY GoneIsTask DEF Task

----------------------------------------------------------------------------
(* Writes of the job by the server that imports. *)

LEMMA Stored ==
  ASSUME TypeOK, task.server \in Servers, NEW job \in Job, Store(job)
  PROVE  /\ memory' \in [Servers -> Job \cup {None}]
         /\ \A s \in Servers : memory'[s] = IF s = task.server THEN job ELSE memory[s]
         /\ row' \in Job \cup {None} /\ lost' \in Nat
         /\ \/ row # None /\ row.owner = job.owner /\ row' = job /\ lost' = lost
            \/ (row = None \/ row.owner # job.owner) /\ row' = row /\ lost' = lost
            \/ row' = row /\ lost < MaxLost /\ lost' = lost + 1
<1>1. row \in Job \cup {None} /\ lost \in Nat /\ memory \in [Servers -> Job \cup {None}]
  BY DEF TypeOK
<1>2. memory' = [memory EXCEPT ![task.server] = job]
  BY DEF Store
<1>3. \/ row' = (IF OwnedBy(job) THEN job ELSE row) /\ lost' = lost
      \/ lost < MaxLost /\ lost' = lost + 1 /\ row' = row
  BY DEF Store
<1>4. \/ row # None /\ row.owner = job.owner /\ row' = job /\ lost' = lost
      \/ (row = None \/ row.owner # job.owner) /\ row' = row /\ lost' = lost
      \/ row' = row /\ lost < MaxLost /\ lost' = lost + 1
  BY <1>3 DEF OwnedBy
<1>5. row' \in Job \cup {None} /\ lost' \in Nat
  BY <1>1, <1>4
<1> QED BY <1>1, <1>2, <1>4, <1>5

\* The age of the last heartbeat in the table, after a write.
LEMMA Overdue ==
  ASSUME NEW n \in Nat, NEW b \in Nat, NEW b2 \in Nat, NEW l \in Nat, NEW l2 \in Nat,
         NEW d, n <= b + l + (IF d THEN 1 ELSE 0),
         (b <= b2 /\ l2 = l) \/ (b2 = b /\ l2 = l + 1)
  PROVE  /\ n <= b2 + l2 + (IF d THEN 1 ELSE 0)
         /\ l2 = l + 1 => n <= b2 + l2
  OBVIOUS

\* What a write of the job has to satisfy to keep the invariant.
LEMMA StoreKeeps ==
  ASSUME IInv, Importing, task' \in Task, task'.server = task.server,
         NEW job \in Job, Store(job),
         UNCHANGED <<now, phase, cancelled, checked, handed>>,
         due' \in BOOLEAN, due' = due \/ (~due' /\ job.beat = now),
         job.owner = task.server, Mine.beat <= job.beat, job.beat <= now,
         job.state \in Final <=> task'.step = "ended",
         task.step = "ended" => task'.step = "ended" /\ job.state = Mine.state,
         job.state \in Complete => Whole(job)
  PROVE  /\ TypeOK' \/ ~QueueTypeOK'
         /\ Ownership' /\ RowFirst' /\ CompleteAtEnd' /\ Recent' /\ Looked' /\ Mine' = job
<1>1. task.server \in Servers /\ task.server # None
  BY TaskFields DEF IInv, TypeOK, Importing
<1>2. /\ memory' \in [Servers -> Job \cup {None}]
      /\ \A s \in Servers : memory'[s] = IF s = task.server THEN job ELSE memory[s]
      /\ row' \in Job \cup {None} /\ lost' \in Nat
      /\ \/ row # None /\ row.owner = job.owner /\ row' = job /\ lost' = lost
         \/ (row = None \/ row.owner # job.owner) /\ row' = row /\ lost' = lost
         \/ row' = row /\ lost < MaxLost /\ lost' = lost + 1
  BY <1>1, Stored DEF IInv
<1>3. /\ Up(task.server) /\ Mine # None /\ Mine.owner = task.server /\ Mine.beat <= now
      /\ Mine.state \in Final <=> task.step = "ended"
      /\ row.owner = task.server => row.beat <= Mine.beat /\ (row.state \in Final => row.state = Mine.state)
  BY DEF IInv, Ownership
<1>4. row # None /\ row \in Job /\ Mine \in Job
  BY <1>1, <1>3, NoTaskIsTask DEF IInv, RowFirst, TypeOK, Importing, Mine
<1>5. job # None /\ job.state \in Running \cup Final /\ job.beat \in Nat /\ now \in Nat
  BY JobFields DEF IInv, TypeOK
<1>6. /\ row.beat \in Nat /\ Mine.beat \in Nat /\ row.state \in Running \cup Final
      /\ row.owner \in Servers \cup {None}
  BY <1>4, JobFields
<1>7. TypeOK' \/ ~QueueTypeOK'
  BY <1>2 DEF IInv, TypeOK
<1>8. row' # None /\ row' \in Job
  BY <1>2, <1>4, <1>5
<1>9. row'.owner = task.server =>
        /\ row.owner = task.server
        /\ row'.beat <= job.beat /\ row.beat <= row'.beat
        /\ row'.state \in Final => row'.state = job.state
        /\ row.state \in Final => row'.state = row.state
  <2>1. CASE row # None /\ row.owner = job.owner /\ row' = job /\ lost' = lost
    <3>1. row.state \in Final => job.state = row.state
      BY <2>1, <1>3
    <3> QED BY <2>1, <3>1, <1>3, <1>5, <1>6
  <2>2. CASE row' = row
    <3>1. row.owner = task.server => (row.state \in Final => row.state = job.state)
      BY <1>3
    <3> QED BY <2>2, <3>1, <1>3, <1>5, <1>6
  <2> QED BY <1>2, <2>1, <2>2
<1>10. Mine' = job
  BY <1>1, <1>2 DEF Mine
<1>11. Ownership'
  <2>1. Mine' = job
    BY <1>10
  <2>2. Up(task.server)'
    BY <1>3 DEF Up
  <2>3. /\ Mine' # None /\ Mine'.owner = task'.server /\ Mine'.beat <= now'
        /\ Mine'.state \in Final <=> task'.step = "ended"
    <3>1. now' = now
      OBVIOUS
    <3>2. Mine' # None /\ Mine'.owner = task'.server
      BY <1>5, <2>1
    <3>4. Mine'.beat <= now'
      BY <2>1, <3>1
    <3>3. Mine'.state \in Final <=> task'.step = "ended"
      BY <2>1
    <3> QED BY <3>2, <3>3, <3>4
  <2>4. row'.owner = task'.server =>
          row'.beat <= Mine'.beat /\ (row'.state \in Final => row'.state = Mine'.state)
    BY <1>9, <2>1, Zenon
  <2> QED BY <2>2, <2>3, <2>4 DEF Ownership
<1>12. RowFirst'
  <2>1. \A s \in Servers : memory'[s] # None => row' # None
    BY <1>8
  <2> QED BY <1>8, <2>1 DEF RowFirst
<1>13. CompleteAtEnd'
  <2>1. WholeAtEnd(job)'
    <3>1. job.state \in Complete => task'.step = "ended"
      BY DEF Final
    <3> QED BY <3>1 DEF WholeAtEnd, Whole
  <2>2. ASSUME WholeAtEnd(row), row' = row
        PROVE  WholeAtEnd(row)'
    BY <2>2 DEF WholeAtEnd, Whole
  <2>3. WholeAtEnd(row)'
    <3>1. CASE row' = job
      BY <2>1, <3>1 DEF WholeAtEnd, Whole
    <3>2. CASE row' = row
      BY <2>2, <3>2 DEF IInv, CompleteAtEnd
    <3> QED BY <1>2, <3>1, <3>2
  <2>4. ASSUME NEW s \in Servers
        PROVE  WholeAtEnd(memory[s])'
    <3>1. CASE s = task.server
      <4>1. memory'[s] = job
        BY <1>2, <3>1
      <4> QED BY <2>1, <4>1 DEF WholeAtEnd, Whole
    <3>2. CASE s # task.server
      <4>1. memory'[s] = memory[s] /\ WholeAtEnd(memory[s])
        BY <1>2, <3>2 DEF IInv, CompleteAtEnd
      <4> QED BY <4>1 DEF WholeAtEnd, Whole
    <3> QED BY <3>1, <3>2
  <2> QED BY <2>3, <2>4 DEF CompleteAtEnd
<1>14. Recent'
  <2>1. lost <= MaxLost /\ lost \in Nat
    BY DEF IInv, Recent, TypeOK
  <2>2. lost' <= MaxLost
    BY <1>2, <2>1
  <2>3. ASSUME MaxLost + 1 < Timeout, Unfinished', ~cancelled'
        PROVE  row'.owner = task'.server /\ now' <= row'.beat + lost' + (IF due' THEN 1 ELSE 0)
    <3>1. Unfinished /\ ~cancelled
      BY <2>3 DEF Unfinished, Importing
    <3>2. row.owner = task.server /\ now <= row.beat + lost + (IF due THEN 1 ELSE 0)
      BY <2>3, <3>1 DEF IInv, Recent
    <3>3. row'.owner = task'.server
      BY <1>2, <3>2
    <3>4. PICK b \in Nat : b = row.beat
      BY <1>6
    <3>5. PICK b2 \in Nat : b2 = row'.beat
      BY <1>8, JobFields
    <3>6. \/ row' = job /\ b <= b2 /\ lost' = lost /\ b2 = job.beat
          \/ b2 = b /\ lost' = lost + 1
      <4>1. CASE row' = job /\ lost' = lost
        BY <1>3, <1>5, <1>6, <3>2, <3>4, <3>5, <4>1
      <4>2. CASE row' = row /\ lost' = lost + 1
        BY <3>4, <3>5, <4>2
      <4>3. (row' = job /\ lost' = lost) \/ (row' = row /\ lost' = lost + 1)
        BY <1>2, <1>4, <3>2, Zenon
      <4> QED BY <4>1, <4>2, <4>3, Zenon
    <3>7. now' = now /\ now \in Nat /\ lost \in Nat /\ lost' \in Nat
      BY <1>2, <1>5, <2>1
    <3>8. now <= b + lost + (IF due THEN 1 ELSE 0)
      BY <3>2, <3>4
    <3>9. CASE due' = due
      <4>1. now <= b2 + lost' + (IF due THEN 1 ELSE 0)
        BY <3>6, <3>7, <3>8, Overdue
      <4> QED BY <3>3, <3>5, <3>7, <3>9, <4>1
    <3>10. CASE ~due' /\ job.beat = now
      <4>1. lost' = lost + 1 => now <= b2 + lost'
        BY <3>6, <3>7, <3>8, Overdue
      <4>2. row' = job => now <= b2 + lost'
        BY <3>5, <3>7, <3>10
      <4>3. now <= b2 + lost'
        BY <3>6, <4>1, <4>2, Zenon
      <4> QED BY <3>3, <3>5, <3>7, <3>10, <4>3
    <3> QED BY <3>9, <3>10
  <2> QED BY <2>2, <2>3 DEF Recent
<1>15. Looked'
  <2>1. ASSUME NEW s \in Servers, phase[s] \in {"down", "loading"}
        PROVE  checked'[s] = None
    BY <2>1 DEF IInv, Looked
  <2>2. ASSUME NEW s \in Servers, Up(s)', checked'[s] # None, memory'[s] # None,
               memory'[s].state \in Running, memory'[s].owner # s
        PROVE  row'.state \in Final \/ row'.beat + Timeout >= checked'[s]
    <3>1. memory'[s] = memory[s]
      BY <1>2, <2>2
    <3>2. row.state \in Final \/ row.beat + Timeout >= checked[s]
      BY <2>2, <3>1 DEF IInv, Looked, StaleImportIsInterrupted, Up
    <3>3. (row.state \in Final => row'.state \in Final)
      <4>1. CASE row' = job /\ row.owner = job.owner
        <5>1. row'.owner = task.server
          BY <4>1
        <5> QED BY <1>9, <5>1, Zenon
      <4>2. CASE row' = row
        BY <4>2
      <4> QED BY <1>2, <4>1, <4>2
    <3>4. row.beat <= row'.beat /\ row'.beat \in Nat
      <4>1. CASE row' = job /\ row.owner = job.owner
        <5>1. row'.owner = task.server /\ row'.beat \in Nat
          BY <1>5, <4>1
        <5> QED BY <1>9, <5>1, Zenon
      <4>2. CASE row' = row
        BY <1>6, <4>2
      <4> QED BY <1>2, <4>1, <4>2
    <3>5. checked' = checked /\ checked[s] \in Nat
      BY <2>2 DEF IInv, TypeOK
    <3>6. PICK b \in Nat, b2 \in Nat, c \in Nat :
            b = row.beat /\ b2 = row'.beat /\ c = checked[s]
      BY <1>6, <3>4, <3>5
    <3>7. CASE row.state \in Final
      BY <3>3, <3>7
    <3>8. CASE row.beat + Timeout >= checked[s]
      <4>1. b + Timeout >= c /\ b <= b2
        BY <3>4, <3>6, <3>8
      <4>2. b2 + Timeout >= c
        BY <4>1
      <4> QED BY <3>5, <3>6, <4>2
    <3> QED BY <3>2, <3>7, <3>8
  <2> QED BY <2>1, <2>2 DEF Looked, StaleImportIsInterrupted
<1> QED BY <1>7, <1>10, <1>11, <1>12, <1>13, <1>14, <1>15

----------------------------------------------------------------------------
(* Steps of the import that do not write the job. *)

LEMMA QuietKeeps ==
  ASSUME IInv, Unfinished, Quiet, task' \in Task, task'.server = task.server,
         task'.step # "ended", handed' \in Nat, QueueTypeOK'
  PROVE  TypeOK' /\ Ownership' /\ RowFirst' /\ CompleteAtEnd' /\ Recent' /\ Looked'
<1> USE DEF Quiet
<1>1. task # NoTask /\ task'.server # None /\ row # None
  BY NoTaskIsTask DEF IInv, RowFirst, Unfinished, Importing
<1>2. TypeOK'
  BY DEF IInv, TypeOK
<1>3. Ownership'
  <2>1. Importing /\ Mine' = Mine
    BY DEF Unfinished, Mine
  <2>2. /\ Up(task.server) /\ Mine # None /\ Mine.owner = task.server /\ Mine.beat <= now
        /\ Mine.state \notin Final
        /\ row.owner = task.server => row.beat <= Mine.beat /\ (row.state \in Final => row.state = Mine.state)
    BY <2>1 DEF IInv, Ownership, Unfinished
  <2> QED BY <2>1, <2>2 DEF Ownership, Up
<1>4. RowFirst'
  BY <1>1 DEF IInv, RowFirst
<1>5. CompleteAtEnd'
  <2>1. ASSUME NEW job, WholeAtEnd(job)
        PROVE  job # None => job.state \notin Complete
    BY <2>1 DEF WholeAtEnd, Unfinished
  <2>2. row # None => row.state \notin Complete
    BY <2>1 DEF IInv, CompleteAtEnd
  <2>3. \A s \in Servers : memory[s] # None => memory[s].state \notin Complete
    BY <2>1 DEF IInv, CompleteAtEnd
  <2> QED BY <2>2, <2>3 DEF CompleteAtEnd, WholeAtEnd
<1>6. Recent'
  BY DEF IInv, Recent, Unfinished, Importing
<1>7. Looked'
  BY DEF IInv, Looked, StaleImportIsInterrupted, Up
<1> QED BY <1>2, <1>3, <1>4, <1>5, <1>6, <1>7

\* What is known of a task that is at a step, the step itself aside.
LEMMA AtStep ==
  ASSUME IInv, NEW step, At(step)
  PROVE  /\ task.step = step /\ Unfinished /\ Importing
         /\ task \in Task /\ task.server \in Servers /\ QueueTypeOK /\ handed \in Nat
         /\ Mine \in Job /\ Mine.owner = task.server /\ Mine.beat <= now /\ Mine.state \notin Final
         /\ task.imported + task.gaps + 1 = task.window
<1>1. task.step = step /\ Unfinished /\ Importing /\ task.step # "ended"
  BY DEF At, Unfinished
<1>2. task \in Task /\ task.server \in Servers /\ QueueTypeOK /\ handed \in Nat
  BY <1>1, TaskFields DEF IInv, TypeOK, Importing
<1>3. Mine # None /\ Mine.owner = task.server /\ Mine.beat <= now /\ Mine.state \notin Final
  BY <1>1 DEF IInv, Ownership
<1>4. Mine \in Job
  BY <1>2, <1>3 DEF IInv, TypeOK, Mine
<1>5. task.imported + task.gaps + 1 = task.window
  BY <1>1 DEF IInv, Tally
<1> QED BY <1>1, <1>2, <1>3, <1>4, <1>5

\* Import returns, from any of its steps.
LEMMA ReturnKeeps ==
  ASSUME IInv, NEW step \in {"window", "submit", "collected"}, At(step),
         NEW failed \in BOOLEAN, Return(failed), failed \/ (task.window > Windows /\ step = "window"),
         Quiet, handed' = handed, UNCHANGED queueVars
  PROVE  IInv'
<1>1. /\ task.step = step /\ Unfinished /\ Importing /\ task \in Task
      /\ task.imported + task.gaps + 1 = task.window /\ handed \in Nat /\ QueueTypeOK
  BY AtStep
<1>2. task' = [task EXCEPT !.step = "summary", !.failed = failed]
  BY DEF Return
<1>3. /\ task' \in Task /\ task'.server = task.server /\ task'.step = "summary"
      /\ task'.window = task.window /\ task'.imported = task.imported
      /\ task'.gaps = task.gaps /\ task'.failed = failed
  BY <1>1, <1>2 DEF Task, Steps
<1>4. QueueTypeOK'
  BY <1>1 DEF QueueTypeOK, queueVars
<1>5. TypeOK' /\ Ownership' /\ RowFirst' /\ CompleteAtEnd' /\ Recent' /\ Looked'
  BY <1>1, <1>3, <1>4, QuietKeeps
<1>6. ~failed => /\ task'.window = Windows + 1
                 /\ handed' = Indicators * task'.imported
  <2>1. ~failed => task.window = Windows + 1
    BY <1>1, TaskFields
  <2>2. ~failed => ~task.failed /\ handed = Indicators * task.imported
    BY <1>1, TaskFields DEF IInv, Tally, Indicators
  <2> QED BY <1>3, <2>1, <2>2
<1>7. Tally'
  <2>1. Unfinished' =>
          /\ task'.imported + task'.gaps + 1 = task'.window
          /\ ~task'.failed => handed' = Indicators * task'.imported + 0
    BY <1>1, <1>3, <1>6, TaskFields DEF Indicators
  <2> QED BY <1>3, <1>6, <2>1 DEF Tally
<1>8. Ending'
  BY <1>3 DEF Ending
<1> QED BY <1>5, <1>7, <1>8 DEF IInv

LEMMA QuietStep ==
  ASSUME IInv, ImportReturns \/ CollectWindow \/ SubmitContext \/ SubmitEnds \/ WindowCancelled
  PROVE  IInv'
<1>1. CASE ImportReturns
  BY <1>1, ReturnKeeps DEF ImportReturns
<1>2. CASE SubmitEnds
  <2>1. At("submit") /\ Return(TRUE) /\ Quiet /\ handed' = handed /\ UNCHANGED queueVars
    BY <1>2 DEF SubmitEnds
  <2> QED BY <2>1, ReturnKeeps
<1>3. CASE WindowCancelled
  <2>1. At("collected") /\ Return(TRUE) /\ Quiet /\ handed' = handed /\ UNCHANGED queueVars
    BY <1>3 DEF WindowCancelled
  <2> QED BY <2>1, ReturnKeeps
<1>4. CASE CollectWindow
  <2>1. CASE Return(TRUE)
    BY <1>4, <2>1, ReturnKeeps DEF CollectWindow
  <2>2. ASSUME NEW step \in {"submit", "collected"},
               task' = [task EXCEPT !.step = step, !.submitted = 0]
        PROVE  IInv'
    <3>1. /\ task.step = "window" /\ Unfinished /\ Importing /\ task \in Task
          /\ task.imported + task.gaps + 1 = task.window /\ handed \in Nat /\ QueueTypeOK
          /\ task.window <= Windows /\ Quiet /\ handed' = handed /\ UNCHANGED queueVars
      BY <1>4, AtStep DEF CollectWindow
    <3>2. /\ task' \in Task /\ task'.server = task.server /\ task'.step = step
          /\ task'.window = task.window /\ task'.imported = task.imported
          /\ task'.gaps = task.gaps /\ task'.failed = task.failed /\ task'.submitted = 0
      <4>1. step \in Steps /\ 0 \in 0..Indicators
        BY DEF Steps, Indicators
      <4>2. task' = Submitted(task, step, 0)
        BY <2>2 DEF Submitted
      <4> QED BY <3>1, <4>1, <4>2, SubmittedFields
    <3>3. QueueTypeOK'
      BY <3>1 DEF QueueTypeOK, queueVars
    <3>4. TypeOK' /\ Ownership' /\ RowFirst' /\ CompleteAtEnd' /\ Recent' /\ Looked'
      BY <3>1, <3>2, <3>3, QuietKeeps
    <3>5. ~task.failed /\ handed = Indicators * task.imported
      BY <3>1, TaskFields DEF IInv, Tally, Indicators
    <3>6. Tally'
      BY <3>1, <3>2, <3>5, TaskFields DEF Tally, Indicators
    <3>7. Ending'
      BY <3>2 DEF Ending
    <3> QED BY <3>4, <3>6, <3>7 DEF IInv
  <2> QED BY <1>4, <2>1, <2>2 DEF CollectWindow
<1>5. CASE SubmitContext
  <2>1. /\ task.step = "submit" /\ Unfinished /\ Importing /\ task \in Task
        /\ task.imported + task.gaps + 1 = task.window /\ handed \in Nat /\ QueueTypeOK
        /\ Quiet /\ handed' = handed + 1 /\ Enqueue
    BY <1>5, AtStep DEF SubmitContext
  <2>2. task.submitted \in {0, 1} /\ ~task.failed /\ task.window <= Windows
    BY <2>1, TaskFields DEF IInv, Tally, Indicators
  <2> DEFINE step == IF task.submitted + 1 = Indicators THEN "collected" ELSE "submit"
  <2>3. task' = Submitted(task, step, task.submitted + 1)
    BY <1>5 DEF SubmitContext, Submitted
  <2>4. step \in {"collected", "submit"} /\ (task.submitted = 1 => step = "collected")
        /\ (task.submitted = 0 => step = "submit")
    BY DEF Indicators
  <2>5. /\ task' \in Task /\ task'.server = task.server /\ task'.step = step
        /\ task'.window = task.window /\ task'.imported = task.imported
        /\ task'.gaps = task.gaps /\ task'.failed = task.failed
        /\ task'.submitted = task.submitted + 1
    <3>1. step \in Steps /\ task.submitted + 1 \in 0..Indicators
      BY <2>2 DEF Steps, Indicators
    <3> HIDE DEF step
    <3> QED BY <2>1, <2>3, <3>1, SubmittedFields
  <2> HIDE DEF step
  <2>6. QueueTypeOK'
    BY <2>1 DEF QueueTypeOK, Enqueue
  <2>7. TypeOK' /\ Ownership' /\ RowFirst' /\ CompleteAtEnd' /\ Recent' /\ Looked'
    BY <2>1, <2>4, <2>5, <2>6, QuietKeeps
  <2>8. handed = Indicators * task.imported + task.submitted
    BY <2>1, <2>2 DEF IInv, Tally
  <2>9. handed' = Indicators * task'.imported + task'.submitted
    BY <2>1, <2>2, <2>5, <2>8, TaskFields DEF Indicators
  <2>10. Tally'
    BY <2>1, <2>2, <2>4, <2>5, <2>9, TaskFields DEF Tally, Indicators
  <2>11. Ending'
    BY <2>4, <2>5 DEF Ending
  <2> QED BY <2>7, <2>10, <2>11 DEF IInv
<1> QED BY <1>1, <1>2, <1>3, <1>4, <1>5

----------------------------------------------------------------------------
(* Steps that write the job. *)

LEMMA WriteKeeps ==
  ASSUME IInv, NEW step, At(step), Writes, task' \in Task, task'.server = task.server,
         NEW job \in Job, Store(job), job.owner = task.server,
         Mine.beat <= job.beat, job.beat <= now,
         job.state \in Final <=> task'.step = "ended",
         job.state \in Complete => Whole(job)
  PROVE  /\ TypeOK' /\ Ownership' /\ RowFirst' /\ CompleteAtEnd' /\ Recent' /\ Looked'
         /\ Mine' = job
<1>1. Importing /\ task.step # "ended" /\ QueueTypeOK
  BY AtStep DEF Unfinished
<1>2. /\ UNCHANGED <<now, phase, cancelled, checked, handed>>
      /\ due' \in BOOLEAN /\ due' = due /\ UNCHANGED queueVars
  BY DEF Writes, IInv, TypeOK
<1>3. QueueTypeOK'
  BY <1>1, <1>2 DEF QueueTypeOK, queueVars
<1> QED BY <1>1, <1>2, <1>3, StoreKeeps

\* The import ends.
LEMMA EndKeeps ==
  ASSUME IInv, NEW step, At(step), Writes, EndTask,
         NEW state \in Final, Store([Mine EXCEPT !.state = state]),
         state \in Complete => /\ ~cancelled
                               /\ Mine.imported + Mine.gaps = Windows
                               /\ handed = Indicators * Mine.imported
                               /\ (state = "complete_with_gaps") = (Mine.gaps > 0)
  PROVE  IInv'
<1>1. /\ task.server \in Servers /\ Mine \in Job /\ Mine.owner = task.server /\ Mine.beat <= now
  BY AtStep
<1>2. PICK job : job = [Mine EXCEPT !.state = state]
  OBVIOUS
<1>3. /\ job \in Job /\ job.state = state /\ job.owner = Mine.owner /\ job.beat = Mine.beat
      /\ job.imported = Mine.imported /\ job.gaps = Mine.gaps
  BY <1>1, <1>2, JobStated
<1>4. task' \in Task /\ task'.server = task.server /\ task'.step = "ended"
  BY <1>1, EndedIsTask DEF EndTask
<1>5. job.state \in Complete => Whole(job)
  BY <1>3 DEF Whole
<1>6. Mine.beat <= job.beat /\ job.beat <= now
  BY <1>1, <1>3, JobFields
<1>7. TypeOK' /\ Ownership' /\ RowFirst' /\ CompleteAtEnd' /\ Recent' /\ Looked'
  BY <1>1, <1>2, <1>3, <1>4, <1>5, <1>6, WriteKeeps
<1>8. Tally' /\ Ending'
  BY <1>4 DEF Tally, Ending, Unfinished
<1> QED BY <1>7, <1>8 DEF IInv

LEMMA BeginKeeps ==
  ASSUME IInv, Begin
  PROVE  IInv'
<1>1. /\ At("begin") /\ Writes /\ task' = [task EXCEPT !.step = "window"]
      /\ Store(Beaten(Mine, "running", now))
  BY DEF Begin, Beaten, To
<1>2. /\ task.step = "begin" /\ Unfinished /\ task \in Task /\ task.server \in Servers
      /\ Mine \in Job /\ Mine.owner = task.server /\ Mine.beat <= now /\ now \in Nat
  BY <1>1, AtStep DEF IInv, TypeOK
<1>3. PICK job : job = Beaten(Mine, "running", now)
  OBVIOUS
<1>4. /\ job \in Job /\ job.state = "running" /\ job.owner = Mine.owner /\ job.beat = now
      /\ job.imported = Mine.imported /\ job.gaps = Mine.gaps
  <2>1. "running" \in Running \cup Final
    BY DEF Running
  <2> QED BY <1>2, <1>3, <2>1, JobBeaten
<1>5. /\ task' \in Task /\ task'.server = task.server /\ task'.step = "window"
      /\ task'.window = task.window /\ task'.imported = task.imported
      /\ task'.gaps = task.gaps /\ task'.failed = task.failed
  <2>1. "window" \in Steps
    BY DEF Steps
  <2> QED BY <1>1, <1>2, <2>1, TaskStepped
<1>6. job.state \notin Final /\ job.state \notin Complete
  BY <1>4 DEF Final, Complete
<1>7. TypeOK' /\ Ownership' /\ RowFirst' /\ CompleteAtEnd' /\ Recent' /\ Looked'
  <2>1. job.beat <= now /\ Mine.beat <= job.beat
    BY <1>2, <1>4
  <2> QED BY <1>1, <1>2, <1>3, <1>4, <1>5, <1>6, <2>1, WriteKeeps
<1>8. Tally'
  <2>1. handed' = handed /\ ~task.failed
    BY <1>1, <1>2 DEF Writes, IInv, Tally
  <2> QED BY <1>2, <1>5, <2>1 DEF IInv, Tally, Unfinished
<1>9. Ending'
  BY <1>5 DEF Ending
<1> QED BY <1>7, <1>8, <1>9 DEF IInv

LEMMA ProgressKeeps ==
  ASSUME IInv, UpdateProgress
  PROVE  IInv'
<1>1. At("collected") /\ ~cancelled /\ Writes
  BY DEF UpdateProgress
<1>2. /\ task.step = "collected" /\ Unfinished /\ task \in Task /\ task.server \in Servers
      /\ Mine \in Job /\ Mine.owner = task.server /\ Mine.beat <= now /\ Mine.state \notin Final
      /\ task.imported + task.gaps + 1 = task.window /\ handed \in Nat
  BY <1>1, AtStep
<1>3. /\ task.window <= Windows /\ ~task.failed /\ task.submitted \in {0, Indicators}
      /\ handed = Indicators * task.imported + task.submitted
  BY <1>2 DEF IInv, Tally
<1>4. /\ task' \in Task /\ task'.server = task.server /\ task'.step = "window"
      /\ task'.window = task.window + 1 /\ task'.failed = task.failed
      /\ \/ task.submitted = Indicators /\ task'.imported = task.imported + 1 /\ task'.gaps = task.gaps
         \/ task.submitted = 0 /\ task'.gaps = task.gaps + 1 /\ task'.imported = task.imported
  <2>1. PICK next : next = [task EXCEPT !.step = "window", !.window = @ + 1]
    OBVIOUS
  <2>2. /\ next \in Task /\ next.server = task.server /\ next.step = "window"
        /\ next.window = task.window + 1 /\ next.failed = task.failed
        /\ next.imported = task.imported /\ next.gaps = task.gaps
    <3>1. "window" \in Steps /\ task.window + 1 \in 1..(Windows + 1)
      BY <1>2, <1>3, TaskFields DEF Steps
    <3> QED BY <1>2, <2>1, <3>1 DEF Task
  <2>3. task' = IF task.submitted = Indicators
                  THEN [next EXCEPT !.imported = @ + 1] ELSE [next EXCEPT !.gaps = @ + 1]
    BY <2>1 DEF UpdateProgress
  <2>4. task.imported + 1 \in 0..Windows /\ task.gaps + 1 \in 0..Windows
    BY <1>2, <1>3, TaskFields
  <2>5. CASE task.submitted = Indicators
    BY <2>2, <2>3, <2>4, <2>5 DEF Task
  <2>6. CASE task.submitted = 0
    <3>1. task' = [next EXCEPT !.gaps = @ + 1]
      BY <2>3, <2>6 DEF Indicators
    <3> QED BY <2>2, <2>4, <2>6, <3>1 DEF Task
  <2> QED BY <1>3, <2>5, <2>6
<1>5. PICK job : job = Counted(task')
  OBVIOUS
<1>6. Store(job)
  BY <1>5 DEF UpdateProgress
<1>7. /\ job \in Job /\ job.state = Mine.state /\ job.owner = Mine.owner /\ job.beat = Mine.beat
  BY <1>2, <1>4, <1>5, TaskFields, JobCounted
<1>8. Mine.beat <= job.beat /\ job.beat <= now
  BY <1>2, <1>7, JobFields
<1>9. job.state \notin Final /\ job.state \notin Complete
  BY <1>2, <1>7 DEF Final
<1>10. TypeOK' /\ Ownership' /\ RowFirst' /\ CompleteAtEnd' /\ Recent' /\ Looked'
  BY <1>1, <1>2, <1>4, <1>6, <1>7, <1>8, <1>9, WriteKeeps
<1>11. Tally'
  <2>1. handed' = Indicators * task'.imported
    <3>1. handed' = handed
      BY <1>1 DEF Writes
    <3>2. task.imported \in Nat
      BY <1>2, TaskFields
    <3> QED BY <1>2, <1>3, <1>4, <3>1, <3>2 DEF Indicators
  <2>2. task'.imported + task'.gaps + 1 = task'.window
    BY <1>2, <1>4, TaskFields
  <2> QED BY <1>3, <1>4, <2>1, <2>2, TaskFields DEF Tally, Indicators
<1>12. Ending'
  BY <1>4 DEF Ending
<1> QED BY <1>10, <1>11, <1>12 DEF IInv

LEMMA SummaryKeeps ==
  ASSUME IInv, UpdateSummary
  PROVE  IInv'
<1>1. At("summary") /\ Writes /\ Store(Counted(task))
  BY DEF UpdateSummary
<1>2. /\ task.step = "summary" /\ Unfinished /\ task \in Task /\ task.server \in Servers
      /\ Mine \in Job /\ Mine.owner = task.server /\ Mine.beat <= now /\ Mine.state \notin Final
      /\ task.imported + task.gaps + 1 = task.window
  BY <1>1, AtStep
<1>3. PICK step : step = IF task.failed THEN "finish" ELSE "building"
  OBVIOUS
<1>4. step \in {"finish", "building"} /\ (step = "building" => ~task.failed)
  BY <1>3
<1>5. /\ task' \in Task /\ task'.server = task.server /\ task'.step = step
      /\ task'.window = task.window /\ task'.imported = task.imported
      /\ task'.gaps = task.gaps /\ task'.failed = task.failed
  <2>1. task' = [task EXCEPT !.step = step]
    BY <1>3 DEF UpdateSummary, To
  <2>2. step \in Steps
    BY <1>4 DEF Steps
  <2> QED BY <1>2, <2>1, <2>2, TaskStepped
<1>6. PICK job : job = Counted(task)
  OBVIOUS
<1>7. /\ job \in Job /\ job.state = Mine.state /\ job.owner = Mine.owner /\ job.beat = Mine.beat
      /\ job.imported = task.imported /\ job.gaps = task.gaps
  BY <1>2, <1>6, TaskFields, JobCounted
<1>8. Mine.beat <= job.beat /\ job.beat <= now
  BY <1>2, <1>7, JobFields
<1>9. job.state \notin Final /\ job.state \notin Complete
  BY <1>2, <1>7 DEF Final
<1>10. /\ TypeOK' /\ Ownership' /\ RowFirst' /\ CompleteAtEnd' /\ Recent' /\ Looked'
       /\ Mine' = job
  BY <1>1, <1>2, <1>4, <1>5, <1>6, <1>7, <1>8, <1>9, WriteKeeps
<1>11. Tally'
  <2>1. handed' = handed
    BY <1>1 DEF Writes
  <2>2. task.imported \in Nat
    BY <1>2, TaskFields
  <2>3. ~task.failed => task.window = Windows + 1 /\ handed = Indicators * task.imported
    BY <1>2, <2>2 DEF IInv, Tally, Indicators
  <2>4. ~task.failed => handed' = Indicators * task.imported + 0
    BY <2>1, <2>2, <2>3 DEF Indicators
  <2> QED BY <1>2, <1>4, <1>5, <2>3, <2>4 DEF Tally
<1>12. Ending'
  BY <1>4, <1>5, <1>7, <1>10 DEF Ending
<1> QED BY <1>10, <1>11, <1>12 DEF IInv

LEMMA BuildingKeeps ==
  ASSUME IInv, StartBuild
  PROVE  IInv'
<1>1. /\ At("building") /\ Writes /\ task' = [task EXCEPT !.step = "build"]
      /\ Store(Beaten(Mine, "building", now))
  BY DEF StartBuild, Beaten, To
<1>2. /\ task.step = "building" /\ Unfinished /\ task \in Task /\ task.server \in Servers
      /\ Mine \in Job /\ Mine.owner = task.server /\ Mine.beat <= now /\ now \in Nat
  BY <1>1, AtStep DEF IInv, TypeOK
<1>3. PICK job : job = Beaten(Mine, "building", now)
  OBVIOUS
<1>4. /\ job \in Job /\ job.state = "building" /\ job.owner = Mine.owner /\ job.beat = now
      /\ job.imported = Mine.imported /\ job.gaps = Mine.gaps
  <2>1. "building" \in Running \cup Final
    BY DEF Running
  <2> QED BY <1>2, <1>3, <2>1, JobBeaten
<1>5. /\ task' \in Task /\ task'.server = task.server /\ task'.step = "build"
      /\ task'.window = task.window /\ task'.imported = task.imported
      /\ task'.gaps = task.gaps /\ task'.failed = task.failed
  <2>1. "build" \in Steps
    BY DEF Steps
  <2> QED BY <1>1, <1>2, <2>1, TaskStepped
<1>6. job.state \notin Final /\ job.state \notin Complete
  BY <1>4 DEF Final, Complete
<1>7. /\ TypeOK' /\ Ownership' /\ RowFirst' /\ CompleteAtEnd' /\ Recent' /\ Looked'
      /\ Mine' = job
  <2>1. job.beat <= now /\ Mine.beat <= job.beat
    BY <1>2, <1>4
  <2> QED BY <1>1, <1>2, <1>3, <1>4, <1>5, <1>6, <2>1, WriteKeeps
<1>8. ~task.failed /\ Mine.imported = task.imported /\ Mine.gaps = task.gaps
  BY <1>2 DEF IInv, Ending
<1>9. Tally'
  <2>1. handed' = handed
    BY <1>1 DEF Writes
  <2> QED BY <1>2, <1>5, <1>8, <2>1 DEF IInv, Tally, Unfinished
<1>10. Ending'
  BY <1>4, <1>5, <1>7, <1>8 DEF Ending
<1> QED BY <1>7, <1>9, <1>10 DEF IInv

LEMMA BuildKeeps ==
  ASSUME IInv, Build
  PROVE  IInv'
<1>1. At("build") /\ Writes
  BY DEF Build
<1>2. /\ task.step = "build" /\ Unfinished /\ task \in Task /\ QueueTypeOK /\ handed \in Nat
  BY <1>1, AtStep
<1>3. CASE ~cancelled /\ To("complete") /\ UNCHANGED <<row, memory, lost>>
  <2>1. /\ task' \in Task /\ task'.server = task.server /\ task'.step = "complete"
        /\ task'.window = task.window /\ task'.imported = task.imported
        /\ task'.gaps = task.gaps /\ task'.failed = task.failed
    <3>1. "complete" \in Steps
      BY DEF Steps
    <3> QED BY <1>2, <1>3, <3>1, TaskStepped DEF To
  <2>2. Quiet /\ handed' = handed /\ UNCHANGED queueVars
    BY <1>1, <1>3 DEF Writes, Quiet
  <2>3. QueueTypeOK'
    BY <1>2, <2>2 DEF QueueTypeOK, queueVars
  <2>4. TypeOK' /\ Ownership' /\ RowFirst' /\ CompleteAtEnd' /\ Recent' /\ Looked'
    BY <1>2, <2>1, <2>2, <2>3, QuietKeeps
  <2>5. /\ ~task.failed /\ Mine.imported = task.imported /\ Mine.gaps = task.gaps
        /\ Mine.state = "building"
    BY <1>2 DEF IInv, Ending
  <2>6. Mine' = Mine /\ cancelled' = cancelled
    BY <2>1, <2>2 DEF Mine, Quiet
  <2>7. Ending'
    BY <1>3, <2>1, <2>5, <2>6 DEF Ending
  <2>8. Tally'
    BY <1>2, <2>1, <2>2, <2>5 DEF IInv, Tally, Unfinished
  <2> QED BY <2>4, <2>7, <2>8 DEF IInv
<1>4. CASE Store([Mine EXCEPT !.state = "failed"]) /\ EndTask
  BY <1>1, <1>4, EndKeeps DEF Final, Complete
<1> QED BY <1>3, <1>4 DEF Build

LEMMA FinishFailedKeeps ==
  ASSUME IInv, FinishFailed
  PROVE  IInv'
<1>1. At("finish") /\ EndTask /\ Writes
  BY DEF FinishFailed
<1>2. PICK state : state = IF cancelled THEN "cancelled" ELSE "failed"
  OBVIOUS
<1>3. state \in Final /\ state \notin Complete
  BY <1>2 DEF Final, Complete
<1>4. Store([Mine EXCEPT !.state = state])
  BY <1>2 DEF FinishFailed
<1> QED BY <1>1, <1>3, <1>4, EndKeeps

LEMMA FinishCompleteKeeps ==
  ASSUME IInv, FinishComplete
  PROVE  IInv'
<1>1. At("complete") /\ EndTask /\ Writes
  BY DEF FinishComplete
<1>2. /\ task.step = "complete" /\ Unfinished /\ task \in Task
      /\ task.imported + task.gaps + 1 = task.window
  BY <1>1, AtStep
<1>3. PICK state : state = IF task.gaps > 0 THEN "complete_with_gaps" ELSE "complete"
  OBVIOUS
<1>4. state \in Final /\ ((state = "complete_with_gaps") = (task.gaps > 0))
  BY <1>3 DEF Final, Complete
<1>5. Store([Mine EXCEPT !.state = state])
  BY <1>3 DEF FinishComplete
<1>6. ~cancelled /\ ~task.failed /\ Mine.imported = task.imported /\ Mine.gaps = task.gaps
  BY <1>2 DEF IInv, Ending
<1>7. task.imported \in Nat /\ task.gaps \in Nat
  BY <1>2, TaskFields
<1>8. task.window = Windows + 1 /\ handed = Indicators * task.imported
  BY <1>2, <1>6, <1>7 DEF IInv, Tally, Indicators
<1>9. Mine.imported + Mine.gaps = Windows /\ handed = Indicators * Mine.imported
  BY <1>2, <1>6, <1>7, <1>8
<1>10. (state = "complete_with_gaps") = (Mine.gaps > 0)
  BY <1>4, <1>6
<1> QED BY <1>1, <1>4, <1>5, <1>6, <1>9, <1>10, EndKeeps

LEMMA HeartbeatKeeps ==
  ASSUME IInv, Heartbeat
  PROVE  IInv'
<1>1. /\ Importing /\ due' = FALSE
      /\ UNCHANGED <<now, phase, task, cancelled, checked, handed, queueVars>>
  BY DEF Heartbeat
<1>2. /\ task \in Task /\ task.server \in Servers /\ Mine \in Job /\ QueueTypeOK /\ now \in Nat
      /\ Mine.owner = task.server /\ Mine.beat <= now
      /\ Mine.state \in Final <=> task.step = "ended"
  <2>1. task \in Task /\ task.server \in Servers /\ QueueTypeOK /\ now \in Nat
    BY <1>1, TaskFields DEF IInv, TypeOK, Importing
  <2>2. /\ Mine # None /\ Mine.owner = task.server /\ Mine.beat <= now
        /\ Mine.state \in Final <=> task.step = "ended"
    BY <1>1 DEF IInv, Ownership
  <2>3. Mine \in Job
    BY <2>1, <2>2 DEF IInv, TypeOK, Mine
  <2> QED BY <2>1, <2>2, <2>3
<1>3. PICK job : job = [Mine EXCEPT !.beat = now]
  OBVIOUS
<1>4. /\ job \in Job /\ job.state = Mine.state /\ job.owner = Mine.owner /\ job.beat = now
      /\ job.imported = Mine.imported /\ job.gaps = Mine.gaps
  BY <1>2, <1>3, JobAlive
<1>5. Store(job)
  BY <1>3 DEF Heartbeat
<1>6. job.state \in Complete => Whole(job)
  <2>1. WholeAtEnd(Mine)
    BY <1>2 DEF IInv, CompleteAtEnd, Mine
  <2>2. Mine # None
    BY <1>2, JobFields
  <2> QED BY <1>4, <2>1, <2>2 DEF WholeAtEnd, Whole
<1>7. QueueTypeOK'
  BY <1>1, <1>2 DEF QueueTypeOK, queueVars
<1>8. job.state \in Final <=> task'.step = "ended"
  BY <1>1, <1>2, <1>4
<1>9. Mine.beat <= job.beat /\ job.beat <= now
  BY <1>2, <1>4
<1>10. task' = task /\ (due' = due \/ (~due' /\ job.beat = now)) /\ due' \in BOOLEAN
  BY <1>1, <1>4
<1>11. /\ TypeOK' /\ Ownership' /\ RowFirst' /\ CompleteAtEnd' /\ Recent' /\ Looked'
       /\ Mine' = job
  BY <1>1, <1>2, <1>4, <1>5, <1>6, <1>7, <1>8, <1>9, <1>10, StoreKeeps
<1>12. Tally' /\ Ending'
  BY <1>1, <1>4, <1>11 DEF IInv, Tally, Ending, Unfinished, Importing
<1> QED BY <1>11, <1>12 DEF IInv

----------------------------------------------------------------------------
(* Servers, requests and the clock. *)

\* The table, the import and the memory of its server are as they were; what
\* another server has in memory may change.
LEMMA OtherServer ==
  ASSUME IInv, NEW s \in Servers, task.server # s,
         NEW p \in {"loading", "up", "ended"}, phase' = [phase EXCEPT ![s] = p],
         NEW job \in Job \cup {None}, memory' = [memory EXCEPT ![s] = job],
         NEW c \in Nat \cup {None}, checked' = [checked EXCEPT ![s] = c],
         lost' \in Nat, lost <= lost', lost' <= MaxLost,
         UNCHANGED <<now, row, task, cancelled, due, handed, queueVars>>,
         job # None => row # None,
         WholeAtEnd(job),
         p = "loading" => c = None,
         p = "up" /\ c # None /\ job # None /\ job.state \in Running /\ job.owner # s =>
           row.state \in Final \/ row.beat + Timeout >= c
  PROVE  IInv'
<1>1. /\ \A x \in Servers : /\ phase'[x] = IF x = s THEN p ELSE phase[x]
                            /\ memory'[x] = IF x = s THEN job ELSE memory[x]
                            /\ checked'[x] = IF x = s THEN c ELSE checked[x]
      /\ phase' \in [Servers -> {"down", "loading", "up", "ended"}]
      /\ memory' \in [Servers -> Job \cup {None}]
      /\ checked' \in [Servers -> Nat \cup {None}]
  BY DEF IInv, TypeOK
<1>2. QueueTypeOK'
  BY DEF IInv, TypeOK, QueueTypeOK, queueVars
<1>3. TypeOK'
  BY <1>1, <1>2 DEF IInv, TypeOK
<1>4. task.server \in Servers \cup {None}
  BY TaskFields DEF IInv, TypeOK
<1>5. Importing => Mine' = Mine /\ phase'[task.server] = phase[task.server]
  BY <1>1, <1>4 DEF Importing, Mine
<1>6. Ownership'
  BY <1>5 DEF IInv, Ownership, Importing, Up
<1>7. RowFirst'
  BY <1>1 DEF IInv, RowFirst
<1>8. Tally'
  BY DEF IInv, Tally, Unfinished, Importing
<1>9. Ending'
  BY <1>5 DEF IInv, Ending, Unfinished, Importing
<1>10. CompleteAtEnd'
  <2>1. WholeAtEnd(row)'
    BY DEF IInv, CompleteAtEnd, WholeAtEnd, Whole
  <2>2. ASSUME NEW x \in Servers
        PROVE  WholeAtEnd(memory[x])'
    <3>1. CASE x = s
      <4>1. memory'[x] = job
        BY <1>1, <3>1
      <4> QED BY <4>1 DEF WholeAtEnd, Whole
    <3>2. CASE x # s
      <4>1. memory'[x] = memory[x] /\ WholeAtEnd(memory[x])
        BY <1>1, <3>2 DEF IInv, CompleteAtEnd
      <4> QED BY <4>1 DEF WholeAtEnd, Whole
    <3> QED BY <3>1, <3>2
  <2> QED BY <2>1, <2>2 DEF CompleteAtEnd
<1>11. Recent'
  <2>1. lost \in Nat
    BY DEF IInv, TypeOK
  <2>2. ASSUME MaxLost + 1 < Timeout, Unfinished, ~cancelled
        PROVE  row.owner = task.server /\ now <= row.beat + lost' + (IF due THEN 1 ELSE 0)
    <3>1. row.owner = task.server /\ now <= row.beat + lost + (IF due THEN 1 ELSE 0)
      BY <2>2 DEF IInv, Recent
    <3>2. row \in Job
      <4>1. task # NoTask
        BY <2>2, NoTaskIsTask DEF Unfinished, Importing
      <4> QED BY <4>1 DEF IInv, RowFirst, TypeOK
    <3>3. PICK b \in Nat : b = row.beat
      BY <3>2, JobFields
    <3>4. now \in Nat
      BY DEF IInv, TypeOK
    <3>5. now <= b + lost' + (IF due THEN 1 ELSE 0)
      BY <2>1, <3>1, <3>3, <3>4
    <3> QED BY <3>1, <3>3, <3>5
  <2> QED BY <2>2 DEF Recent, Unfinished, Importing
<1>12. Looked'
  <2>1. \A x \in Servers : phase'[x] \in {"down", "loading"} => checked'[x] = None
    BY <1>1 DEF IInv, Looked
  <2>2. ASSUME NEW x \in Servers, phase'[x] = "up", checked'[x] # None, memory'[x] # None,
               memory'[x].state \in Running, memory'[x].owner # x
        PROVE  row.state \in Final \/ row.beat + Timeout >= checked'[x]
    <3>1. CASE x = s
      BY <1>1, <2>2, <3>1
    <3>2. CASE x # s
      <4>1. phase'[x] = phase[x] /\ memory'[x] = memory[x] /\ checked'[x] = checked[x]
        BY <1>1, <3>2
      <4> QED BY <2>2, <4>1 DEF IInv, Looked, StaleImportIsInterrupted, Up
    <3> QED BY <3>1, <3>2
  <2> QED BY <2>1, <2>2 DEF Looked, StaleImportIsInterrupted, Up
<1> QED BY <1>3, <1>6, <1>7, <1>8, <1>9, <1>10, <1>11, <1>12 DEF IInv

\* The server that imports is up.
LEMMA NotYetUp ==
  ASSUME IInv, NEW s \in Servers, phase[s] # "up"
  PROVE  task.server # s
  BY DEF IInv, Ownership, Importing, Up

LEMMA LoadKeeps ==
  ASSUME IInv, NEW s \in Servers, Load(s)
  PROVE  IInv'
<1>1. /\ phase[s] = "down" /\ phase' = [phase EXCEPT ![s] = "loading"]
      /\ memory' = [memory EXCEPT ![s] = row]
      /\ UNCHANGED <<now, row, task, cancelled, due, lost, checked, handed, queueVars>>
  BY DEF Load
<1>2. /\ task.server # s /\ row \in Job \cup {None} /\ lost \in Nat /\ lost <= MaxLost
      /\ WholeAtEnd(row) /\ checked[s] = None
  BY <1>1, NotYetUp DEF IInv, TypeOK, Recent, CompleteAtEnd, Looked
<1>3. checked' = [checked EXCEPT ![s] = None]
  BY <1>1, <1>2 DEF IInv, TypeOK
<1>4. /\ "loading" \in {"loading", "up", "ended"} /\ "loading" # "up"
      /\ lost' \in Nat /\ lost <= lost' /\ lost' <= MaxLost
      /\ row # None => row # None
      /\ None \in Nat \cup {None}
  BY <1>1, <1>2
<1> QED BY <1>1, <1>2, <1>3, <1>4, OtherServer, Zenon

LEMMA NothingToMarkKeeps ==
  ASSUME IInv, NEW s \in Servers, NothingToMark(s)
  PROVE  IInv'
<1>1. PICK c : c = IF memory[s] = None THEN None ELSE now
  OBVIOUS
<1>2. /\ phase[s] = "loading" /\ phase' = [phase EXCEPT ![s] = "up"]
      /\ memory[s] # None => memory[s].state \notin Running
      /\ checked' = [checked EXCEPT ![s] = c]
      /\ UNCHANGED <<now, row, memory, task, cancelled, due, lost, handed, queueVars>>
  BY <1>1 DEF NothingToMark, Interruptible
<1>3. /\ task.server # s /\ memory[s] \in Job \cup {None} /\ lost \in Nat /\ lost <= MaxLost
      /\ WholeAtEnd(memory[s]) /\ (memory[s] # None => row # None)
  BY <1>2, NotYetUp DEF IInv, TypeOK, Recent, CompleteAtEnd, RowFirst
<1>4. c \in Nat \cup {None}
  BY <1>1 DEF IInv, TypeOK
<1>5. memory' = [memory EXCEPT ![s] = memory[s]]
  BY <1>2 DEF IInv, TypeOK
<1>6. PICK job \in Job \cup {None} : job = memory[s]
  BY <1>3
<1>7. /\ "up" \in {"loading", "up", "ended"} /\ "up" # "loading"
      /\ lost' \in Nat /\ lost <= lost' /\ lost' <= MaxLost
  BY <1>2, <1>3
<1>8. /\ memory' = [memory EXCEPT ![s] = job] /\ (job # None => row # None) /\ WholeAtEnd(job)
      /\ job # None => job.state \notin Running
  BY <1>2, <1>3, <1>5, <1>6, Zenon
<1> QED BY <1>2, <1>3, <1>4, <1>7, <1>8, OtherServer, Zenon

\* A row that is marked has no import with a context that is not done, unless
\* too many writes were lost.
LEMMA MarkedKeeps ==
  ASSUME IInv, NEW s \in Servers, phase[s] = "loading", memory[s] # None,
         phase' = [phase EXCEPT ![s] = "up"],
         checked' = [checked EXCEPT ![s] = now],
         row.state \in Running, row.beat + Timeout <= now,
         row' = [row EXCEPT !.state = "failed", !.owner = None],
         memory' = [memory EXCEPT ![s].state = "failed"],
         UNCHANGED <<now, task, cancelled, due, lost, handed, queueVars>>
  PROVE  IInv'
<1>1. row \in Job /\ memory[s] \in Job
  BY DEF IInv, RowFirst, TypeOK
<1>2. PICK job : job = [memory[s] EXCEPT !.state = "failed"]
  OBVIOUS
<1>3. "failed" \in Final /\ "failed" \notin Complete /\ "failed" \notin Running
  BY DEF Final, Complete, Running
<1>4. job \in Job /\ job.state = "failed"
  BY <1>1, <1>2, <1>3, JobStated
<1>5. row' \in Job /\ row'.state = "failed" /\ row'.owner = None /\ row'.beat = row.beat
  BY <1>1, <1>3 DEF Job
<1>6. job # None /\ row' # None
  BY <1>4, <1>5, JobFields
<1>7. /\ \A x \in Servers : /\ phase'[x] = IF x = s THEN "up" ELSE phase[x]
                            /\ memory'[x] = IF x = s THEN job ELSE memory[x]
                            /\ checked'[x] = IF x = s THEN now ELSE checked[x]
      /\ phase' \in [Servers -> {"down", "loading", "up", "ended"}]
      /\ memory' \in [Servers -> Job \cup {None}]
      /\ checked' \in [Servers -> Nat \cup {None}]
  BY <1>2, <1>4 DEF IInv, TypeOK
<1>8. QueueTypeOK'
  BY DEF IInv, TypeOK, QueueTypeOK, queueVars
<1>9. TypeOK'
  BY <1>5, <1>7, <1>8 DEF IInv, TypeOK
<1>10. task.server # s /\ task.server \in Servers \cup {None}
  BY NotYetUp, TaskFields DEF IInv, TypeOK
<1>11. Importing => Mine' = Mine /\ phase'[task.server] = phase[task.server]
  BY <1>7, <1>10 DEF Importing, Mine
<1>12. Ownership'
  BY <1>5, <1>11 DEF IInv, Ownership, Importing, Up
<1>13. RowFirst'
  BY <1>6 DEF RowFirst
<1>14. Tally' /\ Ending'
  BY <1>11 DEF IInv, Tally, Ending, Unfinished, Importing
<1>15. CompleteAtEnd'
  <2>1. WholeAtEnd(row)'
    BY <1>3, <1>5 DEF WholeAtEnd
  <2>2. ASSUME NEW x \in Servers
        PROVE  WholeAtEnd(memory[x])'
    <3>1. CASE x = s
      BY <1>3, <1>4, <1>7, <3>1 DEF WholeAtEnd
    <3>2. CASE x # s
      <4>1. memory'[x] = memory[x] /\ WholeAtEnd(memory[x])
        BY <1>7, <3>2 DEF IInv, CompleteAtEnd
      <4> QED BY <4>1 DEF WholeAtEnd, Whole
    <3> QED BY <3>1, <3>2
  <2> QED BY <2>1, <2>2 DEF CompleteAtEnd
<1>16. Recent'
  <2>1. ASSUME MaxLost + 1 < Timeout, Unfinished, ~cancelled
        PROVE  FALSE
    <3>1. now <= row.beat + lost + (IF due THEN 1 ELSE 0)
      BY <2>1 DEF IInv, Recent
    <3>2. PICK b \in Nat : b = row.beat
      BY <1>1, JobFields
    <3>3. lost \in Nat /\ lost <= MaxLost /\ now \in Nat
      BY DEF IInv, Recent, TypeOK
    <3> QED BY <2>1, <3>1, <3>2, <3>3
  <2>2. lost <= MaxLost
    BY DEF IInv, Recent
  <2> QED BY <2>1, <2>2 DEF Recent, Unfinished, Importing
<1>17. Looked'
  <2>1. \A x \in Servers : phase'[x] \in {"down", "loading"} => checked'[x] = None
    BY <1>7 DEF IInv, Looked
  <2> QED BY <1>3, <1>5, <2>1 DEF Looked, StaleImportIsInterrupted
<1> QED BY <1>9, <1>12, <1>13, <1>14, <1>15, <1>16, <1>17 DEF IInv

LEMMA MarkStaleKeeps ==
  ASSUME IInv, NEW s \in Servers, MarkStale(s)
  PROVE  IInv'
<1>1. /\ phase[s] = "loading" /\ memory[s] # None
      /\ phase' = [phase EXCEPT ![s] = "up"]
      /\ UNCHANGED <<now, task, cancelled, due, handed, queueVars>>
  BY DEF MarkStale
<1>2. /\ task.server # s /\ memory[s] \in Job \cup {None} /\ lost \in Nat /\ lost <= MaxLost
      /\ WholeAtEnd(memory[s]) /\ row # None /\ checked[s] = None /\ now \in Nat
      /\ row \in Job
  BY <1>1, NotYetUp DEF IInv, TypeOK, Recent, CompleteAtEnd, RowFirst, Looked
<1>3. "up" \in {"loading", "up", "ended"} /\ "up" # "loading" /\ None \in Nat \cup {None}
      /\ now \in Nat \cup {None}
  BY <1>2
<1>4. CASE /\ checked' = [checked EXCEPT ![s] = now]
           /\ row.state \in Running /\ SeemsStale(row)
           /\ row' = [row EXCEPT !.state = "failed", !.owner = None]
           /\ memory' = [memory EXCEPT ![s].state = "failed"]
           /\ UNCHANGED lost
  <2>1. row.beat + Timeout <= now
    BY <1>4 DEF SeemsStale
  <2>2. UNCHANGED <<now, task, cancelled, due, lost, handed, queueVars>>
    BY <1>1, <1>4
  <2> QED BY <1>1, <1>4, <2>1, <2>2, MarkedKeeps
<1>5. CASE /\ checked' = [checked EXCEPT ![s] = now]
           /\ ~(row.state \in Running /\ Stale(row))
           /\ UNCHANGED <<row, memory>> /\ UNCHANGED lost
  <2>1. row.state \in Final \/ row.beat + Timeout >= now
    <3>1. row.state \in Running \cup Final /\ row.beat \in Nat
      BY <1>2, JobFields
    <3>2. CASE row.state \in Final
      BY <3>2
    <3>3. CASE row.state \in Running
      <4>1. ~(row.beat + Timeout < now)
        BY <1>5, <3>3 DEF Stale
      <4> QED BY <1>2, <3>1, <4>1
    <3> QED BY <3>1, <3>2, <3>3
  <2>2. memory' = [memory EXCEPT ![s] = memory[s]]
    BY <1>5 DEF IInv, TypeOK
  <2>3. lost' \in Nat /\ lost <= lost' /\ lost' <= MaxLost
    BY <1>2, <1>5
  <2>4. UNCHANGED <<now, row, task, cancelled, due, handed, queueVars>>
    BY <1>1, <1>5
  <2> QED BY <1>1, <1>2, <1>3, <1>5, <2>1, <2>2, <2>3, <2>4, OtherServer, Zenon
<1>6. CASE lost < MaxLost /\ lost' = lost + 1 /\ UNCHANGED <<row, memory, checked>>
  <2>1. memory' = [memory EXCEPT ![s] = memory[s]] /\ checked' = [checked EXCEPT ![s] = None]
    BY <1>2, <1>6 DEF IInv, TypeOK
  <2>2. lost' \in Nat /\ lost <= lost' /\ lost' <= MaxLost
    BY <1>2, <1>6
  <2>3. UNCHANGED <<now, row, task, cancelled, due, handed, queueVars>>
    BY <1>1, <1>6
  <2> QED BY <1>1, <1>2, <1>3, <2>1, <2>2, <2>3, OtherServer, Zenon
<1> QED BY <1>4, <1>5, <1>6 DEF MarkStale

LEMMA EndServerKeeps ==
  ASSUME IInv, NEW s \in Servers, End(s)
  PROVE  IInv'
<1>1. /\ phase' = [phase EXCEPT ![s] = "ended"] /\ memory' = [memory EXCEPT ![s] = None]
      /\ UNCHANGED <<now, row, cancelled, lost, checked, handed>>
  BY DEF End
<1>2. lost \in Nat /\ lost <= MaxLost /\ checked[s] \in Nat \cup {None}
  BY DEF IInv, TypeOK, Recent
<1>3. CASE task.server # s
  <2>1. UNCHANGED <<now, row, task, cancelled, due, handed, queueVars>>
    BY <1>1, <1>3 DEF End
  <2>2. /\ "ended" \in {"loading", "up", "ended"} /\ "ended" # "loading" /\ "ended" # "up"
        /\ lost' \in Nat /\ lost <= lost' /\ lost' <= MaxLost
        /\ None \in Job \cup {None} /\ WholeAtEnd(None)
    BY <1>1, <1>2 DEF WholeAtEnd
  <2>3. checked' = [checked EXCEPT ![s] = checked[s]]
    BY <1>1 DEF IInv, TypeOK
  <2> QED BY <1>1, <1>2, <1>3, <2>1, <2>2, <2>3, OtherServer, Zenon
<1>4. CASE task.server = s
  <2>1. /\ task' = Gone /\ due' = FALSE /\ QueueGone
        /\ Gone \in Task /\ Gone.server = None /\ Gone.step = "ended"
    BY <1>4, GoneIsTask DEF End
  <2>2. QueueTypeOK'
    BY <2>1 DEF QueueGone, QueueTypeOK
  <2>3. /\ \A x \in Servers : /\ phase'[x] = IF x = s THEN "ended" ELSE phase[x]
                              /\ memory'[x] = IF x = s THEN None ELSE memory[x]
        /\ phase' \in [Servers -> {"down", "loading", "up", "ended"}]
        /\ memory' \in [Servers -> Job \cup {None}]
    BY <1>1 DEF IInv, TypeOK
  <2>4. TypeOK'
    BY <1>1, <2>1, <2>2, <2>3 DEF IInv, TypeOK
  <2>5. ~Importing' /\ ~Unfinished'
    BY <2>1 DEF Importing, Unfinished
  <2>6. Ownership' /\ Tally' /\ Ending'
    BY <2>1, <2>5 DEF Ownership, Tally, Ending
  <2>7. RowFirst'
    <3>1. row # None
      BY <1>4, NoTaskIsTask DEF IInv, RowFirst
    <3> QED BY <1>1, <3>1 DEF RowFirst
  <2>8. CompleteAtEnd'
    <3>1. WholeAtEnd(row)'
      BY <1>1, <2>1 DEF IInv, CompleteAtEnd, WholeAtEnd, Whole
    <3>2. ASSUME NEW x \in Servers
          PROVE  WholeAtEnd(memory[x])'
      <4>1. CASE x = s
        BY <2>3, <4>1 DEF WholeAtEnd
      <4>2. CASE x # s
        <5>1. memory'[x] = memory[x] /\ WholeAtEnd(memory[x])
          BY <2>3, <4>2 DEF IInv, CompleteAtEnd
        <5> QED BY <1>1, <2>1, <5>1 DEF WholeAtEnd, Whole
      <4> QED BY <4>1, <4>2
    <3> QED BY <3>1, <3>2 DEF CompleteAtEnd
  <2>9. Recent'
    BY <1>1, <1>2, <2>5 DEF Recent
  <2>10. Looked'
    <3>1. \A x \in Servers : phase'[x] \in {"down", "loading"} => checked'[x] = None
      BY <1>1, <2>3 DEF IInv, Looked
    <3>2. ASSUME NEW x \in Servers, phase'[x] = "up", checked'[x] # None, memory'[x] # None,
                 memory'[x].state \in Running, memory'[x].owner # x
          PROVE  row'.state \in Final \/ row'.beat + Timeout >= checked'[x]
      <4>1. phase[x] = "up" /\ memory'[x] = memory[x] /\ checked' = checked /\ row' = row
        BY <1>1, <2>3, <3>2
      <4> QED BY <3>2, <4>1 DEF IInv, Looked, StaleImportIsInterrupted, Up
    <3> QED BY <3>1, <3>2 DEF Looked, StaleImportIsInterrupted, Up
  <2> QED BY <2>4, <2>6, <2>7, <2>8, <2>9, <2>10 DEF IInv
<1> QED BY <1>3, <1>4

LEMMA StartKeeps ==
  ASSUME IInv, NEW s \in Servers, Start(s)
  PROVE  IInv'
<1>1. PICK job : job = [state |-> "queued", owner |-> s, beat |-> now, imported |-> 0, gaps |-> 0]
  OBVIOUS
<1>2. /\ phase[s] = "up" /\ row = None /\ task = NoTask
      /\ row' = job /\ memory' = [memory EXCEPT ![s] = job]
      /\ UNCHANGED <<now, phase, cancelled, due, lost, checked, handed, queueVars>>
  BY <1>1 DEF Start, Up
<1>3. now \in Nat /\ lost \in Nat /\ lost <= MaxLost
  BY DEF IInv, TypeOK, Recent
<1>4. /\ job \in Job /\ job # None /\ job.state = "queued" /\ job.owner = s /\ job.beat = now
      /\ job.state \notin Final /\ job.state \notin Complete
  <2>1. "queued" \in Running /\ "queued" \notin Final /\ "queued" \notin Complete /\ 0 \in 0..Windows
    BY DEF Running, Final, Complete
  <2>2. job \in Job /\ job.state = "queued" /\ job.owner = s /\ job.beat = now
    BY <1>1, <1>3, <2>1 DEF Job
  <2> QED BY <2>1, <2>2, JobFields
<1>5. /\ task' \in Task /\ task'.server = s /\ task'.step = "begin" /\ task'.window = 1
      /\ task'.imported = 0 /\ task'.gaps = 0 /\ task'.failed = FALSE
  <2>1. task' = [NoTask EXCEPT !.server = s, !.step = "begin"]
    BY DEF Start
  <2>2. task' = [server |-> s, step |-> "begin", window |-> 1, submitted |-> 0,
                 imported |-> 0, gaps |-> 0, failed |-> FALSE]
    BY <2>1 DEF NoTask
  <2>3. /\ "begin" \in Steps /\ 1 \in 1..(Windows + 1) /\ 0 \in 0..Indicators /\ 0 \in 0..Windows
    BY DEF Steps, Indicators
  <2> QED BY <2>2, <2>3 DEF Task
<1>6. \A x \in Servers : memory'[x] = IF x = s THEN job ELSE None
  BY <1>2 DEF IInv, RowFirst, TypeOK
<1>7. TypeOK'
  <2>1. memory' \in [Servers -> Job \cup {None}] /\ QueueTypeOK'
    BY <1>2, <1>4 DEF IInv, TypeOK, QueueTypeOK, queueVars
  <2> QED BY <1>2, <1>4, <1>5, <2>1 DEF IInv, TypeOK
<1>8. Mine' = job
  BY <1>5, <1>6 DEF Mine
<1>9. Ownership'
  <2>1. Up(s)' /\ Mine'.beat <= now' /\ row'.beat <= Mine'.beat
    BY <1>2, <1>3, <1>4, <1>8 DEF Up
  <2> QED BY <1>2, <1>4, <1>5, <1>8, <2>1 DEF Ownership
<1>10. RowFirst'
  BY <1>2, <1>4 DEF RowFirst
<1>11. Tally'
  <2>1. handed = 0
    BY <1>2, NoTaskIsTask DEF IInv, Tally
  <2>2. handed' = 0
    BY <1>2, <2>1
  <2>3. 0 + 0 + 1 = 1 /\ 0 = Indicators * 0 + 0
    BY DEF Indicators
  <2> QED BY <1>5, <2>2, <2>3 DEF Tally
<1>12. Ending'
  BY <1>5 DEF Ending
<1>13. CompleteAtEnd'
  BY <1>2, <1>4, <1>6 DEF CompleteAtEnd, WholeAtEnd
<1>14. Recent'
  <2>1. now <= job.beat + lost + (IF due THEN 1 ELSE 0)
    BY <1>3, <1>4
  <2> QED BY <1>2, <1>3, <1>4, <1>5, <2>1 DEF Recent
<1>15. Looked'
  <2>1. \A x \in Servers : phase'[x] \in {"down", "loading"} => checked'[x] = None
    BY <1>2 DEF IInv, Looked
  <2> QED BY <1>4, <1>6, <2>1 DEF Looked, StaleImportIsInterrupted
<1> QED BY <1>7, <1>9, <1>10, <1>11, <1>12, <1>13, <1>14, <1>15 DEF IInv

LEMMA CancelKeeps ==
  ASSUME IInv, Cancel
  PROVE  IInv'
<1>1. /\ Importing /\ Mine.state \in {"queued", "running"} /\ cancelled' = TRUE
      /\ UNCHANGED <<now, phase, row, memory, task, due, lost, checked, handed, queueVars>>
  BY DEF Cancel, Cancellable
<1>2. task.step # "ended" /\ task.step # "none" /\ task.step # "complete"
  <2>1. Mine.state \notin Final /\ Mine.state # "building"
    BY <1>1 DEF Final, Complete
  <2> QED BY <1>1, <2>1 DEF IInv, Ownership, Tally, Ending, Unfinished
<1>3. TypeOK'
  BY <1>1 DEF IInv, TypeOK, QueueTypeOK, queueVars
<1>4. Mine' = Mine
  BY <1>1 DEF Mine
<1>5. Ownership'
  BY <1>1, <1>4 DEF IInv, Ownership, Up, Importing
<1>6. RowFirst'
  BY <1>1 DEF IInv, RowFirst
<1>7. Tally' /\ Ending'
  BY <1>1, <1>2, <1>4 DEF IInv, Tally, Ending, Unfinished, Importing
<1>8. CompleteAtEnd'
  BY <1>1, <1>2 DEF IInv, CompleteAtEnd, WholeAtEnd
<1>9. Recent' /\ Looked'
  BY <1>1 DEF IInv, Recent, Looked, StaleImportIsInterrupted, Up
<1> QED BY <1>3, <1>5, <1>6, <1>7, <1>8, <1>9 DEF IInv

LEMMA TickKeeps ==
  ASSUME IInv, Tick
  PROVE  IInv'
<1>1. /\ ~(Beats /\ due) /\ now' = now + 1 /\ due' = Beats
      /\ UNCHANGED <<phase, row, memory, task, cancelled, lost, checked, handed, queueVars>>
  BY DEF Tick
<1>2. now \in Nat /\ due' \in BOOLEAN
  BY <1>1 DEF IInv, TypeOK, Beats
<1>3. TypeOK'
  BY <1>1, <1>2 DEF IInv, TypeOK, QueueTypeOK, queueVars
<1>4. Ownership'
  <2>1. ASSUME Importing
        PROVE  Mine' = Mine /\ Mine.beat <= now'
    <3>1. Mine # None /\ Mine.beat <= now /\ task.server \in Servers
      BY <2>1, TaskFields DEF IInv, Ownership, TypeOK, Importing
    <3>2. Mine \in Job
      BY <3>1 DEF IInv, TypeOK, Mine
    <3>3. Mine.beat \in Nat
      BY <3>2, JobFields
    <3> QED BY <1>1, <1>2, <3>1, <3>3 DEF Mine
  <2> QED BY <1>1, <2>1 DEF IInv, Ownership, Up, Importing
<1>5. RowFirst' /\ Tally' /\ Looked'
  BY <1>1 DEF IInv, RowFirst, Tally, Looked, StaleImportIsInterrupted, Up, Unfinished, Importing
<1>6. Ending'
  BY <1>1 DEF IInv, Ending, Unfinished, Importing, Mine
<1>7. CompleteAtEnd'
  BY <1>1 DEF IInv, CompleteAtEnd, WholeAtEnd, Whole
<1>8. Recent'
  <2>1. ASSUME MaxLost + 1 < Timeout, Unfinished, ~cancelled
        PROVE  row.owner = task.server /\ now' <= row.beat + lost + (IF due' THEN 1 ELSE 0)
    <3>1. Beats
      BY <2>1 DEF Beats
    <3>2. due' = TRUE /\ ~due
      BY <1>1, <3>1
    <3>3. row.owner = task.server /\ now <= row.beat + lost + (IF due THEN 1 ELSE 0)
      BY <2>1 DEF IInv, Recent
    <3>4. row \in Job
      BY <2>1, NoTaskIsTask DEF IInv, RowFirst, TypeOK, Unfinished, Importing
    <3>5. PICK b \in Nat : b = row.beat
      BY <3>4, JobFields
    <3>6. lost \in Nat
      BY DEF IInv, TypeOK
    <3>7. now <= b + lost
      BY <1>2, <3>2, <3>3, <3>5, <3>6
    <3>8. now + 1 <= b + lost + 1
      BY <1>2, <3>6, <3>7
    <3> QED BY <1>1, <3>2, <3>3, <3>5, <3>8
  <2>2. lost <= MaxLost
    BY DEF IInv, Recent
  <2> QED BY <1>1, <2>1, <2>2 DEF Recent, Unfinished, Importing
<1> QED BY <1>3, <1>4, <1>5, <1>6, <1>7, <1>8 DEF IInv

LEMMA QueueKeeps ==
  ASSUME IInv, UNCHANGED importVars, QueueTypeOK'
  PROVE  IInv'
<1>1. UNCHANGED <<now, phase, row, memory, task, cancelled, due, lost, checked, handed>>
  BY DEF importVars
<1>2. TypeOK'
  BY <1>1 DEF IInv, TypeOK
<1>3. Ownership' /\ RowFirst' /\ Tally' /\ Ending'
  BY <1>1 DEF IInv, Ownership, RowFirst, Tally, Ending, Up, Unfinished, Importing, Mine
<1>4. CompleteAtEnd'
  BY <1>1 DEF IInv, CompleteAtEnd, WholeAtEnd, Whole
<1>5. Recent' /\ Looked'
  BY <1>1 DEF IInv, Recent, Looked, StaleImportIsInterrupted, Up, Unfinished, Importing
<1> QED BY <1>2, <1>3, <1>4, <1>5 DEF IInv

----------------------------------------------------------------------------
(* Theorems. *)

LEMMA InitHolds == Init => IInv
<1> SUFFICES ASSUME Init PROVE IInv
  OBVIOUS
<1>1. TypeOK
  <2>1. QueueTypeOK
    <3>1. liveJobs = 0 /\ historyJobs = 0 /\ overtaken = 0 /\ worker = "first"
      BY DEF Init, QueueInit
    <3>2. stopping \in BOOLEAN
      BY DEF Init, QueueInit
    <3> QED BY <3>1, <3>2 DEF QueueTypeOK
  <2>2. /\ phase \in [Servers -> {"down", "loading", "up", "ended"}]
        /\ memory \in [Servers -> Job \cup {None}]
        /\ checked \in [Servers -> Nat \cup {None}]
    BY DEF Init
  <2>3. /\ now \in Nat /\ row \in Job \cup {None} /\ task \in Task
        /\ cancelled \in BOOLEAN /\ due \in BOOLEAN /\ lost \in Nat /\ handed \in Nat
    BY NoTaskIsTask DEF Init
  <2> QED BY <2>1, <2>2, <2>3 DEF TypeOK
<1>2. ~Importing /\ ~Unfinished /\ task.step = "none"
  BY NoTaskIsTask DEF Init, Importing, Unfinished
<1>3. Ownership /\ RowFirst /\ Tally /\ Ending /\ CompleteAtEnd /\ Recent
  BY <1>2 DEF Init, Ownership, RowFirst, Tally, Ending, CompleteAtEnd, WholeAtEnd, Recent
<1>4. Looked
  BY DEF Init, Looked, StaleImportIsInterrupted
<1> QED BY <1>1, <1>3, <1>4 DEF IInv

LEMMA QueueTypePreserved ==
  ASSUME QueueTypeOK, Work \/ Submit \/ StopWorker
  PROVE  QueueTypeOK'
<1>1. CASE Work
  BY <1>1 DEF QueueTypeOK, Work, FirstSelect, SecondSelect, Analysed, TakeLive, TakeHistory, Exit
<1>2. CASE Submit
  BY <1>2 DEF QueueTypeOK, Submit
<1>3. CASE StopWorker
  BY <1>3 DEF QueueTypeOK, StopWorker
<1> QED BY <1>1, <1>2, <1>3

LEMMA NextKeeps == IInv /\ [Next]_vars => IInv'
<1> SUFFICES ASSUME IInv, [Next]_vars PROVE IInv'
  OBVIOUS
<1>1. ASSUME NEW s \in Servers,
             Load(s) \/ MarkStale(s) \/ NothingToMark(s) \/ End(s) \/ Start(s)
      PROVE  IInv'
  BY <1>1, LoadKeeps, MarkStaleKeeps, NothingToMarkKeeps, EndServerKeeps, StartKeeps
<1>2. CASE Import
  BY <1>2, QuietStep, BeginKeeps, ProgressKeeps, SummaryKeeps, FinishFailedKeeps,
     BuildingKeeps, BuildKeeps, FinishCompleteKeeps DEF Import
<1>3. CASE Cancel \/ Heartbeat \/ Tick
  BY <1>3, CancelKeeps, HeartbeatKeeps, TickKeeps
<1>4. CASE Analysis \/ LiveRequest \/ Shutdown
  <2>1. QueueTypeOK'
    BY <1>4, QueueTypePreserved DEF IInv, TypeOK, Analysis, LiveRequest, Shutdown
  <2>2. UNCHANGED importVars
    BY <1>4 DEF Analysis, LiveRequest, Shutdown
  <2> QED BY <2>1, <2>2, QueueKeeps
<1>5. CASE UNCHANGED vars
  <2>1. UNCHANGED importVars /\ UNCHANGED queueVars
    BY <1>5 DEF vars
  <2>2. QueueTypeOK'
    BY <2>1 DEF IInv, TypeOK, QueueTypeOK, queueVars
  <2> QED BY <2>1, <2>2, QueueKeeps
<1> QED BY <1>1, <1>2, <1>3, <1>4, <1>5 DEF Next

\* The inductive invariant of an import: the server that imports is up and its
\* job is never behind the row it owns; windows, counts and queued analyses
\* agree at each step; heartbeats keep up but for the writes that were lost.
THEOREM ImportInvariant == Spec => []IInv
<1>1. Init => IInv
  BY InitHolds
<1>2. IInv /\ [Next]_vars => IInv'
  BY NextKeeps
<1> QED BY <1>1, <1>2, PTL DEF Spec

\* The state of an import has its type: the job of start and persist, the
\* counters of Import, the channels of the worker within their capacity.
THEOREM ImportTypeCorrect == Spec => []TypeOK
<1>1. IInv => TypeOK
  BY DEF IInv
<1> QED BY <1>1, ImportInvariant, PTL

\* A server that is up shows as running no import of an ended process whose
\* heartbeat was stale when it looked (markInterruptedIfStale).
THEOREM StaleInterrupted == Spec => []StaleImportIsInterrupted
<1>1. IInv => StaleImportIsInterrupted
  BY DEF IInv, Looked
<1> QED BY <1>1, ImportInvariant, PTL

\* A job that is complete, in the table or in any memory, was not cancelled
\* and accounts for each of its windows and their analyses (run, Import).
THEOREM CompleteIsWhole == Spec => []CompleteImportIsWhole
<1>1. IInv => CompleteImportIsWhole
  <2> SUFFICES ASSUME IInv, NEW job \in {row} \cup {memory[s] : s \in Servers},
                      job # None, job.state \in Complete
               PROVE  Whole(job)
    BY DEF CompleteImportIsWhole, Whole
  <2>1. WholeAtEnd(job)
    BY DEF IInv, CompleteAtEnd
  <2> QED BY <2>1 DEF WholeAtEnd
<1> QED BY <1>1, ImportInvariant, PTL

\* If the heartbeats that are lost leave one within the timeout, no server that starts
\* interrupts an import that runs (heartbeat, markInterruptedIfStale).
THEOREM LiveNotInterrupted ==
  ASSUME MaxLost + 1 < Timeout
  PROVE  Spec => []LiveImportIsNotInterrupted
<1>1. IInv => LiveImportIsNotInterrupted
  <2> SUFFICES ASSUME IInv, Unfinished, ~cancelled, row.owner = None
               PROVE  FALSE
    BY DEF LiveImportIsNotInterrupted
  <2>1. row.owner = task.server
    BY DEF IInv, Recent
  <2> QED BY <2>1 DEF Unfinished, Importing
<1> QED BY <1>1, ImportInvariant, PTL

LEMMA StoreKeepsTheEnd ==
  ASSUME IInv, Importing, NEW job, Store(job), job.owner = task.server,
         task.step = "ended" => job.state = Mine.state,
         row # None, row.state \in Final
  PROVE  row'.state = row.state
<1>1. row' = row \/ (row.owner = task.server /\ row' = job)
  BY DEF Store, OwnedBy
<1>2. CASE row.owner = task.server /\ row' = job
  <2>1. row.state = Mine.state /\ (Mine.state \in Final <=> task.step = "ended")
    BY <1>2 DEF IInv, Ownership
  <2> QED BY <1>2, <2>1
<1> QED BY <1>1, <1>2

LEMMA ImportKeepsTheEnd ==
  ASSUME IInv, Import, row # None, row.state \in Final
  PROVE  row'.state = row.state
<1>1. CASE row' = row
  BY <1>1
<1>2. ASSUME NEW step, At(step), NEW job, Store(job), job.owner = Mine.owner
      PROVE  row'.state = row.state
  BY <1>2, AtStep, StoreKeepsTheEnd DEF Unfinished
<1>3. ASSUME NEW step, At(step), NEW state, Store([Mine EXCEPT !.state = state])
      PROVE  row'.state = row.state
  <2>1. [Mine EXCEPT !.state = state].owner = Mine.owner
    BY <1>3, AtStep DEF Job
  <2> QED BY <1>2, <1>3, <2>1
<1>4. ASSUME NEW step, At(step), NEW state, NEW beat,
             Store([Mine EXCEPT !.state = state, !.beat = beat])
      PROVE  row'.state = row.state
  <2>1. [Mine EXCEPT !.state = state, !.beat = beat].owner = Mine.owner
    BY <1>4, AtStep DEF Job
  <2> QED BY <1>2, <1>4, <2>1
<1>5. ASSUME NEW step, At(step), NEW result, Store(Counted(result))
      PROVE  row'.state = row.state
  <2>1. Counted(result).owner = Mine.owner
    BY <1>5, AtStep DEF Job, Counted
  <2> QED BY <1>2, <1>5, <2>1
<1>6. CASE Begin \/ StartBuild
  BY <1>4, <1>6 DEF Begin, StartBuild
<1>7. CASE UpdateProgress \/ UpdateSummary
  BY <1>5, <1>7 DEF UpdateProgress, UpdateSummary
<1>8. CASE FinishFailed \/ Build \/ FinishComplete
  BY <1>1, <1>3, <1>8 DEF FinishFailed, Build, FinishComplete
<1>9. CASE ImportReturns \/ CollectWindow \/ SubmitContext \/ SubmitEnds \/ WindowCancelled
  <2>1. Quiet
    BY <1>9 DEF ImportReturns, CollectWindow, SubmitContext, SubmitEnds, WindowCancelled
  <2> QED BY <1>1, <2>1 DEF Quiet
<1> QED BY <1>6, <1>7, <1>8, <1>9 DEF Import

\* The end of a job in the table is final: a server that was declared
\* interrupted, a late heartbeat and late progress never change it (update).
THEOREM FinishedIsFinal == Spec => FinishedStaysFinished
<1>1. ASSUME IInv, Next, row # None, row.state \in Final
      PROVE  row'.state = row.state
  <2>1. CASE Import
    BY <1>1, <2>1, ImportKeepsTheEnd
  <2>2. CASE Heartbeat
    <3>1. Importing /\ Store([Mine EXCEPT !.beat = now])
      BY <2>2 DEF Heartbeat
    <3>2. Mine \in Job /\ Mine.owner = task.server
      BY <1>1, <3>1, TaskFields DEF IInv, Ownership, TypeOK, Importing, Mine
    <3>3. PICK job : job = [Mine EXCEPT !.beat = now]
      OBVIOUS
    <3>4. job.state = Mine.state /\ job.owner = task.server
      BY <1>1, <3>2, <3>3, JobAlive DEF IInv, TypeOK
    <3> QED BY <1>1, <3>1, <3>3, <3>4, StoreKeepsTheEnd
  <2>3. ASSUME NEW s \in Servers, MarkStale(s)
        PROVE  row'.state = row.state
    <3>1. row.state \notin Running
      BY <1>1 DEF Final, Complete, Running
    <3> QED BY <2>3, <3>1 DEF MarkStale
  <2>4. ASSUME NEW s \in Servers, Load(s) \/ NothingToMark(s) \/ End(s) \/ Start(s)
        PROVE  row'.state = row.state
    BY <1>1, <2>4 DEF Load, NothingToMark, End, Start
  <2>5. CASE Cancel \/ Tick \/ Analysis \/ LiveRequest \/ Shutdown
    BY <2>5 DEF Cancel, Tick, Analysis, LiveRequest, Shutdown, importVars
  <2> QED BY <1>1, <2>1, <2>2, <2>3, <2>4, <2>5 DEF Next
<1>2. IInv /\ [Next]_vars => [row # None /\ row.state \in Final => row'.state = row.state]_vars
  BY <1>1
<1> QED BY <1>2, ImportInvariant, PTL DEF Spec, FinishedStaysFinished

----------------------------------------------------------------------------
(* The queue of the analyses. *)

\* A historical request is taken past a waiting live one only from the second
\* select, and the goroutine comes back to it through the first, which waits
\* for nothing else while a live request is there.
Overtaking ==
  /\ overtaken \in Nat /\ liveJobs \in Nat
  /\ HistoryOvertakesOnce
  /\ overtaken > 0 => liveJobs > 0 /\ worker # "second"

LEMMA WorkKeepsOvertaking ==
  ASSUME Overtaking, Work
  PROVE  Overtaking'
<1> USE DEF Overtaking, HistoryOvertakesOnce
<1>1. ASSUME TakeLive
      PROVE  Overtaking'
  BY <1>1 DEF TakeLive
<1>2. ASSUME Exit
      PROVE  Overtaking'
  BY <1>2 DEF Exit
<1>3. ASSUME worker = "second", TakeHistory
      PROVE  Overtaking'
  <2>1. overtaken = 0
    BY <1>3
  <2>2. liveJobs' = liveJobs /\ worker' = "busy"
    BY <1>3 DEF TakeHistory
  <2>3. CASE liveJobs > 0
    <3>1. overtaken' = 1
      BY <1>3, <2>1, <2>3 DEF TakeHistory
    <3> QED BY <2>2, <2>3, <3>1
  <2>4. CASE liveJobs = 0
    <3>1. overtaken' = 0
      BY <1>3, <2>1, <2>4 DEF TakeHistory
    <3> QED BY <2>2, <3>1
  <2> QED BY <2>3, <2>4
<1>4. CASE FirstSelect
  <2>1. CASE /\ liveJobs = 0 /\ worker' = "second"
             /\ UNCHANGED <<liveJobs, historyJobs, stopping, overtaken>>
    BY <2>1
  <2> QED BY <1>1, <1>2, <1>4, <2>1 DEF FirstSelect
<1>5. CASE SecondSelect
  BY <1>1, <1>2, <1>3, <1>5 DEF SecondSelect
<1>6. CASE Analysed
  BY <1>6 DEF Analysed
<1> QED BY <1>4, <1>5, <1>6 DEF Work

\* A live analysis waits for at most one historical one that is taken after it
\* was queued, whatever an import submits (the two selects of run).
THEOREM HistoryGivesWay == Spec => []HistoryOvertakesOnce
<1>1. Init => Overtaking
  BY DEF Init, QueueInit, Overtaking, HistoryOvertakesOnce
<1>2. ASSUME Overtaking, [Next]_vars
      PROVE  Overtaking'
  <2> USE DEF Overtaking, HistoryOvertakesOnce
  <2>1. CASE UNCHANGED queueVars
    BY <1>2, <2>1 DEF queueVars
  <2>2. CASE Enqueue
    BY <1>2, <2>2 DEF Enqueue
  <2>3. CASE QueueGone
    BY <1>2, <2>3 DEF QueueGone
  <2>4. CASE Submit
    BY <1>2, <2>4 DEF Submit
  <2>5. CASE StopWorker
    BY <1>2, <2>5 DEF StopWorker
  <2>6. CASE Work
    BY <1>2, <2>6, WorkKeepsOvertaking
  <2>7. \/ UNCHANGED queueVars \/ Enqueue \/ QueueGone \/ Submit \/ StopWorker \/ Work
    <3>1. CASE Import
      BY <3>1 DEF Import, Begin, ImportReturns, CollectWindow, SubmitContext, SubmitEnds,
         WindowCancelled, UpdateProgress, UpdateSummary, FinishFailed, StartBuild, Build,
         FinishComplete, Writes
    <3>2. ASSUME NEW s \in Servers,
                 Load(s) \/ MarkStale(s) \/ NothingToMark(s) \/ End(s) \/ Start(s)
          PROVE  UNCHANGED queueVars \/ QueueGone
      BY <3>2 DEF Load, MarkStale, NothingToMark, End, Start
    <3>3. CASE Cancel \/ Heartbeat \/ Tick
      BY <3>3 DEF Cancel, Heartbeat, Tick
    <3>4. CASE Analysis \/ LiveRequest \/ Shutdown
      BY <3>4 DEF Analysis, LiveRequest, Shutdown
    <3>5. CASE UNCHANGED vars
      BY <3>5 DEF vars
    <3> QED BY <1>2, <3>1, <3>2, <3>3, <3>4, <3>5 DEF Next
  <2> QED BY <2>1, <2>2, <2>3, <2>4, <2>5, <2>6, <2>7
<1>3. Overtaking => HistoryOvertakesOnce
  BY DEF Overtaking
<1> QED BY <1>1, <1>2, <1>3, PTL DEF Spec

=============================================================================
