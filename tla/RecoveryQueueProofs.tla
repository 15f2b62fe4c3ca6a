------------------------- MODULE RecoveryQueueProofs -------------------------
(***************************************************************************)
(* Proof, for any number of windows and of goroutines, that no window is   *)
(* lost between the scheduler, the backlog and the chunks, and that one    *)
(* goroutine is in charge of the service.                                  *)
(***************************************************************************)
EXTENDS RecoveryQueue, TLAPS

\* Steps of a goroutine that holds a row.
Holding == {"mark", "collect", "recovered", "failed", "record", "expire", "gap"}

\* What a goroutine and the live callback have in hand: a window, and in the
\* steps that report it collected, one whose chunks are written.
HandsAreTrue ==
  /\ live # "idle" => window \in Windows
  /\ live = "collected" => window \in chunks
  /\ \A k \in Workers : workers[k].step \in Holding => workers[k].window \in Windows
  /\ \A k \in Workers : workers[k].step = "recovered" => workers[k].window \in chunks

IInv == TypeOK /\ HandsAreTrue /\ NoWindowLost /\ OneWorkerInCharge

----------------------------------------------------------------------------
(* What single assignments keep. *)

\* Writing a row leaves the other rows of the backlog as they are.
LEMMA RowWritten ==
  ASSUME NEW b \in [Windows -> Row], NEW w \in Windows, NEW r \in Row
  PROVE  /\ [b EXCEPT ![w] = r] \in [Windows -> Row]
         /\ \A v \in Windows : [b EXCEPT ![w] = r][v] = IF v = w THEN r ELSE b[v]
  OBVIOUS

\* The rows that the statements write are rows.
LEMMA RowTypes ==
  ASSUME NEW r \in Row
  PROVE  /\ \A s \in {"pending", "collecting", "recovered", "expired"} :
              [r EXCEPT !.state = s] \in Row /\ [r EXCEPT !.state = s].state = s
         /\ [r EXCEPT !.state = "pending", !.ready = FALSE] \in Row
         /\ [r EXCEPT !.state = "pending", !.ready = FALSE].state = "pending"
         /\ [r EXCEPT !.ready = TRUE] \in Row /\ [r EXCEPT !.ready = TRUE].state = r.state
         /\ [r EXCEPT !.old = TRUE] \in Row /\ [r EXCEPT !.old = TRUE].state = r.state
         /\ [state |-> "pending", ready |-> FALSE, old |-> r.old] \in Row
  BY DEF Row

\* A goroutine that takes a step, short of its end, stays the one it was.
LEMMA TurnKeeps ==
  ASSUME TypeOK, OneWorkerInCharge,
         NEW k \in Workers, Alive(k),
         NEW s \in Steps \ {"off"}, NEW v \in Windows \cup {None},
         workers' = Turned(k, s, v), UNCHANGED <<target, cancelled>>
  PROVE  /\ workers' \in [Workers -> Worker]
         /\ OneWorkerInCharge'
         /\ \A j \in Workers :
              /\ workers'[j].step = IF j = k THEN s ELSE workers[j].step
              /\ workers'[j].window = IF j = k THEN v ELSE workers[j].window
<1> DEFINE new == [workers[k] EXCEPT !.step = s, !.window = v]
<1>1. workers \in [Workers -> Worker] /\ workers[k] \in Worker
  BY DEF TypeOK
<1>2. new \in Worker /\ new.step = s /\ new.window = v /\ new.stopped = workers[k].stopped
  BY <1>1 DEF Worker
<1>3. workers' = [workers EXCEPT ![k] = new]
  BY DEF Turned
<1> HIDE DEF new
<1>4. workers' \in [Workers -> Worker]
  BY <1>1, <1>2, <1>3
<1>5. \A j \in Workers : workers'[j] = IF j = k THEN new ELSE workers[j]
  BY <1>1, <1>3
<1>6. OneWorkerInCharge'
  <2>1. \A j \in Workers : Alive(j)' <=> Alive(j)
    BY <1>2, <1>5 DEF Alive
  <2>2. \A j \in Workers : workers'[j].stopped = workers[j].stopped
    BY <1>2, <1>5
  <2>3. target \in Workers \cup {None}
    BY DEF TypeOK
  <2> QED BY <2>1, <2>2, <2>3 DEF OneWorkerInCharge
<1> QED BY <1>2, <1>4, <1>5, <1>6

\* No window gets lost when its row is left, put back, expired, or marked
\* recovered once its chunks are written.
LEMMA NothingLost ==
  ASSUME NoWindowLost, passed' \subseteq passed \cup chunks', chunks \subseteq chunks',
         \A w \in Windows :
           \/ backlog'[w].state = backlog[w].state
           \/ backlog'[w].state \in {"pending", "collecting", "expired"}
           \/ w \in chunks'
  PROVE  NoWindowLost'
  BY DEF NoWindowLost, Open, Windows

\* A step of a goroutine keeps the invariant if it has its window in hand and
\* treats the rows as NothingLost asks.
LEMMA PassKeeps ==
  ASSUME IInv, NEW k \in Workers, Alive(k),
         NEW s \in Steps \ {"off"}, NEW v \in Windows \cup {None},
         workers' = Turned(k, s, v), UNCHANGED <<schedule, target, cancelled>>,
         s \in Holding => v \in Windows, s = "recovered" => v \in chunks',
         backlog' \in [Windows -> Row], firing' \in BOOLEAN,
         chunks \subseteq chunks', chunks' \subseteq Windows, gaps' \subseteq Windows,
         \A w \in Windows :
           \/ backlog'[w].state = backlog[w].state
           \/ backlog'[w].state \in {"pending", "collecting", "expired"}
           \/ w \in chunks'
  PROVE  IInv'
<1>1. /\ workers' \in [Workers -> Worker]
      /\ OneWorkerInCharge'
      /\ \A j \in Workers :
           /\ workers'[j].step = IF j = k THEN s ELSE workers[j].step
           /\ workers'[j].window = IF j = k THEN v ELSE workers[j].window
  BY TurnKeeps DEF IInv
<1>2. TypeOK'
  <2> TypeOK
    BY DEF IInv
  <2> QED BY <1>1 DEF TypeOK, schedule
<1>3. HandsAreTrue'
  BY <1>1 DEF IInv, HandsAreTrue, schedule, Windows
<1>4. NoWindowLost'
  BY NothingLost DEF IInv, schedule
<1> QED BY <1>1, <1>2, <1>3, <1>4 DEF IInv

\* A goroutine in a step that holds a row has the window of that row.
LEMMA InHand ==
  ASSUME IInv, NEW k \in Workers, workers[k].step \in Holding
  PROVE  workers[k].window \in Windows /\ Alive(k)
  BY DEF IInv, HandsAreTrue, Holding, Alive

----------------------------------------------------------------------------
LEMMA InitInv == Init => IInv
<1> SUFFICES ASSUME Init PROVE IInv
  OBVIOUS
<1>1. TypeOK
  <2>1. NoRow \in Row /\ Off \in Worker
    BY DEF NoRow, Row, Off, Worker, Steps
  <2>2. backlog \in [Windows -> Row] /\ workers \in [Workers -> Worker]
    BY <2>1 DEF Init
  <2>3. window \in 1..(MaxWindow + 1)
    BY MaxWindowAssumption DEF Init
  <2> QED BY <2>2, <2>3 DEF Init, TypeOK
<1>2. \A w \in Windows : backlog[w].state = "absent"
  BY DEF Init, NoRow
<1>3. \A k \in Workers : workers[k].step = "off"
  BY DEF Init, Off
<1>4. HandsAreTrue
  BY <1>3 DEF Init, HandsAreTrue, Holding
<1>5. NoWindowLost
  BY <1>2 DEF Init, NoWindowLost
<1>6. OneWorkerInCharge
  BY <1>3 DEF Init, OneWorkerInCharge, Alive
<1> QED BY <1>1, <1>4, <1>5, <1>6 DEF IInv

----------------------------------------------------------------------------
(* One lemma per action, or per group of actions that write the same.       *)

\* The service is scheduled or unscheduled, the queue or the program stopped.
LEMMA ControlKeeps ==
  ASSUME IInv, Schedule \/ Unschedule \/ Stop \/ Restart
  PROVE  IInv'
<1> USE DEF IInv
<1>0. /\ workers \in [Workers -> Worker] /\ None \notin Workers
      /\ window \in 1..(MaxWindow + 1) /\ target \in Workers \cup {None}
  BY WorkersAssumption DEF TypeOK
<1>1. CASE Schedule
  <2>1. CASE target # None /\ UNCHANGED <<target, workers>>
    <3>1. TypeOK'
      BY <1>1, <2>1 DEF Schedule, TypeOK, tables
    <3>2. HandsAreTrue' /\ OneWorkerInCharge' /\ NoWindowLost'
      BY <1>1, <2>1 DEF Schedule, tables, HandsAreTrue, OneWorkerInCharge, Alive,
                        NoWindowLost, Open
    <3> QED BY <3>1, <3>2
  <2>2. CASE target = None
    <3>1. PICK k \in Workers :
            /\ workers[k].step = "off" /\ target' = k
            /\ workers' = [workers EXCEPT ![k] = [Off EXCEPT !.step = "read"]]
      BY <1>1, <2>2 DEF Schedule
    <3> DEFINE new == [Off EXCEPT !.step = "read"]
    <3>2. new \in Worker /\ new.step = "read" /\ new.stopped = FALSE
      BY DEF Off, Worker, Steps
    <3> HIDE DEF new
    <3>3. /\ workers' \in [Workers -> Worker]
          /\ \A j \in Workers : workers'[j] = IF j = k THEN new ELSE workers[j]
      BY <1>0, <3>1, <3>2 DEF new
    <3>4. TypeOK'
      BY <1>1, <3>1, <3>3 DEF Schedule, TypeOK, tables
    <3>5. HandsAreTrue' /\ NoWindowLost'
      BY <1>1, <3>2, <3>3 DEF Schedule, tables, HandsAreTrue, Holding, NoWindowLost, Open
    <3>6. OneWorkerInCharge'
      BY <1>0, <2>2, <3>1, <3>2, <3>3 DEF OneWorkerInCharge, Alive
    <3> QED BY <3>4, <3>5, <3>6
  <2> QED BY <1>1, <2>1, <2>2 DEF Schedule
<1>2. CASE Unschedule
  <2> DEFINE new == [workers[target] EXCEPT !.stopped = TRUE]
  <2>1. target \in Workers /\ workers[target] \in Worker
    BY <1>0, <1>2 DEF Unschedule
  <2>2. /\ new \in Worker /\ new.stopped /\ new.step = workers[target].step
        /\ new.window = workers[target].window
    BY <2>1 DEF Worker
  <2>3. workers' = [workers EXCEPT ![target] = new]
    BY <1>2 DEF Unschedule, Stopped
  <2> HIDE DEF new
  <2>4. /\ workers' \in [Workers -> Worker]
        /\ \A j \in Workers : workers'[j] = IF j = target THEN new ELSE workers[j]
    BY <1>0, <2>1, <2>2, <2>3
  <2>5. \A j \in Workers : /\ workers'[j].step = workers[j].step
                           /\ workers'[j].window = workers[j].window
    BY <2>2, <2>4
  <2>6. window' \in 1..(MaxWindow + 1) /\ (live' # "idle" => window' \in Windows)
    BY <1>0, <1>2, MaxWindowAssumption
    DEF Unschedule, Dropped, HandsAreTrue, Windows
  <2>7. live' = live \/ live' = "idle"
    BY <1>2 DEF Unschedule, Dropped
  <2>8. scheduled' \in {"off", "on", "ending"}
    BY <1>2 DEF Unschedule, TypeOK
  <2>9. TypeOK'
    BY <1>2, <2>4, <2>6, <2>7, <2>8 DEF Unschedule, TypeOK, tables
  <2>10. HandsAreTrue'
    BY <1>2, <2>5, <2>6, <2>7 DEF Unschedule, Dropped, InFlight, HandsAreTrue, tables
  <2>11. NoWindowLost'
    BY <1>2 DEF Unschedule, tables, NoWindowLost, Open
  <2>12. OneWorkerInCharge'
    BY <1>2, <2>2, <2>4 DEF Unschedule, OneWorkerInCharge, Alive
  <2> QED BY <2>9, <2>10, <2>11, <2>12
<1>3. CASE Stop
  <2>1. TypeOK'
    BY <1>3 DEF Stop, TypeOK, tables, schedule
  <2>2. HandsAreTrue' /\ NoWindowLost' /\ OneWorkerInCharge'
    BY <1>3 DEF Stop, tables, schedule, HandsAreTrue, NoWindowLost, Open,
                OneWorkerInCharge, Alive
  <2> QED BY <2>1, <2>2
<1>4. CASE Restart
  <2>1. Off \in Worker /\ Off.step = "off"
    BY DEF Off, Worker, Steps
  <2>2. workers' \in [Workers -> Worker] /\ \A k \in Workers : workers'[k].step = "off"
    BY <1>4, <2>1 DEF Restart
  <2>3. window' \in 1..(MaxWindow + 1)
    BY <1>0, <1>4, MaxWindowAssumption DEF Restart, Dropped, HandsAreTrue, Windows
  <2>4. TypeOK'
    BY <1>4, <2>2, <2>3 DEF Restart, Dropped, TypeOK, tables
  <2>5. HandsAreTrue' /\ OneWorkerInCharge'
    BY <1>4, <2>2 DEF Restart, Dropped, HandsAreTrue, Holding, OneWorkerInCharge, Alive
  <2>6. NoWindowLost'
    BY <1>4 DEF Restart, tables, NoWindowLost, Open
  <2> QED BY <2>4, <2>5, <2>6
<1> QED BY <1>1, <1>2, <1>3, <1>4

\* The live callback and its scheduler: only a window that is collected, or
\* whose row is committed, is moved past.
LEMMA LiveKeeps ==
  ASSUME IInv, CollectAlive
  PROVE  IInv'
<1> USE DEF IInv
<1>0. /\ window \in 1..(MaxWindow + 1) /\ backlog \in [Windows -> Row]
      /\ chunks \subseteq Windows /\ passed \subseteq Windows
      /\ firing \in BOOLEAN /\ scheduled \in {"off", "on", "ending"}
  BY DEF TypeOK
<1>1. CASE StartLive
  <2>1. TypeOK'
    BY <1>1 DEF StartLive, TypeOK, tables, queue
  <2>2. HandsAreTrue' /\ NoWindowLost' /\ OneWorkerInCharge'
    BY <1>1 DEF StartLive, tables, queue, HandsAreTrue, NoWindowLost, Open,
                OneWorkerInCharge, Alive
  <2> QED BY <2>1, <2>2
<1>2. ASSUME NEW ok \in BOOLEAN, CollectLive(ok)
      PROVE  IInv'
  <2>1. window \in Windows
    BY <1>2 DEF CollectLive, HandsAreTrue
  <2>2. TypeOK'
    BY <1>2, <2>1 DEF CollectLive, TypeOK, queue
  <2>3. HandsAreTrue'
    BY <1>2, <2>1 DEF CollectLive, HandsAreTrue, queue
  <2>4. NoWindowLost'
    BY <1>2, NothingLost DEF CollectLive
  <2>5. OneWorkerInCharge'
    BY <1>2 DEF CollectLive, queue, OneWorkerInCharge, Alive
  <2> QED BY <2>2, <2>3, <2>4, <2>5
\* What remains: the callback answers, and leaves the queue alone.
<1>3. ASSUME UNCHANGED <<queue, chunks, gaps>>, Succeed \/ Retry,
             InFlight, firing' \in BOOLEAN, backlog' \in [Windows -> Row], NoWindowLost'
      PROVE  IInv'
  <2>1. window \in Windows
    BY <1>3 DEF InFlight, HandsAreTrue
  <2>2. /\ window' \in 1..(MaxWindow + 1) /\ passed' \subseteq Windows
        /\ scheduled' \in {"off", "on", "ending"} /\ live' \in {"idle", "retry"}
        /\ live' # "idle" => window' \in Windows
    <3>1. window' = window \/ window' = window + 1
      BY <1>3 DEF Succeed, Retry, Dropped
    <3>2. window' \in 1..(MaxWindow + 1)
      BY <2>1, <3>1, MaxWindowAssumption DEF Windows
    <3>3. live' = "idle" \/ (live' = "retry" /\ window' = window)
      BY <1>3 DEF Succeed, Retry, Dropped
    <3>4. passed' \subseteq Windows /\ scheduled' \in {"off", "on", "ending"}
      BY <1>0, <1>3, <2>1 DEF Succeed, Retry
    <3> QED BY <2>1, <3>2, <3>3, <3>4
  <2>3. TypeOK'
    BY <1>3, <2>2 DEF TypeOK, queue
  <2>4. HandsAreTrue'
    BY <1>3, <2>2 DEF HandsAreTrue, queue
  <2>5. OneWorkerInCharge'
    BY <1>3 DEF queue, OneWorkerInCharge, Alive
  <2> QED BY <1>3, <2>3, <2>4, <2>5
<1>4. ASSUME NEW ok \in BOOLEAN, ResolveLive(ok)
      PROVE  IInv'
  <2>1. window \in chunks
    BY <1>4 DEF ResolveLive, HandsAreTrue
  <2>2. NoWindowLost'
    BY <1>4, <2>1, NothingLost DEF ResolveLive, Succeed
  <2>3. firing' \in BOOLEAN /\ backlog' \in [Windows -> Row] /\ InFlight
    BY <1>0, <1>4 DEF ResolveLive, InFlight
  <2> QED BY <1>3, <1>4, <2>2, <2>3 DEF ResolveLive
<1>5. ASSUME NEW committed \in BOOLEAN, NEW answered \in BOOLEAN,
             EnqueueFailure(committed, answered)
      PROVE  IInv'
  <2>1. window \in Windows /\ InFlight
    BY <1>5 DEF EnqueueFailure, HandsAreTrue, InFlight
  <2>2. Enqueued(window) \in Row /\ Enqueued(window).state = "pending"
    BY <1>0, <2>1, RowTypes DEF Enqueued
  <2>3. /\ backlog' \in [Windows -> Row]
        /\ \A w \in Windows : \/ backlog'[w].state = backlog[w].state
                             \/ backlog'[w].state = "pending"
        /\ committed => backlog'[window].state = "pending"
    BY <1>0, <1>5, <2>1, <2>2, RowWritten DEF EnqueueFailure
  <2>4. Succeed \/ Retry
    BY <1>5 DEF EnqueueFailure, SettledBy
  <2>5. passed' = passed \/ (committed /\ passed' \subseteq passed \cup {window})
    BY <1>5 DEF EnqueueFailure, SettledBy, Succeed, Retry
  <2>6. NoWindowLost'
    <3> SUFFICES ASSUME NEW w \in Windows, w \in passed' \/ backlog'[w].state # "absent"
                 PROVE  \/ w \in chunks' \/ backlog'[w].state \in {"pending", "collecting"}
                        \/ backlog'[w].state = "expired"
      BY DEF NoWindowLost, Open, Windows
    <3>1. chunks' = chunks
      BY <1>5 DEF EnqueueFailure
    <3>2. w \in passed \/ backlog'[w].state = "pending" \/ w \notin passed'
      BY <2>3, <2>5
    <3> QED BY <2>3, <3>1, <3>2 DEF NoWindowLost, Open
  <2>7. firing' \in BOOLEAN /\ UNCHANGED <<queue, chunks, gaps>>
    BY <1>0, <1>5 DEF EnqueueFailure
  <2> QED BY <1>3, <2>1, <2>3, <2>4, <2>6, <2>7
<1> QED BY <1>1, <1>2, <1>4, <1>5 DEF CollectAlive

\* The passing of time changes no state of a row.
LEMMA TimeKeeps ==
  ASSUME IInv, NEW w \in Windows, Ripen(w) \/ Age(w)
  PROVE  IInv'
<1> USE DEF IInv
<1>1. backlog \in [Windows -> Row] /\ backlog[w] \in Row
  BY DEF TypeOK
<1>2. PICK r \in Row : backlog' = [backlog EXCEPT ![w] = r] /\ r.state = backlog[w].state
  <2>1. CASE Ripen(w)
    BY <1>1, <2>1, RowTypes DEF Ripen
  <2>2. CASE Age(w)
    BY <1>1, <2>2, RowTypes DEF Age
  <2> QED BY <2>1, <2>2
<1>3. backlog' \in [Windows -> Row] /\ \A v \in Windows : backlog'[v].state = backlog[v].state
  BY <1>1, <1>2, RowWritten
<1>4. UNCHANGED <<chunks, firing, gaps, schedule, queue>>
  BY DEF Ripen, Age
<1>5. TypeOK'
  BY <1>3, <1>4 DEF TypeOK, schedule, queue
<1>6. HandsAreTrue' /\ OneWorkerInCharge'
  BY <1>4 DEF HandsAreTrue, OneWorkerInCharge, Alive, schedule, queue
<1>7. NoWindowLost'
  BY <1>3, <1>4, NothingLost DEF schedule
<1> QED BY <1>5, <1>6, <1>7

\* A step of a goroutine.
LEMMA ProcessKeeps ==
  ASSUME IInv, NEW k \in Workers, Process(k)
  PROVE  IInv'
<1> DEFINE held == workers[k].window
           after(step) == IF step \in {"read", "wait", "resolve"} THEN None ELSE held
<1>0. /\ backlog \in [Windows -> Row] /\ workers \in [Workers -> Worker]
      /\ chunks \subseteq Windows /\ gaps \subseteq Windows
      /\ firing \in BOOLEAN /\ cancelled \in BOOLEAN
  BY DEF IInv, TypeOK
<1>1. held \in Windows \cup {None}
  BY <1>0 DEF Worker
\* A step that ends before the tables, or writes only the flag of the alert.
<1>2. ASSUME NEW step \in {"read", "wait", "resolve", "collect", "record", "gap"},
             To(k, step), Alive(k), step \in Holding => held \in Windows,
             firing' \in BOOLEAN, gaps' \subseteq Windows,
             UNCHANGED <<backlog, chunks, schedule, target, cancelled>>
      PROVE  IInv'
  <2>1. step \in Steps \ {"off"} /\ after(step) \in Windows \cup {None}
    BY <1>1 DEF Steps
  <2>2. step \in Holding => after(step) \in Windows
    BY <1>2 DEF Holding
  <2>3. workers' = Turned(k, step, after(step))
    BY <1>2 DEF To
  <2> HIDE DEF after
  <2> QED BY <1>0, <1>2, <2>1, <2>2, <2>3, PassKeeps
\* A step that writes the row in hand.
<1>3. ASSUME NEW step \in {"read", "wait", "collect", "record", "gap"}, NEW r \in Row,
             To(k, step), Alive(k), held \in Windows,
             backlog' = [backlog EXCEPT ![held] = r],
             r.state \in {"pending", "collecting", "expired"} \/ held \in chunks,
             UNCHANGED <<chunks, firing, gaps, schedule, target, cancelled>>
      PROVE  IInv'
  <2>1. step \in Steps \ {"off"} /\ after(step) \in Windows \cup {None}
    BY <1>1 DEF Steps
  <2>2. step \in Holding => after(step) \in Windows
    BY <1>3 DEF Holding
  <2>3. workers' = Turned(k, step, after(step))
    BY <1>3 DEF To
  <2>4. /\ backlog' \in [Windows -> Row]
        /\ \A w \in Windows : backlog'[w] = IF w = held THEN r ELSE backlog[w]
    BY <1>0, <1>3, RowWritten
  <2> HIDE DEF after, held
  <2> QED BY <1>0, <1>3, <2>1, <2>2, <2>3, <2>4, PassKeeps
<1>4. CASE Read(k)
  <2>1. Alive(k) /\ UNCHANGED <<tables, schedule, target, cancelled>>
    BY <1>4 DEF Read, At, Alive
  <2>2. CASE To(k, "resolve") \/ To(k, "wait")
    BY <1>0, <1>2, <2>1, <2>2 DEF Holding, tables
  <2>3. ASSUME NEW w \in Windows, workers' = Turned(k, StepFor(backlog[w]), w),
               StepFor(backlog[w]) # "wait"
        PROVE  IInv'
    <3>1. StepFor(backlog[w]) \in {"expire", "mark"}
      BY <2>3 DEF StepFor
    <3>2. StepFor(backlog[w]) \in Steps \ {"off"} /\ StepFor(backlog[w]) # "recovered"
      BY <3>1 DEF Steps
    <3> QED BY <1>0, <2>1, <2>3, <3>2, PassKeeps DEF tables
  <2> QED BY <1>4, <2>2, <2>3 DEF Read, EmptyStep
<1>5. CASE ReadFails(k) \/ WakeUp(k)
  BY <1>0, <1>2, <1>5 DEF ReadFails, WakeUp, At, Alive, Holding, tables
<1>6. CASE Return(k)
  <2>1. Off \in Worker /\ Off.step = "off"
    BY DEF Off, Worker, Steps
  <2>2. /\ workers' \in [Workers -> Worker]
        /\ \A j \in Workers : workers'[j] = IF j = k THEN Off ELSE workers[j]
    BY <1>0, <1>6, <2>1 DEF Return
  <2>3. TypeOK'
    BY <1>6, <2>2 DEF Return, IInv, TypeOK, tables, schedule
  <2>4. HandsAreTrue' /\ NoWindowLost'
    BY <1>6, <2>1, <2>2 DEF Return, IInv, HandsAreTrue, Holding, NoWindowLost, Open, tables, schedule
  <2>5. OneWorkerInCharge'
    BY <1>6, <2>1, <2>2 DEF Return, Ends, IInv, OneWorkerInCharge, Alive
  <2> QED BY <2>3, <2>4, <2>5 DEF IInv
<1>7. ASSUME NEW ok \in BOOLEAN, ResolveCollection(k, ok) \/ RecordCollectionFailure(k, ok)
      PROVE  IInv'
  BY <1>0, <1>2, <1>7
  DEF ResolveCollection, RecordCollectionFailure, At, Alive, Holding
<1>8. ASSUME NEW ok \in BOOLEAN, RecordGap(k, ok)
      PROVE  IInv'
  <2>1. held \in Windows /\ Alive(k)
    BY <1>8, InHand DEF RecordGap, At, Holding
  <2> QED BY <1>0, <1>2, <1>8, <2>1 DEF RecordGap, Holding
<1>9. ASSUME NEW ok \in BOOLEAN, MarkCollecting(k, ok)
      PROVE  IInv'
  <2>1. held \in Windows /\ Alive(k)
    BY <1>9, InHand DEF MarkCollecting, At, Holding
  <2>2. CASE ok
    <3> DEFINE r == [backlog[held] EXCEPT !.state = "collecting"]
    <3>1. r \in Row /\ r.state = "collecting"
      BY <1>0, <2>1, RowTypes
    <3>2. backlog' = [backlog EXCEPT ![held] = r]
      BY <1>9, <2>2 DEF MarkCollecting, Update
    <3> HIDE DEF r
    <3> QED BY <1>0, <1>3, <1>9, <2>1, <2>2, <3>1, <3>2 DEF MarkCollecting
  <2>3. CASE ~ok
    BY <1>0, <1>2, <1>9, <2>1, <2>3 DEF MarkCollecting
  <2> QED BY <2>2, <2>3
<1>10. ASSUME NEW ok \in BOOLEAN, MarkRecovered(k, ok)
       PROVE  IInv'
  <2>1. held \in Windows /\ Alive(k)
    BY <1>10, InHand DEF MarkRecovered, At, Holding
  <2>2. held \in chunks
    BY <1>10 DEF MarkRecovered, At, IInv, HandsAreTrue
  <2>3. CASE ok
    BY <1>0, <1>3, <1>10, <2>1, <2>2, <2>3, RowTypes DEF MarkRecovered, Update
  <2>4. CASE ~ok
    BY <1>0, <1>2, <1>10, <2>1, <2>4 DEF MarkRecovered
  <2> QED BY <2>3, <2>4
<1>11. ASSUME NEW ok \in BOOLEAN, Reschedule(k, ok)
       PROVE  IInv'
  <2>1. held \in Windows /\ Alive(k)
    BY <1>11, InHand DEF Reschedule, At, Holding
  <2>2. CASE ok
    <3> DEFINE r == [backlog[held] EXCEPT !.state = "pending", !.ready = FALSE]
    <3>1. r \in Row /\ r.state = "pending"
      BY <1>0, <2>1, RowTypes
    <3>2. backlog' = [backlog EXCEPT ![held] = r]
      BY <1>0, <1>11, <2>1, <2>2 DEF Reschedule
    <3> HIDE DEF r
    <3> QED BY <1>0, <1>3, <1>11, <2>1, <2>2, <3>1, <3>2 DEF Reschedule
  <2>3. CASE ~ok
    BY <1>0, <1>2, <1>11, <2>1, <2>3 DEF Reschedule
  <2> QED BY <2>2, <2>3
<1>12. ASSUME NEW ok \in BOOLEAN, ExpireWindow(k, ok)
       PROVE  IInv'
  <2>1. held \in Windows /\ Alive(k)
    BY <1>12, InHand DEF ExpireWindow, At, Holding
  <2>2. CASE ok
    <3> DEFINE r == [backlog[held] EXCEPT !.state = "expired"]
    <3>1. r \in Row /\ r.state = "expired"
      BY <1>0, <2>1, RowTypes
    <3>2. backlog' = [backlog EXCEPT ![held] = r]
      BY <1>12, <2>2 DEF ExpireWindow, Update
    <3> HIDE DEF r
    <3> QED BY <1>0, <1>3, <1>12, <2>1, <2>2, <3>1, <3>2 DEF ExpireWindow
  <2>3. CASE ~ok
    BY <1>0, <1>2, <1>12, <2>1, <2>3 DEF ExpireWindow
  <2> QED BY <2>2, <2>3
<1>13. ASSUME NEW written \in BOOLEAN, NEW submitted \in BOOLEAN,
              CollectWindow(k, written, submitted)
       PROVE  IInv'
  <2>1. held \in Windows /\ Alive(k)
    BY <1>13, InHand DEF CollectWindow, At, Holding
  <2>2. PICK step \in {"wait", "recovered", "failed"} :
          /\ To(k, step)
          /\ step = "recovered" => submitted
    BY <1>0, <1>13 DEF CollectWindow
  <2>3. chunks \subseteq chunks' /\ chunks' \subseteq Windows /\ (submitted => held \in chunks')
    BY <1>0, <1>13, <2>1 DEF CollectWindow
  <2>4. UNCHANGED <<backlog, firing, gaps, schedule, target, cancelled>>
    BY <1>13 DEF CollectWindow
  <2>5. step \in Steps \ {"off"} /\ after(step) \in Windows \cup {None}
    BY <1>1 DEF Steps
  <2>6. /\ step \in Holding => after(step) \in Windows
        /\ step = "recovered" => after(step) \in chunks'
    BY <2>1, <2>2, <2>3 DEF Holding
  <2>7. workers' = Turned(k, step, after(step))
    BY <2>2 DEF To
  <2> HIDE DEF after, held
  <2> QED BY <1>0, <2>1, <2>3, <2>4, <2>5, <2>6, <2>7, PassKeeps
<1> QED BY <1>4, <1>5, <1>6, <1>7, <1>8, <1>9, <1>10, <1>11, <1>12, <1>13 DEF Process

----------------------------------------------------------------------------
(* The theorems. *)

\* The invariant of the queue: types, what each goroutine has in hand, and the
\* two properties below, none of which is inductive without the others.
THEOREM QueueInvariant == Spec => []IInv
<1>1. IInv /\ [Next]_vars => IInv'
  <2> SUFFICES ASSUME IInv, [Next]_vars PROVE IInv'
    OBVIOUS
  <2>1. CASE Next
    BY <2>1, ControlKeeps, LiveKeeps, ProcessKeeps, TimeKeeps DEF Next
  <2>2. CASE UNCHANGED vars
    <3>1. UNCHANGED <<tables, schedule, queue>>
      BY <2>2 DEF vars
    <3>2. TypeOK'
      BY <3>1 DEF IInv, TypeOK, tables, schedule, queue
    <3>3. HandsAreTrue' /\ NoWindowLost' /\ OneWorkerInCharge'
      BY <3>1 DEF IInv, HandsAreTrue, NoWindowLost, Open, OneWorkerInCharge, Alive,
                  tables, schedule, queue
    <3> QED BY <3>2, <3>3 DEF IInv
  <2> QED BY <2>1, <2>2
<1> QED BY InitInv, <1>1, PTL DEF Spec

\* Every variable keeps its type.
THEOREM QueueTypeCorrect == Spec => []TypeOK
  BY QueueInvariant, PTL DEF IInv

\* Whatever statement fails and wherever the program crashes, a window that
\* the scheduler moved past, or that has a row, is collected, waits in the
\* backlog or has expired (collector.go Schedule, recovery.go EnqueueFailure
\* and processOne).
THEOREM WindowsAreKept == Spec => []NoWindowLost
  BY QueueInvariant, PTL DEF IInv

\* Of the goroutines of a service at most one has not been told to stop, and
\* it is the one that Register and Unregister know.
THEOREM OneGoroutineInCharge == Spec => []OneWorkerInCharge
  BY QueueInvariant, PTL DEF IInv

=============================================================================
