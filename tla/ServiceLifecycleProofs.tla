------------------------ MODULE ServiceLifecycleProofs ------------------------
(***************************************************************************)
(* Proofs, for any number of concurrent requests: the handlers of one      *)
(* service implement an atomic record (ServiceRegister), and between       *)
(* requests the registrations in memory are those of the row.              *)
(***************************************************************************)
EXTENDS ServiceLifecycle, SequenceTheorems, TLAPS

\* What a handler read is an earlier version of the row, or the row itself, with
\* its URL rendered: a revision identifies a version.
OldBase(r) ==
  /\ created
  /\ handler[r].expected <= handler[r].base.revision
  /\ handler[r].kind # "edit" => handler[r].config = handler[r].base.config
  /\ row # None => /\ handler[r].base.revision <= row.revision
                   /\ handler[r].base.revision = row.revision =>
                        handler[r].base = Presented(row)

RevisionsIdentify ==
  /\ row # None => created /\ row.generation <= row.revision
  /\ \A r \in Requests : Applying(r) => handler[r].todo # <<>>
  /\ \A r \in Requests : handler[r].step = "commit" => OldBase(r)

IInv == TypeOK /\ RevisionsIdentify

CommitHandler ==
  [step : {"commit"}, kind : Kinds, base : Version, expected : Revisions, config : Configs]

ApplyHandler == [step : {"apply"}, saved : Version, todo : Seq(Effects)]

USE BoundsAssumption, RenderedAssumption, FaultsAssumption, NoneAssumption

----------------------------------------------------------------------------
(* Handlers. *)

\* A handler is what its step says.
LEMMA HandlerKinds ==
  ASSUME NEW h \in Handler
  PROVE  /\ h.step = "idle" \/ h.step = "commit" \/ h.step = "apply"
         /\ h.step = "commit" => h \in CommitHandler
         /\ h.step = "apply" => h \in ApplyHandler
<1>1. \/ h \in [step : {"idle"}]
      \/ h \in CommitHandler
      \/ h \in ApplyHandler
  BY DEF Handler, CommitHandler, ApplyHandler
<1>2. CASE h \in [step : {"idle"}]
  BY <1>2
<1>3. CASE h \in CommitHandler
  BY <1>3 DEF CommitHandler
<1>4. CASE h \in ApplyHandler
  BY <1>4 DEF ApplyHandler
<1> QED BY <1>1, <1>2, <1>3, <1>4

\* One handler changes, the others stay.
LEMMA HandlerWritten ==
  ASSUME TypeOK, NEW r \in Requests, NEW h \in Handler, Become(r, h)
  PROVE  /\ handler' \in [Requests -> Handler]
         /\ \A o \in Requests : handler'[o] = IF o = r THEN h ELSE handler[o]
  BY DEF TypeOK, Become

LEMMA IdleIsHandler == Idle \in Handler /\ Idle.step = "idle"
  BY DEF Idle, Handler

\* The calls a handler makes are a sequence of effects.
LEMMA ScheduleTypes ==
  /\ Schedule \in Seq(Effects) /\ Schedule # <<>>
  /\ Append(Unschedule, "CloseService") \in Seq(Effects)
  /\ Append(Unschedule, "CloseService") # <<>>
  /\ <<"CloseService">> \in Seq(Effects)
  /\ \A todo \in Seq(Effects) : <<"CloseService">> \o todo \in Seq(Effects)
  BY DEF Schedule, Unschedule, Effects

\* What follows a transaction is one.
LEMMA FollowsType ==
  ASSUME NEW h, h.kind \in Kinds \ {"delete"}, NEW saved
  PROVE  Follows(h, saved) \in Seq(Effects)
<1> DEFINE reschedule == IF saved.paused THEN <<>> ELSE Schedule
<1>1. reschedule \in Seq(Effects)
  BY ScheduleTypes
<1>2. <<"CloseService">> \o reschedule \in Seq(Effects)
  BY <1>1, ScheduleTypes
<1> HIDE DEF reschedule
<1>3. h.kind \in {"pause", "resume", "edit", "reset"}
  BY DEF Kinds
<1>4. Follows(h, saved) \in {Append(Unschedule, "CloseService"), Schedule,
                             <<"CloseService">> \o reschedule, reschedule}
  BY <1>3 DEF Follows, reschedule
<1> QED BY <1>1, <1>2, <1>4, ScheduleTypes

\* After a transaction the handler applies it or is done.
LEMMA CommitKeeps ==
  ASSUME TypeOK, NEW r \in Requests, NEW saved \in Version, NEW todo \in Seq(Effects),
         Committed(r, saved, todo)
  PROVE  /\ handler' \in [Requests -> Handler]
         /\ astray' \in BOOLEAN
         /\ handler'[r].step # "commit"
         /\ Applying(r)' => handler'[r].todo # <<>>
         /\ \A o \in Requests \ {r} : handler'[o] = handler[o]
<1>1. ASSUME NEW next \in Handler, next.step # "commit",
             next.step = "apply" => next.todo # <<>>, Become(r, next)
      PROVE  /\ handler' \in [Requests -> Handler]
             /\ handler'[r].step # "commit"
             /\ Applying(r)' => handler'[r].todo # <<>>
             /\ \A o \in Requests \ {r} : handler'[o] = handler[o]
  <2>1. /\ handler' \in [Requests -> Handler]
        /\ \A o \in Requests : handler'[o] = IF o = r THEN next ELSE handler[o]
    BY <1>1, HandlerWritten
  <2> QED BY <1>1, <2>1 DEF Applying
<1>2. CASE Commit(r, saved, todo)
  <2> DEFINE next == IF todo = <<>> THEN Idle
                     ELSE [step |-> "apply", saved |-> saved, todo |-> todo]
  <2>1. /\ next \in Handler
        /\ next.step # "commit"
        /\ next.step = "apply" => next.todo # <<>>
    BY IdleIsHandler DEF Handler
  <2>2. Become(r, next) /\ astray' \in BOOLEAN
    BY <1>2 DEF Commit, TypeOK
  <2> HIDE DEF next
  <2> QED BY <1>1, <2>1, <2>2
<1>3. CASE LoseAnswer(r)
  <2>1. Become(r, Idle) /\ astray' \in BOOLEAN
    BY <1>3 DEF LoseAnswer, TypeOK
  <2> QED BY <1>1, <2>1, IdleIsHandler
<1> QED BY <1>2, <1>3 DEF Committed

----------------------------------------------------------------------------
(* Requests. *)

\* A handler that stays as it is, with the row, has read what it had.
LEMMA OthersKeep ==
  ASSUME UNCHANGED <<row, created>>, NEW o \in Requests, handler'[o] = handler[o], OldBase(o)
  PROVE  OldBase(o)'
  BY DEF OldBase, Presented

\* A read is of the row as it is.
LEMMA ReadKeeps ==
  ASSUME IInv, NEW r \in Requests, NEW kind \in Kinds, NEW config \in Configs,
         NEW expected \in Revisions, Read(r, kind, config, expected)
  PROVE  IInv'
<1> DEFINE base == Presented(row)
           next == [step |-> "commit", kind |-> kind, base |-> base,
                    expected |-> expected, config |-> config]
<1>1. row \in Version /\ row # None /\ expected <= row.revision
  BY DEF Read, IInv, TypeOK
<1>a. /\ base \in Version /\ base.revision = row.revision
      /\ base.config = Rendered[row.config]
  BY <1>1 DEF Version, Presented
<1> HIDE DEF base
<1>2. next \in Handler
  BY <1>a DEF Handler
<1>3. Become(r, next)
  BY DEF Read, base
<1>4. /\ handler' \in [Requests -> Handler]
      /\ \A o \in Requests : handler'[o] = IF o = r THEN next ELSE handler[o]
  <2> HIDE DEF next
  <2> QED BY <1>2, <1>3, HandlerWritten DEF IInv
<1>5. TypeOK'
  BY <1>4 DEF IInv, TypeOK, Read, scheduling, work, analyses
<1>6. UNCHANGED <<row, created>>
  BY DEF Read
<1>7. OldBase(r)'
  <2>1. /\ handler'[r].kind = kind /\ handler'[r].base = base
        /\ handler'[r].expected = expected /\ handler'[r].config = config
    BY <1>4
  <2>2. created /\ row.revision \in Nat /\ expected \in Nat
    BY <1>1 DEF IInv, RevisionsIdentify, Version, Revisions
  <2>3. kind # "edit" => config = base.config
    BY <1>a DEF Read
  <2>4. row' = row /\ created' = created /\ Presented(row)' = base
    BY <1>6 DEF base, Presented
  <2> QED BY <1>1, <1>a, <2>1, <2>2, <2>3, <2>4 DEF OldBase
<1>8. next.step = "commit"
  OBVIOUS
<1> HIDE DEF next
<1>9. \A o \in Requests \ {r} : handler'[o] = handler[o]
  BY <1>4
<1>10. RevisionsIdentify'
  BY <1>4, <1>6, <1>7, <1>8, <1>9, OthersKeep DEF IInv, RevisionsIdentify, Applying
<1> QED BY <1>5, <1>10 DEF IInv

\* A request that ends without a change.
LEMMA EndKeeps ==
  ASSUME IInv, NEW r \in Requests, Become(r, Idle), UNCHANGED <<row, created>>
  PROVE  handler' \in [Requests -> Handler] /\ RevisionsIdentify'
<1>1. /\ handler' \in [Requests -> Handler]
      /\ \A o \in Requests : handler'[o] = IF o = r THEN Idle ELSE handler[o]
  BY IdleIsHandler, HandlerWritten DEF IInv
<1>2. \A o \in Requests \ {r} : handler'[o] = handler[o]
  BY <1>1
<1>3. RevisionsIdentify'
  BY <1>1, <1>2, IdleIsHandler, OthersKeep DEF IInv, RevisionsIdentify, Applying
<1> QED BY <1>1, <1>3

LEMMA RefuseKeeps ==
  ASSUME IInv, NEW r \in Requests, Refuse(r), UNCHANGED created
  PROVE  IInv'
<1>1. Become(r, Idle) /\ UNCHANGED <<row, created, scheduling, work, firing, astray, lost>>
  BY DEF Refuse
<1>2. handler' \in [Requests -> Handler] /\ RevisionsIdentify'
  BY <1>1, EndKeeps
<1>3. TypeOK'
  BY <1>1, <1>2 DEF IInv, TypeOK, scheduling, work, analyses
<1> QED BY <1>2, <1>3 DEF IInv

\* A transaction that makes a later version, the first one, or none leaves what
\* other handlers have read an earlier version.
LEMMA NewVersionKeeps ==
  ASSUME IInv, NEW r \in Requests, NEW saved \in Version, NEW todo \in Seq(Effects),
         Committed(r, saved, todo), row' \in Version \cup {None}, created' = TRUE,
         \/ row' = None
         \/ row' # None /\ row # None /\ row'.revision = row.revision + 1
              /\ row'.generation <= row'.revision
         \/ row' # None /\ ~created /\ row'.revision = 1 /\ row'.generation = 1
  PROVE  IInv'
<1>1. /\ handler' \in [Requests -> Handler]
      /\ astray' \in BOOLEAN
      /\ handler'[r].step # "commit"
      /\ Applying(r)' => handler'[r].todo # <<>>
      /\ \A o \in Requests \ {r} : handler'[o] = handler[o]
  BY CommitKeeps DEF IInv
<1>2. TypeOK'
  <2>1. UNCHANGED <<scheduling, work, firing, lost>>
    BY DEF Committed
  <2> QED BY <1>1, <2>1 DEF IInv, TypeOK, scheduling, work, analyses
<1>3. row' # None => created' /\ row'.generation <= row'.revision
  BY DEF Version
<1>4. ASSUME NEW o \in Requests, handler'[o].step = "commit"
      PROVE  OldBase(o)'
  <2>1. o # r /\ handler'[o] = handler[o] /\ OldBase(o)
    BY <1>1, <1>4 DEF IInv, RevisionsIdentify
  <2>2. handler[o] \in CommitHandler
    BY <1>4, <2>1, HandlerKinds DEF IInv, TypeOK
  <2>3. handler[o].base \in Version /\ handler[o].base.revision \in Nat
    BY <2>2 DEF CommitHandler, Version, Revisions
  <2>4. row # None => row.revision \in Nat
    BY DEF IInv, TypeOK, Version, Revisions
  <2> QED BY <2>1, <2>3, <2>4 DEF OldBase
<1>5. RevisionsIdentify'
  BY <1>1, <1>3, <1>4 DEF IInv, RevisionsIdentify, Applying
<1> QED BY <1>2, <1>5 DEF IInv

\* The first version.
LEMMA CreateKeeps ==
  ASSUME IInv, NEW r \in Requests, NEW config \in Configs, Create(r, config)
  PROVE  IInv'
<1>1. /\ row' \in Version /\ row' # None /\ row'.revision = 1 /\ row'.generation = 1
      /\ ~created /\ created' = TRUE
  <2> DEFINE first == [revision |-> 1, generation |-> 1, paused |-> FALSE, config |-> config]
  <2>1. first \in Version /\ first.revision = 1 /\ first.generation = 1
    BY DEF Version, Revisions
  <2>2. row' = first /\ ~created /\ created' = TRUE
    BY DEF Create
  <2> HIDE DEF first
  <2> QED BY <2>1, <2>2
<1>2. Committed(r, row', Schedule)
  BY DEF Create
<1> QED BY <1>1, <1>2, ScheduleTypes, NewVersionKeeps

\* A transaction that meets the revision it expects meets the service that its
\* handler has read.
LEMMA CommitsOnBase ==
  ASSUME IInv, NEW r \in Requests, handler[r].step = "commit", Expected(handler[r])
  PROVE  /\ handler[r] \in CommitHandler
         /\ row \in Version /\ row # None /\ created
         /\ handler[r].base = Presented(row)
         /\ handler[r].base.paused = row.paused
         /\ handler[r].kind # "edit" => handler[r].config = Rendered[row.config]
<1>1. handler[r] \in CommitHandler /\ OldBase(r)
  BY HandlerKinds DEF IInv, TypeOK, RevisionsIdentify
<1>2. row \in Version /\ row # None /\ row.revision = handler[r].expected
  BY DEF Expected, IInv, TypeOK
<1>3. handler[r].base \in Version /\ handler[r].base.revision \in Nat /\ row.revision \in Nat
  BY <1>1, <1>2 DEF CommitHandler, Version, Revisions
<1>4. handler[r].base.revision = row.revision
  BY <1>1, <1>2, <1>3 DEF OldBase
<1>5. Presented(row).config = Rendered[row.config] /\ Presented(row).paused = row.paused
  BY <1>2 DEF Presented, Version
<1> QED BY <1>1, <1>2, <1>4, <1>5 DEF OldBase

\* What it writes is the next version.
LEMMA SavedIsNext ==
  ASSUME IInv, NEW h \in CommitHandler, row \in Version, row # None,
         row.revision < MaxRevision, h.base.paused = row.paused
  PROVE  /\ Saved(h) \in Version
         /\ Saved(h).revision = row.revision + 1
         /\ Saved(h).generation <= row.revision + 1
<1>1. /\ row.revision \in Nat /\ row.generation \in Nat \ {0} /\ row.paused \in BOOLEAN
      /\ row.generation <= row.revision
  BY DEF Version, Revisions, IInv, RevisionsIdentify
<1>2. h.config \in Configs /\ PausedOf(h) \in BOOLEAN
  BY <1>1 DEF CommitHandler, PausedOf
<1>3. row.revision + 1 \in Revisions
  BY <1>1 DEF Revisions
<1>4. /\ (IF Material(h) THEN row.generation + 1 ELSE row.generation) \in Revisions
      /\ (IF Material(h) THEN row.generation + 1 ELSE row.generation) <= row.revision + 1
  BY <1>1 DEF Revisions
<1> QED BY <1>2, <1>3, <1>4 DEF Saved, Version

LEMMA UpdateKeeps ==
  ASSUME IInv, NEW r \in Requests, UpdateService(r)
  PROVE  IInv'
<1>1. CASE Refuse(r)
  BY <1>1, RefuseKeeps DEF UpdateService
<1>2. CASE ~Refuse(r)
  <2>1. /\ handler[r].step = "commit" /\ handler[r].kind # "delete"
        /\ Expected(handler[r]) /\ row.revision < MaxRevision /\ row' = Saved(handler[r])
        /\ Committed(r, row', Follows(handler[r], row')) /\ UNCHANGED created
    BY <1>2 DEF UpdateService
  <2>2. /\ handler[r] \in CommitHandler /\ row \in Version /\ row # None /\ created
        /\ handler[r].base.paused = row.paused
    BY <2>1, CommitsOnBase
  <2>3. /\ row' \in Version /\ row'.revision = row.revision + 1
        /\ row'.generation <= row'.revision
    BY <2>1, <2>2, SavedIsNext
  <2>4. handler[r].kind \in Kinds \ {"delete"}
    BY <2>1, <2>2 DEF CommitHandler
  <2>5. Follows(handler[r], row') \in Seq(Effects)
    BY <2>4, FollowsType
  <2> QED BY <2>1, <2>2, <2>3, <2>5, NewVersionKeeps
<1> QED BY <1>1, <1>2

LEMMA DeleteKeeps ==
  ASSUME IInv, NEW r \in Requests, DeleteService(r)
  PROVE  IInv'
<1>1. CASE Refuse(r)
  BY <1>1, RefuseKeeps DEF DeleteService
<1>2. CASE ~Refuse(r)
  <2>1. /\ handler[r].step = "commit" /\ row' = None /\ UNCHANGED created
        /\ Committed(r, handler[r].base, Append(Unschedule, "CloseService"))
    BY <1>2 DEF DeleteService
  <2>2. handler[r].base \in Version /\ created
    BY <2>1, HandlerKinds DEF IInv, TypeOK, CommitHandler, RevisionsIdentify, OldBase
  <2> QED BY <2>1, <2>2, ScheduleTypes, NewVersionKeeps DEF IInv, TypeOK
<1> QED BY <1>1, <1>2

----------------------------------------------------------------------------
(* Calls and work. *)

\* A handler that makes its next call, or its last one.
LEMMA MakesKeeps ==
  ASSUME IInv, NEW r \in Requests, NEW effect, Makes(r, effect)
  PROVE  /\ handler' \in [Requests -> Handler]
         /\ RevisionsIdentify'
         /\ handler[r].saved \in Version
         /\ UNCHANGED <<row, created, backlog, failed, analyses, astray>>
<1> DEFINE rest == Tail(handler[r].todo)
           after == IF rest = <<>> THEN Idle ELSE [handler[r] EXCEPT !.todo = rest]
<1>1. handler[r] \in ApplyHandler /\ handler[r].todo # <<>>
  BY HandlerKinds DEF Makes, Applying, IInv, TypeOK, RevisionsIdentify
<1>2. rest \in Seq(Effects)
  BY <1>1 DEF ApplyHandler
<1>3. Become(r, after) /\ UNCHANGED <<row, created, backlog, failed, analyses, astray>>
  BY DEF Makes
<1> HIDE DEF rest
<1>4. [handler[r] EXCEPT !.todo = rest] \in ApplyHandler
  BY <1>1, <1>2 DEF ApplyHandler
<1>5. [handler[r] EXCEPT !.todo = rest].step = "apply" /\ [handler[r] EXCEPT !.todo = rest].todo = rest
  BY <1>1 DEF ApplyHandler
<1>6. after \in Handler /\ after.step # "commit" /\ (after.step = "apply" => after.todo # <<>>)
  BY <1>4, <1>5, IdleIsHandler DEF Handler, ApplyHandler
<1> HIDE DEF after
<1>7. /\ handler' \in [Requests -> Handler]
      /\ \A o \in Requests : handler'[o] = IF o = r THEN after ELSE handler[o]
  BY <1>3, <1>6, HandlerWritten DEF IInv
<1>8. \A o \in Requests \ {r} : handler'[o] = handler[o]
  BY <1>7
<1>9. RevisionsIdentify'
  BY <1>3, <1>6, <1>7, <1>8, OthersKeep DEF IInv, RevisionsIdentify, Applying
<1> QED BY <1>1, <1>3, <1>7, <1>9 DEF ApplyHandler

LEMMA CallKeeps ==
  ASSUME IInv, NEW r \in Requests, Call(r)
  PROVE  IInv'
<1> TypeOK
  BY DEF IInv
<1>1. ASSUME NEW effect, Makes(r, effect), target' \in Target \cup {None},
             callback' \in [Callbacks -> Version \cup {None}],
             flight' \in [Callbacks -> InFlight \cup {None}],
             removing' \subseteq Callbacks,
             goroutine' \in [Goroutines -> Goroutine \cup {None}],
             firing' \subseteq {"anomaly", "impaired", "collection", "gap"},
             lost' \subseteq Callbacks
      PROVE  IInv'
  BY <1>1, MakesKeeps DEF IInv, TypeOK, analyses
<1>2. CASE Register(r)
  <2>1. Makes(r, "Register") /\ handler[r].saved \in Version
    BY <1>2, MakesKeeps DEF Register
  <2>2. CASE target # None
    <3>1. [target EXCEPT !.service = handler[r].saved] \in Target
      BY <2>1, <2>2 DEF TypeOK, Target
    <3> QED BY <1>1, <1>2, <2>1, <2>2, <3>1 DEF Register, TypeOK
  <2>3. CASE target = None
    <3> DEFINE new == CHOOSE g \in {o \in Goroutines : goroutine[o] = None} : TRUE
    <3>1. new \in Goroutines
      BY <1>2, <2>3 DEF Register
    <3>2. target' = [service |-> handler[r].saved, goroutine |-> new]
          /\ goroutine' = [goroutine EXCEPT ![new] = Started]
      BY <1>2, <2>3 DEF Register
    <3> HIDE DEF new
    <3>3. target' \in Target /\ goroutine' \in [Goroutines -> Goroutine \cup {None}]
      BY <2>1, <3>1, <3>2 DEF TypeOK, Target, Goroutine, Started
    <3> QED BY <1>1, <1>2, <2>1, <3>3 DEF Register, TypeOK
  <2> QED BY <2>2, <2>3
<1>3. CASE Unregister(r)
  BY <1>1, <1>3 DEF Unregister, TypeOK
<1>4. ASSUME NEW k \in Callbacks, AddCallback(r, k)
      PROVE  IInv'
  <2>1. Makes(r, AddOf[k]) /\ handler[r].saved \in Version
    BY <1>4, MakesKeeps DEF AddCallback
  <2>2. callback' \in [Callbacks -> Version \cup {None}] /\ lost' \subseteq Callbacks
    BY <1>4, <2>1 DEF AddCallback, TypeOK
  <2> QED BY <1>1, <1>4, <2>1, <2>2 DEF AddCallback, TypeOK
<1>5. ASSUME NEW k \in Callbacks, RemoveCallback(r, k)
      PROVE  IInv'
  <2>1. Makes(r, RemoveOf[k]) /\ UNCHANGED <<target, goroutine, firing>>
    BY <1>5 DEF RemoveCallback
  <2>2. callback' \in [Callbacks -> Version \cup {None}] /\ lost' \subseteq Callbacks
    BY <1>5 DEF RemoveCallback, TypeOK
  <2>3. removing' \subseteq Callbacks
    BY <1>5 DEF RemoveCallback, TypeOK
  <2>4. flight' \in [Callbacks -> InFlight \cup {None}]
    <3>1. CASE flight[k] = None
      BY <1>5, <3>1 DEF RemoveCallback, TypeOK
    <3>2. CASE flight[k] # None
      <4>1. [flight[k] EXCEPT !.cancelled = TRUE] \in InFlight
        BY <3>2 DEF TypeOK, InFlight
      <4>2. flight' = [flight EXCEPT ![k] = [flight[k] EXCEPT !.cancelled = TRUE]]
        BY <1>5, <3>2 DEF RemoveCallback
      <4> QED BY <4>1, <4>2 DEF TypeOK
    <3> QED BY <3>1, <3>2
  <2> QED BY <1>1, <2>1, <2>2, <2>3, <2>4 DEF TypeOK
<1>6. ASSUME NEW ok \in BOOLEAN, CloseService(r, ok)
      PROVE  IInv'
  BY <1>1, <1>6 DEF CloseService, TypeOK, scheduling
<1> QED BY <1>2, <1>3, <1>4, <1>5, <1>6 DEF Call

\* The handlers, the row and its history stay.
LEMMA Untouched ==
  ASSUME RevisionsIdentify, UNCHANGED <<row, created, handler>>
  PROVE  RevisionsIdentify'
  BY DEF RevisionsIdentify, OldBase, Presented, Applying

\* Submit never exceeds the queue.
LEMMA SubmitKeeps ==
  ASSUME NEW g \in Revisions, queue \in Seq(Revisions), Len(queue) <= QueueCapacity, Submit(g)
  PROVE  queue' \in Seq(Revisions) /\ Len(queue') <= QueueCapacity
  BY DEF Submit

\* The loop takes a completion.
LEMMA ReturnsKeeps ==
  ASSUME IInv, NEW k \in Callbacks, Returns(k)
  PROVE  /\ callback' \in [Callbacks -> Version \cup {None}]
         /\ flight' \in [Callbacks -> InFlight \cup {None}]
         /\ removing' \subseteq Callbacks
         /\ flight[k] \in InFlight
         /\ RevisionsIdentify'
<1>1. UNCHANGED <<row, created, handler>>
  BY DEF Returns
<1>2. RevisionsIdentify'
  BY <1>1, Untouched DEF IInv
<1> QED BY <1>2 DEF Returns, IInv, TypeOK

LEMMA InvocationsKeep ==
  ASSUME IInv, Live \/ Build \/ \E k \in Callbacks : Start(k)
  PROVE  IInv'
<1> TypeOK
  BY DEF IInv
<1>1. ASSUME NEW k \in Callbacks, Start(k)
      PROVE  IInv'
  <2>1. RevisionsIdentify'
    BY <1>1, Untouched DEF IInv, Start
  <2>2. callback[k] \in Version /\ callback[k].generation \in Revisions
    BY <1>1 DEF Start, TypeOK, Version
  <2>3. flight' \in [Callbacks -> InFlight \cup {None}]
    BY <1>1, <2>2 DEF Start, TypeOK, InFlight
  <2>4. TypeOK'
    BY <1>1, <2>3 DEF Start, TypeOK, scheduling, analyses
  <2> QED BY <2>1, <2>4 DEF IInv
<1>2. "collect" \in Callbacks /\ "build" \in Callbacks
  BY DEF Callbacks
<1>3. CASE CollectLive
  <2>1. Returns("collect")
    BY <1>3 DEF CollectLive
  <2>2. live.generation \in Revisions
    BY <1>2, <2>1, ReturnsKeeps DEF live, InFlight
  <2>3. queue' \in Seq(Revisions) /\ Len(queue') <= QueueCapacity
    BY <1>3, <2>2, SubmitKeeps DEF CollectLive, TypeOK
  <2>4. firing' \subseteq {"anomaly", "impaired", "collection", "gap"}
    BY <1>3 DEF CollectLive, TypeOK
  <2>5. UNCHANGED <<row, created, handler, target, goroutine, backlog, failed, history,
                    analysing, astray, lost>>
    BY <1>3 DEF CollectLive, Returns
  <2> QED BY <1>2, <2>1, <2>3, <2>4, <2>5, ReturnsKeeps DEF IInv, TypeOK
<1>4. ASSUME NEW enqueued \in BOOLEAN, FailLive(enqueued)
      PROVE  IInv'
  <2>1. Returns("collect") /\ UNCHANGED queue
    BY <1>4 DEF FailLive
  <2>2. /\ backlog' \subseteq Windows /\ failed' \in 0..MaxFailures
        /\ firing' \subseteq {"anomaly", "impaired", "collection", "gap"}
    <3>1. CASE enqueued
      <4>1. /\ failed < MaxFailures /\ failed' = failed + 1 /\ backlog' = backlog \cup {failed'}
            /\ firing' = firing \cup {"collection"}
        BY <1>4, <3>1 DEF FailLive
      <4>2. failed' \in 0..MaxFailures /\ failed' \in Windows
        BY <4>1 DEF TypeOK, Windows
      <4> QED BY <4>1, <4>2 DEF TypeOK
    <3>2. CASE ~enqueued
      BY <1>4, <3>2 DEF FailLive, TypeOK
    <3> QED BY <3>1, <3>2
  <2>3. UNCHANGED <<row, created, handler, target, goroutine, history, analysing, astray, lost>>
    BY <2>1 DEF Returns
  <2> QED BY <1>2, <2>1, <2>2, <2>3, ReturnsKeeps DEF IInv, TypeOK
<1>5. CASE Build
  <2>1. Returns("build") /\ UNCHANGED <<backlog, failed, queue, firing>>
    BY <1>5 DEF Build
  <2>2. UNCHANGED <<row, created, handler, target, goroutine, history, analysing, astray, lost>>
    BY <2>1 DEF Returns
  <2> QED BY <1>2, <2>1, <2>2, ReturnsKeeps DEF IInv, TypeOK
<1> QED BY <1>1, <1>3, <1>4, <1>5 DEF Live

\* A goroutine that goes somewhere, and what it does to the backlog.
LEMMA GoesKeeps ==
  ASSUME IInv, NEW g \in Goroutines, NEW place, NEW window, Goes(g, place, window),
         [place |-> place, window |-> window] \in Goroutine,
         backlog' \subseteq Windows, history' \in 0..QueueCapacity,
         firing' \subseteq {"anomaly", "impaired", "collection", "gap"}
  PROVE  IInv'
<1> TypeOK
  BY DEF IInv
<1>1. /\ goroutine' = [goroutine EXCEPT ![g] = [place |-> place, window |-> window]]
      /\ UNCHANGED <<row, created, handler, target, callback, flight, removing, failed,
                     queue, analysing, astray, lost>>
  BY DEF Goes, scheduling
<1>2. goroutine' \in [Goroutines -> Goroutine \cup {None}]
  BY <1>1 DEF TypeOK
<1>3. RevisionsIdentify'
  BY <1>1, Untouched DEF IInv
<1>4. TypeOK'
  BY <1>1, <1>2 DEF TypeOK
<1> QED BY <1>3, <1>4 DEF IInv

LEMMA Places ==
  /\ [place |-> "look", window |-> 0] \in Goroutine
  /\ [place |-> "wait", window |-> 0] \in Goroutine
  /\ \A w \in Windows : [place |-> "collect", window |-> w] \in Goroutine
  BY DEF Goroutine

LEMMA InHandIsWindow ==
  ASSUME TypeOK, NEW g \in Goroutines, At(g, "collect")
  PROVE  goroutine[g].window \in Windows
<1>1. goroutine[g] \in Goroutine /\ goroutine[g].place = "collect"
  BY DEF At, TypeOK
<1>2. goroutine[g] \in [place : {"collect"}, window : Windows]
  BY <1>1 DEF Goroutine
<1> QED BY <1>2

LEMMA RecoveryKeeps ==
  ASSUME IInv, NEW g \in Goroutines, Recovery(g)
  PROVE  IInv'
<1> TypeOK
  BY DEF IInv
<1>1. ASSUME NEW ok \in BOOLEAN, NothingOpen(g, ok)
      PROVE  IInv'
  BY <1>1, GoesKeeps, Places DEF NothingOpen, TypeOK
<1>2. CASE TakeWindow(g)
  BY <1>2, GoesKeeps, Places DEF TakeWindow, TypeOK
<1>3. CASE Defer(g)
  BY <1>3, GoesKeeps, Places DEF Defer, TypeOK
<1>4. CASE Expire(g)
  BY <1>4, GoesKeeps, Places DEF Expire, TypeOK
<1>5. CASE Recover(g)
  <2>1. history' \in 0..QueueCapacity /\ firing' = firing
    BY <1>5 DEF Recover, TypeOK
  <2>2. backlog' \subseteq Windows
    BY <1>5 DEF Recover, TypeOK
  <2>3. Goes(g, "look", 0) \/ Goes(g, "wait", 0)
    BY <1>5 DEF Recover
  <2> QED BY <2>1, <2>2, <2>3, GoesKeeps, Places DEF TypeOK
<1>6. CASE FailRecovery(g)
  <2>1. backlog' \subseteq Windows
    BY <1>6, InHandIsWindow DEF FailRecovery, TypeOK
  <2> QED BY <1>6, <2>1, GoesKeeps, Places DEF FailRecovery, TypeOK
<1>7. CASE WakeUp(g)
  BY <1>7, GoesKeeps, Places DEF WakeUp, TypeOK
<1>8. CASE Return(g)
  <2>1. RevisionsIdentify'
    BY <1>8, Untouched DEF IInv, Return
  <2>2. TypeOK'
    BY <1>8 DEF Return, TypeOK, scheduling, analyses
  <2> QED BY <2>1, <2>2 DEF IInv
<1> QED BY <1>1, <1>2, <1>3, <1>4, <1>5, <1>6, <1>7, <1>8 DEF Recovery, Process

\* A goroutine changes neither the row nor the schedule nor what is in flight.
LEMMA RecoveryAlone ==
  ASSUME NEW g \in Goroutines, Recovery(g)
  PROVE  UNCHANGED <<row, created, handler, target, callback, flight, removing, queue,
                     analysing, astray, lost>>
<1>1. ASSUME NEW place, NEW window, Goes(g, place, window)
      PROVE  UNCHANGED <<row, created, handler, target, callback, flight, removing, queue,
                         analysing, astray, lost>>
  BY <1>1 DEF Goes, scheduling
<1>2. CASE Process(g) \/ WakeUp(g)
  BY <1>1, <1>2 DEF Process, WakeUp, NothingOpen, TakeWindow, Defer, Expire, Recover, FailRecovery
<1>3. CASE Return(g)
  BY <1>3 DEF Return, scheduling, analyses
<1> QED BY <1>2, <1>3 DEF Recovery

LEMMA AnalysisKeeps ==
  ASSUME IInv, Analysis
  PROVE  IInv'
<1> TypeOK
  BY DEF IInv
<1>1. AnalysisStep
  BY DEF Analysis, StartAnalysis, StartHistorical, FinishAnalysis
<1>2. RevisionsIdentify'
  BY <1>1, Untouched DEF IInv, AnalysisStep
<1>3. UNCHANGED <<row, created, handler, target, callback, flight, removing, goroutine,
                  backlog, failed, astray, lost>>
  BY <1>1 DEF AnalysisStep, scheduling
<1>4. ASSUME queue' \in Seq(Revisions), Len(queue') <= QueueCapacity,
             history' \in 0..QueueCapacity,
             analysing' \in {"test", "impaired", "historical", None},
             firing' \subseteq {"anomaly", "impaired", "collection", "gap"}
      PROVE  IInv'
  BY <1>2, <1>3, <1>4 DEF IInv, TypeOK
<1>5. CASE StartAnalysis
  <2>1. queue' \in Seq(Revisions) /\ Len(queue') <= QueueCapacity
    BY <1>5 DEF StartAnalysis, TypeOK
  <2>2. Check(Head(queue)) \in {"test", "impaired", None}
    BY DEF Check
  <2> QED BY <1>4, <1>5, <2>1, <2>2 DEF StartAnalysis, TypeOK
<1>6. CASE StartHistorical
  BY <1>4, <1>6 DEF StartHistorical, TypeOK
<1>7. ASSUME NEW result \in Results, FinishAnalysis(result)
      PROVE  IInv'
  <2>1. firing' \subseteq {"anomaly", "impaired", "collection", "gap"}
    BY <1>7 DEF FinishAnalysis, Results, TypeOK
  <2> QED BY <1>4, <1>7, <2>1 DEF FinishAnalysis, TypeOK
<1> QED BY <1>5, <1>6, <1>7 DEF Analysis

LEMMA RestartKeeps ==
  ASSUME IInv, Restart
  PROVE  IInv'
<1> TypeOK
  BY DEF IInv
<1>1. handler' \in [Requests -> Handler] /\ \A r \in Requests : handler'[r].step = "idle"
  BY IdleIsHandler DEF Restart
<1>2. Wanted \in Version \cup {None} /\ (Active => row \in Version)
  BY DEF Wanted, Active, TypeOK
<1>3. queue' \in Seq(Revisions) /\ Len(queue') <= QueueCapacity /\ history' \in 0..QueueCapacity
  BY DEF Restart
<1>4. target' \in Target \cup {None} /\ goroutine' \in [Goroutines -> Goroutine \cup {None}]
  <2> DEFINE new == CHOOSE g \in Goroutines : TRUE
  <2>1. new \in Goroutines
    OBVIOUS
  <2>2. IF Active
          THEN /\ target' = [service |-> row, goroutine |-> new]
               /\ goroutine' = [NoGoroutines EXCEPT ![new] = Started]
          ELSE target' = None /\ goroutine' = NoGoroutines
    BY DEF Restart
  <2> HIDE DEF new
  <2>3. Started \in Goroutine
    BY Places DEF Started
  <2> QED BY <1>2, <2>1, <2>2, <2>3 DEF Target, NoGoroutines
<1>5. TypeOK'
  BY <1>1, <1>2, <1>3, <1>4 DEF Restart, TypeOK
<1>6. RevisionsIdentify'
  BY <1>1 DEF IInv, RevisionsIdentify, Restart, Applying
<1> QED BY <1>5, <1>6 DEF IInv

\* The invariant holds of any number of requests that interleave, and of
\* restarts: every record is typed and within its bounds, and what a request in
\* hand has read is an older version of the row or the row itself.
THEOREM LifecycleInvariant == Spec => []IInv
<1>1. Init => IInv
  <2> SUFFICES ASSUME Init
               PROVE  IInv
    OBVIOUS
  <2>1. handler \in [Requests -> Handler] /\ \A r \in Requests : handler[r].step = "idle"
    BY IdleIsHandler DEF Init
  <2>2. queue \in Seq(Revisions) /\ Len(queue) <= QueueCapacity
    BY DEF Init
  <2>3. 0 \in 0..MaxFailures /\ 0 \in 0..QueueCapacity
    OBVIOUS
  <2>4. TypeOK
    BY <2>1, <2>2, <2>3 DEF Init, TypeOK, NoGoroutines
  <2>5. RevisionsIdentify
    BY <2>1 DEF Init, RevisionsIdentify, Applying
  <2> QED BY <2>4, <2>5 DEF IInv
<1>2. IInv /\ [Next]_vars => IInv'
  <2> SUFFICES ASSUME IInv, [Next]_vars
               PROVE  IInv'
    OBVIOUS
  <2>1. ASSUME NEW r \in Requests, Serve(r)
        PROVE  IInv'
    <3>1. CASE \E config \in Configs : Create(r, config)
      BY <3>1, CreateKeeps
    <3>2. CASE \E kind \in Kinds, config \in Configs, expected \in Revisions :
                 Read(r, kind, config, expected)
      BY <3>2, ReadKeeps
    <3> QED BY <2>1, <3>1, <3>2, UpdateKeeps, DeleteKeeps, CallKeeps DEF Serve
  <2>2. CASE UNCHANGED vars
    <3>1. RevisionsIdentify'
      BY <2>2, Untouched DEF IInv, vars
    <3> QED BY <2>2, <3>1 DEF IInv, TypeOK, vars, scheduling, work, analyses
  <2> QED BY <2>1, <2>2, InvocationsKeep, RecoveryKeeps, AnalysisKeeps, RestartKeeps DEF Next
<1> QED BY <1>1, <1>2, PTL DEF Spec

\* Handlers, schedule, work in hand and alerts keep their types; the analysis
\* queue never exceeds its capacity.
THEOREM LifecycleTypeCorrect == Spec => []TypeOK
  BY LifecycleInvariant, PTL DEF IInv

----------------------------------------------------------------------------
(* Refinement. *)

\* A transaction that meets its revision is one step of the record.
LEMMA CommitIsAtomic ==
  ASSUME IInv, NEW r \in Requests, handler[r].step = "commit", handler[r].kind # "delete",
         Expected(handler[r]), row.revision < MaxRevision,
         row' = Saved(handler[r]), UNCHANGED created
  PROVE  Atomic!Next
<1> DEFINE h == handler[r]
<1>1. /\ h \in CommitHandler /\ row \in Version /\ row # None
      /\ h.base.paused = row.paused
      /\ h.kind # "edit" => h.config = Rendered[row.config]
  BY CommitsOnBase
<1>2. row' = Saved(h) /\ h.kind \in {"pause", "resume", "edit", "reset"} /\ h.config \in Configs
  BY <1>1 DEF CommitHandler, Kinds
<1> HIDE DEF h
<1>3. row.config \in Configs /\ row.paused \in BOOLEAN
  BY <1>1 DEF Version
<1>4. ASSUME NEW material, material = Material(h)
      PROVE  Atomic!Becomes(material, PausedOf(h), h.config)
  BY <1>1, <1>2, <1>4 DEF Saved, Atomic!Becomes, Atomic!Exists
<1>5. CASE h.kind \in {"pause", "resume"}
  <2>1. Material(h) = (h.config # row.config) /\ PausedOf(h) = (h.kind = "pause")
    BY <1>5 DEF Material, PausedOf
  <2>2. Atomic!Switch(h.kind = "pause")
    BY <1>1, <1>4, <1>5, <2>1 DEF Atomic!Switch, Atomic!Written
  <2> QED BY <2>2 DEF Atomic!Next
<1>6. CASE h.kind = "reset"
  <2>1. Material(h) = TRUE /\ PausedOf(h) = row.paused
    BY <1>1, <1>6 DEF Material, PausedOf
  <2>2. Atomic!ResetBaseline
    BY <1>1, <1>4, <1>6, <2>1 DEF Atomic!ResetBaseline
  <2> QED BY <2>2 DEF Atomic!Next
<1>7. CASE h.kind = "edit"
  <2>1. Material(h) = (h.config # row.config) /\ PausedOf(h) = row.paused
    BY <1>1, <1>7 DEF Material, PausedOf
  <2>2. Atomic!Edit(h.config)
    BY <1>4, <2>1 DEF Atomic!Edit, Atomic!Written
  <2> QED BY <1>2, <2>2 DEF Atomic!Next
<1> QED BY <1>2, <1>5, <1>6, <1>7

\* Every step is a step of the record, or leaves it alone.
LEMMA StepIsAtomic ==
  ASSUME IInv, [Next]_vars
  PROVE  [Atomic!Next]_<<row, created>>
<1>1. ASSUME NEW r \in Requests, NEW config \in Configs, Create(r, config)
      PROVE  Atomic!Next
  <2>1. row = None /\ Atomic!Create(config)
    BY <1>1 DEF Create, Atomic!Create, IInv, RevisionsIdentify
  <2> QED BY <2>1 DEF Atomic!Next
<1>2. ASSUME NEW r \in Requests, UpdateService(r)
      PROVE  [Atomic!Next]_<<row, created>>
  <2>1. CASE Refuse(r)
    BY <1>2, <2>1 DEF UpdateService, Refuse
  <2>2. CASE ~Refuse(r)
    BY <1>2, <2>2, CommitIsAtomic DEF UpdateService
  <2> QED BY <2>1, <2>2
<1>3. ASSUME NEW r \in Requests, DeleteService(r)
      PROVE  [Atomic!Next]_<<row, created>>
  <2>1. CASE ~Refuse(r)
    <3>1. Atomic!Delete
      BY <1>3, <2>1 DEF DeleteService, Atomic!Delete, Atomic!Exists
    <3> QED BY <3>1 DEF Atomic!Next
  <2>2. CASE Refuse(r)
    BY <1>3, <2>2 DEF DeleteService, Refuse
  <2> QED BY <2>1, <2>2
<1>4. ASSUME NEW r \in Requests, Call(r)
      PROVE  UNCHANGED <<row, created>>
  BY <1>4 DEF Call, Register, Unregister, AddCallback, RemoveCallback, CloseService, Makes
<1>5. ASSUME NEW r \in Requests, Serve(r)
      PROVE  [Atomic!Next]_<<row, created>>
  <2>1. CASE \E config \in Configs : Create(r, config)
    BY <1>1, <2>1
  <2>2. CASE \E kind \in Kinds, config \in Configs, expected \in Revisions :
               Read(r, kind, config, expected)
    BY <2>2 DEF Read
  <2> QED BY <1>2, <1>3, <1>4, <1>5, <2>1, <2>2 DEF Serve
<1>6. CASE Live \/ Build \/ \E k \in Callbacks : Start(k)
  BY <1>6 DEF Start, Live, Build, CollectLive, FailLive, Returns
<1>7. ASSUME NEW g \in Goroutines, Recovery(g)
      PROVE  UNCHANGED <<row, created>>
  BY <1>7, RecoveryAlone
<1>8. CASE Analysis
  BY <1>8 DEF Analysis, StartAnalysis, StartHistorical, FinishAnalysis, AnalysisStep
<1>9. CASE Restart
  BY <1>9 DEF Restart
<1>10. CASE UNCHANGED vars
  BY <1>10 DEF vars
<1> QED BY <1>5, <1>6, <1>7, <1>8, <1>9, <1>10 DEF Next

\* However requests interleave and the process restarts, the row of a service
\* changes as if each request were one atomic step on the latest version
\* (the optimistic revisions of updateService): no lost update.
THEOREM RequestsAreAtomic == Spec => ImplementsServiceRegister
<1>1. Init => Atomic!Init
  BY DEF Init, Atomic!Init
<1>2. IInv /\ [Next]_vars => [Atomic!Next]_<<row, created>>
  BY StepIsAtomic
<1> QED BY <1>1, <1>2, LifecycleInvariant, PTL DEF Spec, ImplementsServiceRegister, Atomic!RegisterSpec

----------------------------------------------------------------------------
(* The registrations of a service follow its row: whatever the handlers    *)
(* have left to do leads to the schedule that the row asks for, unless     *)
(* their calls overlapped or were never made.                              *)

EffectsOf(todo) == {todo[i] : i \in DOMAIN todo}

\* The calls r has left to make.
ToMake(r) == IF Applying(r) THEN EffectsOf(handler[r].todo) ELSE {}

Adding   == {"Register", "AddCollect", "AddBuild"}
Removing == {"Unregister", "RemoveCollect", "RemoveBuild"}

\* The calls on one callback.
Setting(k) == {AddOf[k], RemoveOf[k]}

\* No handler has one of these calls left.
Made(effects) == \A r \in Requests : ToMake(r) \cap effects = {}

\* What is left to do leads to the schedule of the row, and what is done has it.
LeadsToRow ==
  /\ \A r \in Requests :
       /\ ToMake(r) \cap Adding # {} => Active /\ handler[r].saved = row
       /\ ToMake(r) \cap Removing # {} => ~Active
  /\ Made({"Register", "Unregister"}) => Registered = Wanted
  /\ \A k \in Callbacks : Made(Setting(k)) /\ k \notin lost => callback[k] = Wanted

\* A removal in flight takes the callback with it, and there is none to take.
RemovalIsDone == \A k \in removing \ lost : callback[k] = None

Follow == RemovalIsDone /\ (~astray => LeadsToRow)

----------------------------------------------------------------------------
(* The calls of the handlers. *)

LEMMA EffectsOfConcat ==
  ASSUME NEW s \in Seq(Effects), NEW t \in Seq(Effects)
  PROVE  EffectsOf(s \o t) = EffectsOf(s) \cup EffectsOf(t)
<1>1. /\ Len(s) \in Nat /\ Len(t) \in Nat
      /\ DOMAIN s = 1..Len(s) /\ DOMAIN t = 1..Len(t)
      /\ DOMAIN (s \o t) = 1..(Len(s) + Len(t))
      /\ \A i \in 1..(Len(s) + Len(t)) :
           (s \o t)[i] = IF i <= Len(s) THEN s[i] ELSE t[i - Len(s)]
  OBVIOUS
<1>2. \A i \in DOMAIN (s \o t) : (s \o t)[i] \in EffectsOf(s) \cup EffectsOf(t)
  BY <1>1 DEF EffectsOf
<1>3. \A i \in DOMAIN s : s[i] \in EffectsOf(s \o t)
  BY <1>1 DEF EffectsOf
<1>4. \A i \in DOMAIN t : t[i] \in EffectsOf(s \o t)
  <2>1. ASSUME NEW i \in DOMAIN t
        PROVE  i + Len(s) \in DOMAIN (s \o t) /\ (s \o t)[i + Len(s)] = t[i]
    BY <1>1
  <2> QED BY <2>1 DEF EffectsOf
<1> QED BY <1>2, <1>3, <1>4 DEF EffectsOf

LEMMA ScheduleEffects ==
  /\ EffectsOf(Schedule) = Adding
  /\ EffectsOf(<<"CloseService">> \o Schedule) = Adding \cup {"CloseService"}
  /\ EffectsOf(Append(Unschedule, "CloseService")) = Removing \cup {"CloseService"}
  /\ EffectsOf(<<"CloseService">>) = {"CloseService"}
  /\ EffectsOf(<<>>) = {}
<1>1. /\ EffectsOf(Schedule) = Adding /\ EffectsOf(Unschedule) = Removing
      /\ EffectsOf(<<"CloseService">>) = {"CloseService"} /\ EffectsOf(<<>>) = {}
  BY DEF Schedule, Unschedule, EffectsOf, Adding, Removing
<1>2. /\ Schedule \in Seq(Effects) /\ Unschedule \in Seq(Effects)
      /\ <<"CloseService">> \in Seq(Effects)
  BY DEF Schedule, Unschedule, Effects
<1>3. Append(Unschedule, "CloseService") = Unschedule \o <<"CloseService">>
  BY <1>2, AppendIsConcat DEF Effects
<1>4. EffectsOf(<<"CloseService">> \o Schedule) = {"CloseService"} \cup Adding
  BY <1>1, <1>2, EffectsOfConcat
<1>5. EffectsOf(Unschedule \o <<"CloseService">>) = Removing \cup {"CloseService"}
  BY <1>1, <1>2, EffectsOfConcat
<1> QED BY <1>1, <1>3, <1>4, <1>5

\* The calls on the queue and on each callback are different ones.
LEMMA SettingTypes ==
  ASSUME NEW k \in Callbacks
  PROVE  /\ AddOf[k] \in Adding /\ RemoveOf[k] \in Removing
         /\ Setting(k) \cap {"Register", "Unregister", "CloseService"} = {}
         /\ \A o \in Callbacks \ {k} : Setting(k) \cap Setting(o) = {}
         /\ Setting(k) \cap Adding # {} /\ Setting(k) \cap Removing # {}
<1>1. /\ AddOf["collect"] = "AddCollect" /\ RemoveOf["collect"] = "RemoveCollect"
      /\ AddOf["build"] = "AddBuild" /\ RemoveOf["build"] = "RemoveBuild"
  BY DEF AddOf, RemoveOf
<1> QED BY <1>1 DEF Callbacks, Setting, Adding, Removing

\* r has set out to change the schedule.
LEMMA SetsIsToMake ==
  ASSUME NEW r \in Requests
  PROVE  Applying(r) /\ SetsSchedule(handler[r].todo) <=> ToMake(r) \ {"CloseService"} # {}
BY DEF SetsSchedule, ToMake, EffectsOf

LEMMA CommitMakes ==
  ASSUME IInv, NEW r \in Requests, NEW saved \in Version, NEW todo \in Seq(Effects),
         Commit(r, saved, todo)
  PROVE  /\ ToMake(r)' = EffectsOf(todo)
         /\ todo # <<>> => handler'[r].saved = saved
         /\ \A o \in Requests \ {r} : handler'[o] = handler[o] /\ ToMake(o)' = ToMake(o)
<1> DEFINE next == IF todo = <<>> THEN Idle
                   ELSE [step |-> "apply", saved |-> saved, todo |-> todo]
<1>1. handler' = [handler EXCEPT ![r] = next] /\ handler \in [Requests -> Handler]
  BY DEF Commit, Become, IInv, TypeOK
<1>2. handler'[r] = next /\ \A o \in Requests \ {r} : handler'[o] = handler[o]
  BY <1>1
<1>3. \A o \in Requests \ {r} : ToMake(o)' = ToMake(o)
  BY <1>2 DEF ToMake, Applying
<1>4. CASE todo = <<>>
  BY <1>2, <1>3, <1>4, ScheduleEffects, IdleIsHandler DEF ToMake, Applying, Idle
<1>5. CASE todo # <<>>
  BY <1>2, <1>3, <1>5 DEF ToMake, Applying
<1> QED BY <1>4, <1>5

\* A change that leaves the wanted schedule as it is, by a handler that has
\* nothing left to do: a read, the end of a request, a lost answer.
LEMMA NothingToMake ==
  ASSUME IInv, Follow, NEW r \in Requests, NEW next,
         ~Applying(r), next.step # "apply", Become(r, next),
         astray \/ Wanted' # Wanted => astray',
         UNCHANGED <<scheduling, removing, lost>>
  PROVE  Follow'
<1>1. \A o \in Requests : handler'[o] = IF o = r THEN next ELSE handler[o]
  BY DEF Become, IInv, TypeOK
<1>2. \A o \in Requests : ToMake(o)' = ToMake(o)
  BY <1>1 DEF ToMake, Applying
<1>3. \A o \in Requests : ToMake(o) # {} => handler'[o] = handler[o]
  BY <1>1 DEF ToMake
<1>4. UNCHANGED <<target, callback, removing, lost>>
  BY DEF scheduling
<1>5. RemovalIsDone'
  BY <1>4 DEF Follow, RemovalIsDone
<1>6. ASSUME ~astray'
      PROVE  LeadsToRow'
  <2>1. LeadsToRow /\ Wanted' = Wanted
    BY <1>6 DEF Follow
  <2>2. (Active' <=> Active) /\ (Active => row' = row)
    <3>1. Active => Wanted = row /\ row # None
      BY DEF Active, Wanted
    <3>2. Active' => Wanted' = row' /\ row' # None
      BY DEF Active, Wanted
    <3>3. (~Active => Wanted = None) /\ (~Active' => Wanted' = None)
      BY DEF Wanted
    <3> QED BY <2>1, <3>1, <3>2, <3>3
  <2>3. Registered' = Registered
    BY <1>4 DEF Registered
  <2>4. \A effects : Made(effects)' => Made(effects)
    BY <1>2 DEF Made
  <2>5. \A o \in Requests :
          /\ ToMake(o)' \cap Adding # {} => Active' /\ handler'[o].saved = row'
          /\ ToMake(o)' \cap Removing # {} => ~Active'
    BY <1>2, <1>3, <2>1, <2>2 DEF LeadsToRow
  <2> QED BY <1>4, <2>1, <2>3, <2>4, <2>5 DEF LeadsToRow
<1> QED BY <1>5, <1>6 DEF Follow

LEMMA LostLeads ==
  ASSUME IInv, Follow, NEW r \in Requests, ~Applying(r), LoseAnswer(r),
         UNCHANGED <<scheduling, work, firing, lost>>
  PROVE  Follow'
<1>1. /\ Become(r, Idle) /\ (astray \/ Wanted' # Wanted => astray')
      /\ UNCHANGED <<scheduling, removing, lost>>
  BY DEF LoseAnswer, work
<1> QED BY <1>1, IdleIsHandler, NothingToMake

LEMMA RefuseLeads ==
  ASSUME IInv, Follow, NEW r \in Requests, ~Applying(r), Refuse(r)
  PROVE  Follow'
<1>1. /\ Become(r, Idle) /\ (astray \/ Wanted' # Wanted => astray')
      /\ UNCHANGED <<scheduling, removing, lost>>
  BY DEF Refuse, work, Wanted, Active
<1> QED BY <1>1, IdleIsHandler, NothingToMake

\* A handler that sets the schedule, alone: nothing else has anything to do.
LEMMA SettingLeads ==
  ASSUME IInv, Follow, NEW r \in Requests, NEW saved \in Version, NEW todo \in Seq(Effects),
         ~Applying(r), Committed(r, saved, todo), SetsSchedule(todo),
         \/ /\ Adding \subseteq EffectsOf(todo) /\ EffectsOf(todo) \cap Removing = {}
            /\ Active' /\ saved = row'
         \/ /\ Removing \subseteq EffectsOf(todo) /\ EffectsOf(todo) \cap Adding = {}
            /\ ~Active'
  PROVE  Follow'
<1>1. UNCHANGED <<scheduling, work, firing, lost>>
  BY DEF Committed
<1>2. CASE Commit(r, saved, todo)
  <2>1. RemovalIsDone'
    BY <1>1 DEF Follow, RemovalIsDone, scheduling, work
  <2>2. ASSUME ~astray'
        PROVE  LeadsToRow'
    <3>1. /\ ToMake(r)' = EffectsOf(todo) /\ (todo # <<>> => handler'[r].saved = saved)
          /\ \A o \in Requests \ {r} : ToMake(o)' = ToMake(o)
      BY <1>2, CommitMakes
    <3>2. todo # <<>>
      BY DEF SetsSchedule
    <3>3. \A o \in Requests \ {r} : ToMake(o) \ {"CloseService"} = {}
      BY <1>2, <2>2, SetsIsToMake DEF Commit
    <3>4. \A o \in Requests \ {r} : ToMake(o)' \cap Adding = {} /\ ToMake(o)' \cap Removing = {}
      BY <3>1, <3>3 DEF Adding, Removing
    <3>5. Adding \subseteq ToMake(r)' \/ Removing \subseteq ToMake(r)'
      BY <3>1
    <3>6. ~Made({"Register", "Unregister"})'
      BY <3>5 DEF Made, Adding, Removing
    <3>7. \A k \in Callbacks : ~Made(Setting(k))'
      BY <3>5, SettingTypes DEF Made
    <3> QED BY <3>1, <3>2, <3>4, <3>6, <3>7 DEF LeadsToRow
  <2> QED BY <2>1, <2>2 DEF Follow
<1>3. CASE LoseAnswer(r)
  BY <1>1, <1>3, LostLeads
<1> QED BY <1>2, <1>3 DEF Committed

\* A change of a service that is not scheduled.
LEMMA OtherLeads ==
  ASSUME IInv, Follow, NEW r \in Requests, NEW saved \in Version, NEW todo \in Seq(Effects),
         ~Applying(r), Committed(r, saved, todo), EffectsOf(todo) \subseteq {"CloseService"},
         ~Active, ~Active'
  PROVE  Follow'
<1>1. UNCHANGED <<scheduling, work, firing, lost>>
  BY DEF Committed
<1>2. CASE Commit(r, saved, todo)
  <2>1. UNCHANGED <<target, callback, removing, lost>>
    BY <1>1 DEF scheduling, work
  <2>2. RemovalIsDone'
    BY <2>1 DEF Follow, RemovalIsDone
  <2>3. ASSUME ~astray'
        PROVE  LeadsToRow'
    <3>1. ~astray
      BY <1>2, <2>3 DEF Commit, SetsSchedule, EffectsOf
    <3>2. LeadsToRow
      BY <3>1 DEF Follow
    <3>3. /\ ToMake(r)' \cap Adding = {} /\ ToMake(r)' \cap Removing = {}
          /\ \A o \in Requests \ {r} : handler'[o] = handler[o] /\ ToMake(o)' = ToMake(o)
      BY <1>2, CommitMakes DEF Adding, Removing
    <3>4. ToMake(r) = {}
      BY DEF ToMake
    <3>5. \A effects : Made(effects)' => Made(effects)
      BY <3>3, <3>4 DEF Made
    <3>6. Wanted' = None /\ Wanted = None /\ Registered' = Registered
      BY <2>1 DEF Wanted, Registered
    <3>7. \A o \in Requests :
            /\ ToMake(o)' \cap Adding # {} => Active' /\ handler'[o].saved = row'
            /\ ToMake(o)' \cap Removing # {} => ~Active'
      BY <3>2, <3>3 DEF LeadsToRow
    <3> QED BY <2>1, <3>2, <3>5, <3>6, <3>7 DEF LeadsToRow
  <2> QED BY <2>2, <2>3 DEF Follow
<1>3. CASE LoseAnswer(r)
  BY <1>1, <1>3, LostLeads
<1> QED BY <1>2, <1>3 DEF Committed

----------------------------------------------------------------------------
(* Transactions. *)

LEMMA CreateLeads ==
  ASSUME IInv, Follow, NEW r \in Requests, NEW config \in Configs, Create(r, config)
  PROVE  Follow'
<1> DEFINE first == [revision |-> 1, generation |-> 1, paused |-> FALSE, config |-> config]
<1>1. first \in Version /\ ~first.paused
  BY DEF Version, Revisions
<1>2. row' = first /\ Committed(r, row', Schedule) /\ ~Applying(r)
  BY IdleIsHandler DEF Create, Applying
<1> HIDE DEF first
<1>3. Active' /\ row' \in Version
  BY <1>1, <1>2 DEF Active
<1>4. SetsSchedule(Schedule)
  BY DEF SetsSchedule, Schedule
<1>5. Adding \subseteq EffectsOf(Schedule) /\ EffectsOf(Schedule) \cap Removing = {}
  BY ScheduleEffects DEF Adding, Removing
<1> QED BY <1>2, <1>3, <1>4, <1>5, ScheduleTypes, SettingLeads

\* The change of an active service sets the schedule, a paused one stays.
LEMMA UpdateLeads ==
  ASSUME IInv, Follow, NEW r \in Requests, UpdateService(r)
  PROVE  Follow'
<1> DEFINE h == handler[r]
           todo == Follows(h, row')
           reschedule == IF row'.paused THEN <<>> ELSE Schedule
<1>0. h.step = "commit" /\ h.kind # "delete" /\ ~Applying(r)
  BY DEF UpdateService, Applying
<1>a. CASE Refuse(r)
  BY <1>0, <1>a, RefuseLeads
<1>b. CASE ~Refuse(r)
  <2>1. /\ Expected(h) /\ row.revision < MaxRevision /\ row' = Saved(h)
        /\ Committed(r, row', todo)
    BY <1>b DEF UpdateService
  <2>2. h \in CommitHandler /\ row \in Version /\ row # None /\ h.base.paused = row.paused
    BY <1>0, <2>1, CommitsOnBase
  <2>3. row' \in Version /\ row'.paused = PausedOf(h)
    BY <2>1, <2>2, SavedIsNext DEF Saved
  <2>4. h.kind \in {"pause", "resume", "edit", "reset"}
    BY <1>0, <2>2 DEF CommitHandler, Kinds
  <2>5. todo \in Seq(Effects)
    BY <2>4, FollowsType DEF Kinds
  <2>6. (Active' <=> ~row'.paused) /\ (Active <=> ~row.paused)
    BY <2>2, <2>3 DEF Active
  <2>7. CASE row'.paused /\ h.kind # "pause"
    <3>1. h.kind \in {"edit", "reset"} /\ row.paused
      BY <2>2, <2>3, <2>4, <2>7 DEF PausedOf
    <3>2. todo \in {<<"CloseService">> \o <<>>, <<"CloseService">>, <<>>}
      BY <2>7, <3>1 DEF Follows
    <3>3. EffectsOf(todo) \subseteq {"CloseService"}
      BY <3>2, ScheduleEffects, <<"CloseService">> \o <<>> = <<"CloseService">>
    <3> HIDE DEF todo, h
    <3> QED BY <1>0, <2>1, <2>3, <2>5, <2>6, <2>7, <3>1, <3>3, OtherLeads
  <2>8. CASE h.kind = "pause"
    <3>1. row'.paused /\ todo = Append(Unschedule, "CloseService")
      BY <2>3, <2>8 DEF PausedOf, Follows
    <3>2. SetsSchedule(todo) /\ Removing \subseteq EffectsOf(todo) /\ EffectsOf(todo) \cap Adding = {}
      <4>1. EffectsOf(todo) = Removing \cup {"CloseService"}
        BY <3>1, ScheduleEffects
      <4> HIDE DEF todo
      <4> QED BY <4>1 DEF SetsSchedule, EffectsOf, Removing, Adding
    <3> HIDE DEF todo, h
    <3> QED BY <1>0, <2>1, <2>3, <2>5, <2>6, <3>1, <3>2, SettingLeads
  <2>9. CASE ~row'.paused
    <3>1. todo \in {Schedule, <<"CloseService">> \o Schedule}
      BY <2>3, <2>4, <2>9 DEF PausedOf, Follows
    <3>2. SetsSchedule(todo) /\ Adding \subseteq EffectsOf(todo) /\ EffectsOf(todo) \cap Removing = {}
      <4>1. EffectsOf(todo) \in {Adding, Adding \cup {"CloseService"}}
        BY <3>1, ScheduleEffects
      <4> HIDE DEF todo
      <4> QED BY <4>1 DEF SetsSchedule, EffectsOf, Removing, Adding
    <3> HIDE DEF todo, h
    <3> QED BY <1>0, <2>1, <2>3, <2>5, <2>6, <2>9, <3>2, SettingLeads
  <2> QED BY <2>7, <2>8, <2>9
<1> QED BY <1>a, <1>b

LEMMA DeleteLeads ==
  ASSUME IInv, Follow, NEW r \in Requests, DeleteService(r)
  PROVE  Follow'
<1> DEFINE todo == Append(Unschedule, "CloseService")
<1>1. handler[r].step = "commit" /\ ~Applying(r)
  BY DEF DeleteService, Applying
<1>a. CASE Refuse(r)
  BY <1>1, <1>a, RefuseLeads
<1>b. CASE ~Refuse(r)
  <2>1. row' = None /\ Committed(r, handler[r].base, todo)
    BY <1>b DEF DeleteService
  <2>2. handler[r].base \in Version
    BY <1>1, HandlerKinds DEF IInv, TypeOK, CommitHandler
  <2>3. ~Active'
    BY <2>1 DEF Active
  <2>4. todo \in Seq(Effects) /\ EffectsOf(todo) = Removing \cup {"CloseService"}
    BY ScheduleTypes, ScheduleEffects
  <2> HIDE DEF todo
  <2>5. SetsSchedule(todo)
    <3>1. "Unregister" \in EffectsOf(todo)
      BY <2>4 DEF Removing
    <3> QED BY <3>1 DEF SetsSchedule, EffectsOf
  <2>6. Removing \subseteq EffectsOf(todo) /\ EffectsOf(todo) \cap Adding = {}
    BY <2>4 DEF Removing, Adding
  <2> QED BY <1>1, <2>1, <2>2, <2>3, <2>4, <2>5, <2>6, SettingLeads
<1> QED BY <1>a, <1>b

----------------------------------------------------------------------------
(* Calls. *)

LEMMA CallMade ==
  ASSUME IInv, NEW r \in Requests, NEW effect, Makes(r, effect)
  PROVE  /\ effect \in ToMake(r)
         /\ ToMake(r) \ {effect} \subseteq ToMake(r)'
         /\ \A o \in Requests : ToMake(o)' \subseteq ToMake(o)
         /\ \A o \in Requests \ {r} : ToMake(o)' = ToMake(o)
         /\ \A o \in Requests : ToMake(o)' # {} => handler'[o].saved = handler[o].saved
<1> DEFINE todo == handler[r].todo
           rest == Tail(todo)
           after == IF rest = <<>> THEN Idle ELSE [handler[r] EXCEPT !.todo = rest]
<1>1. handler[r] \in ApplyHandler /\ todo # <<>> /\ Applying(r) /\ effect = Head(todo)
  BY HandlerKinds DEF Makes, Applying, IInv, TypeOK, RevisionsIdentify
<1>2. /\ todo \in Seq(Effects) /\ rest \in Seq(Effects)
      /\ Len(todo) \in Nat \ {0} /\ Len(rest) = Len(todo) - 1
      /\ \A i \in 1..Len(rest) : rest[i] = todo[i + 1]
  BY <1>1 DEF ApplyHandler
<1>3. EffectsOf(todo) = EffectsOf(rest) \cup {effect}
  <2>1. DOMAIN todo = 1..Len(todo) /\ DOMAIN rest = 1..Len(rest)
    BY <1>2
  <2>2. \A i \in DOMAIN todo : todo[i] = IF i = 1 THEN effect ELSE rest[i - 1]
    BY <1>1, <1>2, <2>1
  <2>3. \A i \in DOMAIN todo : i # 1 => i - 1 \in DOMAIN rest
    BY <1>2, <2>1
  <2>4. \A i \in DOMAIN rest : i + 1 \in DOMAIN todo /\ rest[i] = todo[i + 1]
    BY <1>2, <2>1
  <2>5. 1 \in DOMAIN todo
    BY <1>2, <2>1
  <2> HIDE DEF todo, rest
  <2> QED
    BY <2>2, <2>3, <2>4, <2>5 DEF EffectsOf
<1>4. handler' = [handler EXCEPT ![r] = after]
  BY DEF Makes, Become
<1>5. \A o \in Requests : handler'[o] = IF o = r THEN after ELSE handler[o]
  BY <1>4 DEF IInv, TypeOK
<1>6. \A o \in Requests \ {r} : handler'[o] = handler[o] /\ ToMake(o)' = ToMake(o)
  BY <1>5 DEF ToMake, Applying
<1>7. ToMake(r) = EffectsOf(todo)
  BY <1>1 DEF ToMake
<1>8. /\ ToMake(r)' = EffectsOf(rest)
      /\ ToMake(r)' # {} => handler'[r].saved = handler[r].saved
  <2>1. CASE rest = <<>>
    BY <1>5, <2>1, ScheduleEffects, IdleIsHandler DEF ToMake, Applying
  <2>2. CASE rest # <<>>
    <3>1. handler'[r] = [handler[r] EXCEPT !.todo = rest]
      BY <1>5, <2>2
    <3> HIDE DEF rest, todo, after
    <3>2. /\ handler'[r].step = "apply" /\ handler'[r].todo = rest
          /\ handler'[r].saved = handler[r].saved
      BY <1>1, <3>1 DEF ApplyHandler, Applying
    <3> QED
      BY <3>2 DEF ToMake, Applying
  <2> QED
    BY <2>1, <2>2
<1> QED
  BY <1>3, <1>6, <1>7, <1>8

\* What is left by the others leads to the row as before.
LEMMA LeftAfterCall ==
  ASSUME IInv, LeadsToRow, NEW r \in Requests, NEW effect, Makes(r, effect)
  PROVE  /\ Active' = Active /\ Wanted' = Wanted
         /\ \A o \in Requests :
              /\ ToMake(o)' \cap Adding # {} => Active' /\ handler'[o].saved = row'
              /\ ToMake(o)' \cap Removing # {} => ~Active'
         /\ effect \in Adding => Active /\ handler[r].saved = Wanted
         /\ effect \in Removing => ~Active /\ Wanted = None
         /\ \A effects : effect \notin effects /\ Made(effects)' => Made(effects)
<1>1. row' = row
  BY DEF Makes
<1>2. Active' = Active /\ Wanted' = Wanted
  BY <1>1 DEF Active, Wanted
<1>3. \A o \in Requests :
        /\ ToMake(o)' \cap Adding # {} => Active' /\ handler'[o].saved = row'
        /\ ToMake(o)' \cap Removing # {} => ~Active'
  BY <1>1, <1>2, CallMade DEF LeadsToRow
<1>4. /\ effect \in Adding => Active /\ handler[r].saved = Wanted
      /\ effect \in Removing => ~Active /\ Wanted = None
  BY CallMade DEF LeadsToRow, Wanted
<1>5. ASSUME NEW effects, effect \notin effects, Made(effects)'
      PROVE  Made(effects)
  BY <1>5, CallMade DEF Made
<1> QED BY <1>2, <1>3, <1>4, <1>5

\* A call on the recovery queue.
LEMMA QueueCallLeads ==
  ASSUME IInv, Follow, NEW r \in Requests, NEW effect \in {"Register", "Unregister"},
         Makes(r, effect), UNCHANGED <<callback, removing, lost>>,
         Registered' = IF effect = "Register" THEN handler[r].saved ELSE None
  PROVE  Follow'
<1>1. RemovalIsDone'
  BY DEF Follow, RemovalIsDone
<1>2. ASSUME ~astray'
      PROVE  LeadsToRow'
  <2>1. LeadsToRow
    BY <1>2 DEF Follow, Makes
  <2>2. Registered' = Wanted'
    BY <2>1, LeftAfterCall DEF Adding, Removing
  <2>3. \A k \in Callbacks : effect \notin Setting(k)
    BY SettingTypes
  <2> QED BY <2>1, <2>2, <2>3, LeftAfterCall DEF LeadsToRow
<1> QED BY <1>1, <1>2 DEF Follow

\* A call on a callback of the scheduler.
LEMMA CallbackCallLeads ==
  ASSUME IInv, Follow, NEW r \in Requests, NEW k \in Callbacks, NEW effect \in Setting(k),
         Makes(r, effect), UNCHANGED target,
         callback' = [callback EXCEPT ![k] = IF effect \in Adding THEN handler[r].saved ELSE None],
         lost' \ {k} = lost \ {k}, removing' \ {k} = removing \ {k},
         k \in removing' \ lost' => effect \notin Adding
  PROVE  Follow'
<1>1. /\ callback'[k] = (IF effect \in Adding THEN handler[r].saved ELSE None)
      /\ \A o \in Callbacks \ {k} : callback'[o] = callback[o]
  BY DEF IInv, TypeOK
<1>2. removing' \subseteq Callbacks /\ removing \subseteq Callbacks
  BY DEF IInv, TypeOK
<1>3. RemovalIsDone'
  <2>1. ASSUME NEW o \in removing' \ lost'
        PROVE  callback'[o] = None
    BY <1>1, <1>2, <2>1 DEF Follow, RemovalIsDone
  <2> QED BY <2>1 DEF RemovalIsDone
<1>4. ASSUME ~astray'
      PROVE  LeadsToRow'
  <2>1. LeadsToRow
    BY <1>4 DEF Follow, Makes
  <2>2. effect \in Adding \/ effect \in Removing
    BY SettingTypes DEF Setting
  <2>3. callback'[k] = Wanted'
    BY <1>1, <2>1, <2>2, LeftAfterCall
  <2>4. effect \notin {"Register", "Unregister"} /\ Registered' = Registered
    BY SettingTypes DEF Registered
  <2>5. ASSUME NEW o \in Callbacks \ {k}, Made(Setting(o))', o \notin lost'
        PROVE  callback'[o] = Wanted'
    <3>1. effect \notin Setting(o) /\ o \notin lost
      BY <2>5, SettingTypes
    <3>2. Made(Setting(o)) /\ Wanted' = Wanted
      BY <2>1, <2>5, <3>1, LeftAfterCall
    <3> QED BY <1>1, <2>1, <3>1, <3>2 DEF LeadsToRow
  <2> QED BY <2>1, <2>3, <2>4, <2>5, LeftAfterCall DEF LeadsToRow
<1> QED BY <1>3, <1>4 DEF Follow

LEMMA CallLeads ==
  ASSUME IInv, Follow, NEW r \in Requests, Call(r)
  PROVE  Follow'
<1> TypeOK
  BY DEF IInv
<1>1. CASE Register(r)
  <2>1. Makes(r, "Register") /\ handler[r].saved \in Version
    BY <1>1, MakesKeeps DEF Register
  <2>2. UNCHANGED <<callback, removing, lost>>
    BY <1>1 DEF Register
  <2>3. target' \in Target /\ target'.service = handler[r].saved
    <3>1. CASE target # None
      BY <1>1, <2>1, <3>1 DEF Register, TypeOK, Target
    <3>2. CASE target = None
      <4> DEFINE new == CHOOSE g \in {o \in Goroutines : goroutine[o] = None} : TRUE
      <4>1. new \in Goroutines /\ target' = [service |-> handler[r].saved, goroutine |-> new]
        BY <1>1, <3>2 DEF Register
      <4> HIDE DEF new
      <4> QED BY <2>1, <4>1 DEF Target
    <3> QED BY <3>1, <3>2
  <2>4. Registered' = handler[r].saved
    BY <2>3 DEF Registered
  <2> QED BY <2>1, <2>2, <2>4, QueueCallLeads
<1>2. CASE Unregister(r)
  <2>1. Makes(r, "Unregister") /\ UNCHANGED <<callback, removing, lost>> /\ Registered' = None
    BY <1>2 DEF Unregister, Registered
  <2> QED BY <2>1, QueueCallLeads
<1>3. ASSUME NEW k \in Callbacks, AddCallback(r, k)
      PROVE  Follow'
  <2>1. /\ Makes(r, AddOf[k]) /\ UNCHANGED <<target, removing>>
        /\ callback' = [callback EXCEPT ![k] = handler[r].saved]
        /\ lost' = (lost \ {k}) \cup (removing \cap {k})
    BY <1>3 DEF AddCallback
  <2>2. AddOf[k] \in Setting(k) /\ AddOf[k] \in Adding
    BY SettingTypes DEF Setting
  <2>3. k \notin removing' \ lost' /\ lost' \ {k} = lost \ {k}
    BY <2>1
  <2> QED BY <2>1, <2>2, <2>3, CallbackCallLeads
<1>4. ASSUME NEW k \in Callbacks, RemoveCallback(r, k)
      PROVE  Follow'
  <2>1. /\ Makes(r, RemoveOf[k]) /\ UNCHANGED target
        /\ callback' = [callback EXCEPT ![k] = None]
        /\ lost' = lost \ {k} /\ removing' \ {k} = removing \ {k}
    BY <1>4 DEF RemoveCallback
  <2>2. RemoveOf[k] \in Setting(k) /\ RemoveOf[k] \notin Adding
    BY SettingTypes DEF Setting, Adding, Removing
  <2> QED BY <2>1, <2>2, CallbackCallLeads
<1>5. ASSUME NEW ok \in BOOLEAN, CloseService(r, ok)
      PROVE  Follow'
  <2>1. Makes(r, "CloseService") /\ UNCHANGED <<target, callback, removing, lost, astray>>
    BY <1>5 DEF CloseService, scheduling, Makes
  <2>2. RemovalIsDone'
    BY <2>1 DEF Follow, RemovalIsDone
  <2>3. \A k \in Callbacks : "CloseService" \notin Setting(k)
    BY SettingTypes
  <2>4. ASSUME LeadsToRow
        PROVE  LeadsToRow'
    <3>1. Registered' = Registered
      BY <2>1 DEF Registered
    <3> QED BY <2>1, <2>3, <2>4, <3>1, LeftAfterCall DEF LeadsToRow
  <2> QED BY <2>1, <2>2, <2>4 DEF Follow
<1> QED BY <1>1, <1>2, <1>3, <1>4, <1>5 DEF Call

----------------------------------------------------------------------------
(* The work in hand, and the restart. *)

\* A completion takes the callback with a removal: there is none by then.
LEMMA WorkLeads ==
  ASSUME IInv, Follow, UNCHANGED <<row, handler, target, astray, lost>>,
         \/ UNCHANGED <<callback, removing>>
         \/ \E k \in Callbacks : Returns(k)
  PROVE  Follow'
<1>1. \A r \in Requests : ToMake(r)' = ToMake(r)
  BY DEF ToMake, Applying
<1>2. /\ removing' \subseteq removing
      /\ \A k \in Callbacks \ lost : callback'[k] = callback[k]
      /\ \A k \in Callbacks : callback[k] = None => callback'[k] = None
  <2>1. ASSUME NEW k \in Callbacks, Returns(k)
        PROVE  /\ removing' \subseteq removing
               /\ \A o \in Callbacks \ lost : callback'[o] = callback[o]
               /\ \A o \in Callbacks : callback[o] = None => callback'[o] = None
    BY <2>1 DEF Returns, Follow, RemovalIsDone, IInv, TypeOK
  <2> QED BY <2>1
<1>3. RemovalIsDone'
  BY <1>2 DEF Follow, RemovalIsDone, IInv, TypeOK
<1>4. Registered' = Registered /\ Wanted' = Wanted /\ Active' = Active
  BY DEF Registered, Wanted, Active
<1>5. \A effects : Made(effects)' => Made(effects)
  BY <1>1 DEF Made
<1>6. LeadsToRow => LeadsToRow'
  BY <1>1, <1>2, <1>4, <1>5 DEF LeadsToRow
<1> QED BY <1>3, <1>6 DEF Follow

LEMMA RestartLeads ==
  ASSUME IInv, Restart
  PROVE  Follow'
<1>1. \A r \in Requests : ToMake(r)' = {}
  BY IdleIsHandler DEF Restart, ToMake, Applying
<1>2. Wanted' = Wanted /\ Active' = Active
  BY DEF Wanted, Active, Restart
<1>3. (\A k \in Callbacks : callback'[k] = Wanted') /\ RemovalIsDone'
  BY <1>2 DEF Restart, RemovalIsDone
<1>4. Registered' = Wanted'
  <2>1. CASE Active
    <3> DEFINE new == CHOOSE g \in Goroutines : TRUE
    <3>1. target' = [service |-> row, goroutine |-> new] /\ new \in Goroutines
      BY <2>1 DEF Restart
    <3>2. row \in Version
      BY <2>1 DEF Active, IInv, TypeOK
    <3> HIDE DEF new
    <3>3. target' \in Target /\ target'.service = row
      BY <3>1, <3>2 DEF Target
    <3> QED BY <1>2, <2>1, <3>3 DEF Registered, Wanted
  <2>2. CASE ~Active
    BY <1>2, <2>2 DEF Restart, Registered, Wanted
  <2> QED BY <2>1, <2>2
<1> QED BY <1>1, <1>3, <1>4 DEF Follow, LeadsToRow

----------------------------------------------------------------------------

LEMMA StepLeads ==
  ASSUME IInv, Follow, [Next]_vars
  PROVE  Follow'
<1>1. ASSUME NEW r \in Requests, NEW kind \in Kinds, NEW config \in Configs,
             NEW expected \in Revisions, Read(r, kind, config, expected)
      PROVE  Follow'
  <2> DEFINE next == [step |-> "commit", kind |-> kind, base |-> Presented(row),
                      expected |-> expected, config |-> config]
  <2>1. /\ Become(r, next) /\ next.step # "apply" /\ ~Applying(r)
        /\ (astray \/ Wanted' # Wanted => astray')
        /\ UNCHANGED <<scheduling, removing, lost>>
    BY <1>1, IdleIsHandler DEF Read, Applying, work, Wanted, Active
  <2> HIDE DEF next
  <2> QED BY <2>1, NothingToMake
<1>2. ASSUME NEW r \in Requests, Serve(r)
      PROVE  Follow'
  BY <1>1, <1>2, CreateLeads, UpdateLeads, DeleteLeads, CallLeads DEF Serve
<1>3. CASE \E k \in Callbacks : Start(k)
  BY <1>3, WorkLeads DEF Start, scheduling
<1>4. CASE Live \/ Build
  <2>1. \E k \in Callbacks : Returns(k)
    BY <1>4 DEF Live, Build, CollectLive, FailLive, Callbacks
  <2>2. UNCHANGED <<row, handler, target, astray, lost>>
    BY <2>1 DEF Returns
  <2> QED BY <2>1, <2>2, WorkLeads
<1>5. ASSUME NEW g \in Goroutines, Recovery(g)
      PROVE  Follow'
  BY <1>5, RecoveryAlone, WorkLeads
<1>6. CASE Analysis
  <2>1. AnalysisStep
    BY <1>6 DEF Analysis, StartAnalysis, StartHistorical, FinishAnalysis
  <2> QED BY <2>1, WorkLeads DEF AnalysisStep, scheduling
<1>7. CASE UNCHANGED vars
  BY <1>7, WorkLeads DEF vars, scheduling, work
<1> QED BY <1>2, <1>3, <1>4, <1>5, <1>6, <1>7, RestartLeads DEF Next

\* The registrations of a service follow its row between requests (Schedule and
\* Unschedule of the tracker, after the transaction), for any number of
\* requests, also where a collection or a build in flight outlives its removal:
\* unless the calls of two requests overlapped, or the answer of a commit was
\* lost and its calls never made, or a callback was added again in flight of its
\* removal.
THEOREM ScheduleIsThatOfRow == Spec => []ScheduleFollowsRow
<1>1. Init => Follow
  <2> SUFFICES ASSUME Init
               PROVE  Follow
    OBVIOUS
  <2>1. /\ \A r \in Requests : ToMake(r) = {}
        /\ Wanted = None /\ Active = FALSE /\ Registered = None
    BY IdleIsHandler DEF Init, ToMake, Applying, Wanted, Active, Registered
  <2> QED BY <2>1 DEF Init, Follow, RemovalIsDone, LeadsToRow
<1>2. IInv /\ Follow /\ [Next]_vars => Follow'
  BY StepLeads
<1>3. Follow => ScheduleFollowsRow
  <2>1. ASSUME Follow, Quiescent, ~astray
        PROVE  /\ Registered = Wanted
               /\ \A k \in Callbacks \ lost : callback[k] = Wanted
    <3>1. \A r \in Requests : ToMake(r) = {}
      BY <2>1 DEF Quiescent, ToMake, Applying
    <3> QED BY <2>1, <3>1 DEF Follow, LeadsToRow, Made
  <2> QED BY <2>1 DEF ScheduleFollowsRow
<1> QED BY <1>1, <1>2, <1>3, LifecycleInvariant, PTL DEF Spec

----------------------------------------------------------------------------
(* A service that stays paused or deleted starts nothing. *)

\* A removal in flight has its invocation, and takes with it the callback that
\* was added behind it.
RemovalInHand ==
  \A k \in Callbacks :
    /\ k \in removing => flight[k] # None
    /\ k \in lost \ removing => callback[k] = None

LEMMA RemovalStaysInHand ==
  ASSUME TypeOK, RemovalInHand, [Next]_vars
  PROVE  RemovalInHand'
<1>1. ASSUME UNCHANGED <<callback, flight, removing, lost>>
      PROVE  RemovalInHand'
  BY <1>1 DEF RemovalInHand
<1>2. ASSUME NEW r \in Requests, Serve(r)
      PROVE  RemovalInHand'
  <2>1. ASSUME NEW k \in Callbacks, AddCallback(r, k)
        PROVE  RemovalInHand'
    BY <2>1 DEF AddCallback, RemovalInHand, TypeOK
  <2>2. ASSUME NEW k \in Callbacks, RemoveCallback(r, k)
        PROVE  RemovalInHand'
    <3>1. CASE flight[k] = None
      BY <2>2, <3>1 DEF RemoveCallback, RemovalInHand, TypeOK
    <3>2. CASE flight[k] # None
      <4>1. [flight[k] EXCEPT !.cancelled = TRUE] \in InFlight
        BY <3>2 DEF TypeOK, InFlight
      <4>2. /\ flight'[k] # None /\ callback'[k] = None
            /\ \A o \in Callbacks \ {k} : flight'[o] = flight[o] /\ callback'[o] = callback[o]
        BY <2>2, <3>2, <4>1 DEF RemoveCallback, TypeOK
      <4>3. removing' = removing \cup {k} /\ lost' = lost \ {k}
        BY <2>2, <3>2 DEF RemoveCallback
      <4> QED BY <4>2, <4>3 DEF RemovalInHand
    <3> QED BY <3>1, <3>2
  <2>3. CASE Register(r) \/ Unregister(r)
    BY <1>1, <2>3 DEF Register, Unregister
  <2>4. ASSUME NEW ok \in BOOLEAN, CloseService(r, ok)
        PROVE  RemovalInHand'
    BY <1>1, <2>4 DEF CloseService, scheduling
  <2>5. CASE Call(r)
    BY <2>1, <2>2, <2>3, <2>4, <2>5 DEF Call
  <2>6. ASSUME \/ \E config \in Configs : Create(r, config)
               \/ \E kind \in Kinds, config \in Configs, expected \in Revisions :
                    Read(r, kind, config, expected)
               \/ UpdateService(r) \/ DeleteService(r)
        PROVE  UNCHANGED <<callback, flight, removing, lost>>
    <3>1. UNCHANGED <<scheduling, work, lost>>
      BY <2>6 DEF Create, Read, UpdateService, DeleteService, Committed, Refuse
    <3> QED BY <3>1 DEF scheduling, work
  <2> QED BY <1>1, <1>2, <2>5, <2>6 DEF Serve
<1>3. ASSUME NEW k \in Callbacks, Start(k)
      PROVE  RemovalInHand'
  <2>1. callback[k].generation \in Revisions
    BY <1>3 DEF Start, TypeOK, Version
  <2>2. flight'[k] \in InFlight /\ \A o \in Callbacks \ {k} : flight'[o] = flight[o]
    BY <1>3, <2>1 DEF Start, TypeOK, InFlight
  <2>3. flight'[k] # None
    BY <2>2
  <2> QED BY <1>3, <2>2, <2>3 DEF Start, RemovalInHand, scheduling
<1>4. CASE Live \/ Build
  <2>1. \E k \in Callbacks : Returns(k)
    BY <1>4 DEF Live, Build, CollectLive, FailLive, Callbacks
  <2> QED BY <2>1 DEF Returns, RemovalInHand, TypeOK
<1>5. ASSUME NEW g \in Goroutines, Recovery(g)
      PROVE  RemovalInHand'
  BY <1>1, <1>5, RecoveryAlone
<1>6. CASE Analysis
  <2>1. AnalysisStep
    BY <1>6 DEF Analysis, StartAnalysis, StartHistorical, FinishAnalysis
  <2> QED BY <1>1, <2>1 DEF AnalysisStep, scheduling
<1>7. CASE Restart
  BY <1>7 DEF Restart, RemovalInHand
<1>8. CASE UNCHANGED vars
  BY <1>1, <1>8 DEF vars, scheduling, work
<1> QED BY <1>2, <1>3, <1>4, <1>5, <1>6, <1>7, <1>8 DEF Next

\* A step of a service that is paused or deleted, between requests.
StartsNothing ==
  Quiescent /\ ~astray /\ ~Active =>
    /\ \A k \in Callbacks : flight[k] = None => flight'[k] = None
    /\ \A g \in Goroutines : goroutine[g] = None => goroutine'[g] = None
    /\ AtRest => AtRest'

LEMMA InactiveStep ==
  ASSUME TypeOK, RemovalInHand, ScheduleFollowsRow, [Next]_vars,
         Quiescent, ~astray, ~Active
  PROVE  /\ \A k \in Callbacks : flight[k] = None => flight'[k] = None
         /\ \A g \in Goroutines : goroutine[g] = None => goroutine'[g] = None
         /\ AtRest => AtRest'
<1> DEFINE Goal == /\ \A k \in Callbacks : flight[k] = None => flight'[k] = None
                   /\ \A g \in Goroutines : goroutine[g] = None => goroutine'[g] = None
                   /\ AtRest => AtRest'
<1>1. ASSUME UNCHANGED <<flight, goroutine>>, AtRest => AtRest'
      PROVE  Goal
  BY <1>1
<1>2. ASSUME UNCHANGED <<flight, goroutine, queue, history, analysing>>
      PROVE  Goal
  BY <1>2 DEF AtRest
<1>3. ASSUME NEW r \in Requests, Serve(r)
      PROVE  Goal
  <2>1. ~Call(r)
    BY DEF Quiescent, Call, Register, Unregister, AddCallback, RemoveCallback,
           CloseService, Makes, Applying
  <2>2. UNCHANGED work
    BY <1>3, <2>1 DEF Serve, Create, Read, UpdateService, DeleteService, Committed, Refuse
  <2> QED BY <1>2, <2>2 DEF work, analyses
<1>4. ASSUME NEW k \in Callbacks
      PROVE  ~Start(k)
  <2>1. k \notin lost => callback[k] = None
    BY DEF ScheduleFollowsRow, Wanted
  <2>2. flight[k] = None /\ k \in lost => callback[k] = None
    BY DEF RemovalInHand
  <2> QED BY <2>1, <2>2 DEF Start
<1>5. ASSUME NEW k \in Callbacks, Returns(k), UNCHANGED goroutine
      PROVE  Goal
  <2>1. flight[k] # None /\ flight' = [flight EXCEPT ![k] = None]
    BY <1>5 DEF Returns
  <2>2. ~AtRest
    BY <2>1 DEF AtRest
  <2>3. \A o \in Callbacks : flight[o] = None => flight'[o] = None
    BY <2>1 DEF TypeOK
  <2> QED BY <1>5, <2>2, <2>3
<1>6. CASE Live \/ Build
  <2>1. \E k \in Callbacks : Returns(k) /\ UNCHANGED goroutine
    BY <1>6 DEF Live, Build, CollectLive, FailLive, Returns, Callbacks
  <2> QED BY <1>5, <2>1
<1>7. ASSUME NEW g \in Goroutines, Recovery(g)
      PROVE  Goal
  <2>1. goroutine[g] # None /\ \A o \in Goroutines \ {g} : goroutine'[o] = goroutine[o]
    <3>1. \A place, window : Goes(g, place, window) =>
            \A o \in Goroutines \ {g} : goroutine'[o] = goroutine[o]
      BY DEF Goes, TypeOK
    <3>2. CASE Process(g) \/ WakeUp(g)
      BY <3>1, <3>2 DEF Process, WakeUp, NothingOpen, TakeWindow, Defer, Expire, Recover,
                        FailRecovery, At
    <3>3. CASE Return(g)
      BY <3>3 DEF Return, At, TypeOK
    <3> QED BY <1>7, <3>2, <3>3 DEF Recovery
  <2>2. ~AtRest
    BY <2>1 DEF AtRest, NoGoroutines
  <2>3. flight' = flight
    BY <1>7, RecoveryAlone
  <2> QED BY <2>1, <2>2, <2>3
<1>8. CASE Analysis
  <2>1. AnalysisStep /\ ~AtRest
    BY <1>8 DEF Analysis, StartAnalysis, StartHistorical, FinishAnalysis, AtRest
  <2> QED BY <1>1, <2>1 DEF AnalysisStep
<1>9. CASE Restart
  BY <1>9 DEF Restart, AtRest, NoGoroutines
<1>10. CASE UNCHANGED vars
  BY <1>2, <1>10 DEF vars, work, analyses
<1> QED BY <1>3, <1>4, <1>6, <1>7, <1>8, <1>9, <1>10 DEF Next

\* While a service stays paused or deleted no collection, no build and no
\* goroutine of the recovery queue starts, and once what was under way has ended
\* it stays at rest: no callback outlives the calls of the handler (Unschedule),
\* also when it was removed, added and removed again behind an invocation in
\* flight.  What was under way may go on: a goroutine that is unregistered takes
\* the windows that are ready before it looks at its stop channel.
THEOREM InactiveStartsNothing == Spec => [][StartsNothing]_vars
<1>1. Init => RemovalInHand
  BY DEF Init, RemovalInHand
<1>2. IInv /\ RemovalInHand /\ [Next]_vars => RemovalInHand'
  BY RemovalStaysInHand DEF IInv
<1>3. IInv /\ RemovalInHand /\ ScheduleFollowsRow /\ [Next]_vars => [StartsNothing]_vars
  BY InactiveStep DEF StartsNothing, IInv
<1> QED BY <1>1, <1>2, <1>3, LifecycleInvariant, ScheduleIsThatOfRow, PTL DEF Spec

=============================================================================
