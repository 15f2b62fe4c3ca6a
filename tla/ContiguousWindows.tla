-------------------------- MODULE ContiguousWindows --------------------------
(***************************************************************************)
(* What a client of the interval scheduler may rely on.  Each registered   *)
(* stream has a cursor: everything before it was processed successfully.   *)
(* At most one attempt per stream is outstanding; it covers the time from  *)
(* the cursor to an end that has passed.  Only a successful attempt moves  *)
(* the cursor, exactly to that end, so the successful windows of a stream  *)
(* are contiguous and in order.  After the gate is closed nothing starts.  *)
(***************************************************************************)
EXTENDS Integers

CONSTANTS Ids, StartTime

VARIABLES
  clock,
  cursor,   \* the registered streams, each with its cursor
  attempt,  \* the outstanding attempts, each with its end and its outcome
  open      \* may streams and attempts still be added

absVars == <<clock, cursor, attempt, open>>

Attempt == [end : Int, outcome : {"pending", "success", "retry", "permanent"}]

AbsInit ==
  /\ clock = StartTime
  /\ cursor = [i \in {} |-> 0]
  /\ attempt = [i \in {} |-> 0]
  /\ open = TRUE

Advance ==
  /\ clock' > clock
  /\ UNCHANGED <<cursor, attempt, open>>

Register(id) ==
  /\ open /\ id \notin DOMAIN cursor \cup DOMAIN attempt
  /\ DOMAIN cursor' = DOMAIN cursor \cup {id}
  /\ cursor' = [i \in DOMAIN cursor' |-> IF i = id THEN cursor'[id] ELSE cursor[i]]
  /\ UNCHANGED <<clock, attempt, open>>

Unregister(id) ==
  /\ id \in DOMAIN cursor \ DOMAIN attempt
  /\ cursor' = [i \in DOMAIN cursor \ {id} |-> cursor[i]]
  /\ UNCHANGED <<clock, attempt, open>>

\* A set of idle streams starts an attempt each.
Begin(S) ==
  /\ open /\ S # {} /\ S \subseteq DOMAIN cursor \ DOMAIN attempt
  /\ DOMAIN attempt' = DOMAIN attempt \cup S
  /\ attempt' = [i \in DOMAIN attempt' |-> IF i \in S THEN attempt'[i] ELSE attempt[i]]
  /\ \A i \in S : /\ attempt'[i] = [end |-> attempt'[i].end, outcome |-> "pending"]
                  /\ cursor[i] < attempt'[i].end /\ attempt'[i].end <= clock
  /\ UNCHANGED <<clock, cursor, open>>

Finish(id) ==
  /\ id \in DOMAIN attempt /\ attempt[id].outcome = "pending"
  /\ \E o \in {"success", "retry", "permanent"} :
       attempt' = [attempt EXCEPT ![id].outcome = o]
  /\ UNCHANGED <<clock, cursor, open>>

\* The result is accounted for, or the stream is dropped with it.
Settle(id) ==
  /\ id \in DOMAIN attempt \cap DOMAIN cursor /\ attempt[id].outcome # "pending"
  /\ attempt' = [i \in DOMAIN attempt \ {id} |-> attempt[i]]
  /\ \/ attempt[id].outcome = "success" /\ cursor' = [cursor EXCEPT ![id] = attempt[id].end]
     \/ attempt[id].outcome # "success" /\ UNCHANGED cursor
     \/ cursor' = [i \in DOMAIN cursor \ {id} |-> cursor[i]]
  /\ UNCHANGED <<clock, open>>

Close ==
  /\ open /\ open' = FALSE
  /\ UNCHANGED <<clock, cursor, attempt>>

AbsNext ==
  \/ Advance
  \/ \E id \in Ids : Register(id) \/ Unregister(id) \/ Finish(id) \/ Settle(id)
  \/ \E S \in SUBSET Ids : Begin(S)
  \/ Close

AbsSpec == AbsInit /\ [][AbsNext]_absVars

=============================================================================
