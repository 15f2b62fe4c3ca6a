---------------------------- MODULE ServiceRegister ----------------------------
(***************************************************************************)
(* What a user of the service API may rely on: one record per service      *)
(* that each request changes at once and only in what it asks for.  Every  *)
(* change makes a revision.  A reset of the baseline makes a generation,   *)
(* and so does every request that writes the configuration other than it   *)
(* is stored: an edit writes what its client sends, every other request    *)
(* the rendering of what is stored.                                        *)
(***************************************************************************)
EXTENDS Naturals

CONSTANTS Configs, Rendered, None

VARIABLES
  service,  \* the record, or None before it is created and once it is deleted
  born      \* whether it was created

Exists == service # None

Init == service = None /\ born = FALSE

Create(config) ==
  /\ ~born
  /\ born' = TRUE
  /\ service' = [revision |-> 1, generation |-> 1, paused |-> FALSE, config |-> config]

Becomes(material, paused, config) ==
  /\ Exists
  /\ service' = [revision   |-> service.revision + 1,
                 generation |-> IF material THEN service.generation + 1 ELSE service.generation,
                 paused     |-> paused,
                 config     |-> config]
  /\ UNCHANGED born

Written(paused, config) == Becomes(config # service.config, paused, config)

Switch(paused) == Written(paused, Rendered[service.config])

Edit(config) == Written(service.paused, config)

ResetBaseline == Becomes(TRUE, service.paused, Rendered[service.config])

Delete ==
  /\ Exists
  /\ service' = None
  /\ UNCHANGED born

Next ==
  \/ \E config \in Configs : Create(config) \/ Edit(config)
  \/ \E paused \in BOOLEAN : Switch(paused)
  \/ ResetBaseline
  \/ Delete

RegisterSpec == Init /\ [][Next]_<<service, born>>

=============================================================================
