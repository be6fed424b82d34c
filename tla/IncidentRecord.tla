--------------------------- MODULE IncidentRecord ---------------------------
(***************************************************************************)
(* What an operator who reads the incidents table may rely on while one    *)
(* alert is handled: the incident appears once, as OPEN and without an     *)
(* analysis; it becomes IN_PROGRESS once, together with the analysis and   *)
(* every reference recorded with it; it never goes back; and an alert is    *)
(* reported as processed only when that has happened.  IncidentPipeline is  *)
(* shown to implement this.                                                *)
(***************************************************************************)
CONSTANT Refs      \* references to artefacts in other services

VARIABLES
    status,   \* the incident's row: "none", "open" or "in_progress"
    refs,     \* the references in the row
    verdict   \* what the worker makes of the alert: "pending", "processed", "failed"

vars == <<status, refs, verdict>>

Init == status = "none" /\ refs = {} /\ verdict = "pending"

(* The row appears; the reply to the writer may be lost, and it gives up.   *)
Open ==
    /\ verdict = "pending"
    /\ status = "none"
    /\ status' = "open"
    /\ verdict' \in {"pending", "failed"}
    /\ UNCHANGED refs

(* The analysis and all references arrive in one step; the worker may die   *)
(* before it can say so.                                                   *)
Advance ==
    /\ verdict = "pending"
    /\ status = "open"
    /\ status' = "in_progress"
    /\ refs' \in SUBSET Refs
    /\ verdict' \in {"pending", "processed", "failed"}

GiveUp ==
    /\ verdict = "pending"
    /\ verdict' = "failed"
    /\ UNCHANGED <<status, refs>>

Next == Open \/ Advance \/ GiveUp

Spec == Init /\ [][Next]_vars

=============================================================================
