\* The foreign keys of the migration; no service fails.
CONSTANTS
    MaxRetries = 3
    RequireApproval = TRUE
    HasReviewers = TRUE
    Enforced = {"incidents.table_id", "incident_memories.incident_id"}
    Events = {}
SPECIFICATION Spec
INVARIANT FailureHasIncident
CHECK_DEADLOCK FALSE
