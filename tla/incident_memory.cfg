\* The foreign key of the memory table; no service fails.
CONSTANTS
    MaxRetries = 3
    RequireApproval = TRUE
    HasReviewers = TRUE
    Enforced = {"incident_memories.incident_id"}
    Events = {}
SPECIFICATION Spec
INVARIANT OutcomesWritten
CHECK_DEADLOCK FALSE
