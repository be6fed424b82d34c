\* One alert, every failure; foreign keys as the handling needs them.
CONSTANTS
    MaxRetries = 3
    RequireApproval = TRUE
    HasReviewers = TRUE
    Enforced = {}
    Events = {"llm_error", "odd_reply", "github_error", "jira_error", "slack_error", "db_error", "stop"}
SPECIFICATION FairSpec
INVARIANTS TypeOK RowAtomic RefsReal ArtefactsHaveIncident PullComplete ProcessedMeansStored
PROPERTIES RecordSpec HandlingEnds
CHECK_DEADLOCK FALSE
