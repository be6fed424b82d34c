\* One partition, the schema repaired so that the queries start.
CONSTANTS
    Kinds = {"outlier", "corrupt"}
    MaxEvents = 2
    QueueSize = 1
    MaxBatch = 2
    MaxFaults = 1
    CorruptColumn = TRUE
SPECIFICATION FairSpec
INVARIANTS StreamTypeOK ProducedAccounted CommittedBatchAlerted ReplaysBounded
           ScoresMoveOn SeverityAgrees
PROPERTIES StreamDelivers EventuallyHandled
CHECK_DEADLOCK FALSE
