\* The schema as it is in the repository, without _corrupt_record.
CONSTANTS
    Kinds = {"clean", "corrupt"}
    MaxEvents = 2
    QueueSize = 1
    MaxBatch = 2
    MaxFaults = 1
    CorruptColumn = FALSE
SPECIFICATION OperatedSpec
PROPERTY InvalidEventsRouted
CHECK_DEADLOCK FALSE
