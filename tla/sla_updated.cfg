\* Everything is deployed, no task fails that can succeed, and nobody signals the
\* alert processor.
CONSTANTS
    Deployments <- MCComplete
    Suite <- MCSuite
    FailureSets <- MCFailureSets
    Retries = 1
    StopSignals = FALSE
    Readings <- MCReadings
    Weights <- MCWeights
    BatchSize = 2
    MaxTrainings = 3
    Runs = {1, 2, 3}
    FirstRun = 1
    orders = orders
    unique_order_id = unique_order_id
    Projects <- MCProjects
    TypeOf <- MCTypeOf
    QueryTypes = {"lineage", NoType}
    NoSource = NoSource
    NoType = NoType
SPECIFICATION CalmSpec
INVARIANT SlaUpdated
