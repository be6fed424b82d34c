\* The tasks of one run at a time with one retry each; three trainings; a first
\* ingestion has committed, two more may run.
CONSTANTS
    Deployments <- MCDeployments
    Suite <- MCSuite
    FailureSets <- MCFailureSets
    Retries = 1
    StopSignals = TRUE
    Readings <- MCReadings
    Weights <- MCWeights
    BatchSize = 2
    MaxTrainings = 3
    Runs = {1, 2, 3}
    FirstRun = 1
    orders = orders
    unique_order_id = unique_order_id
    Projects <- MCProjects
    TypeOf <- MCTypeOf
    QueryTypes = {"lineage", NoType}
    NoSource = NoSource
    NoType = NoType
SPECIFICATION FairSpec
INVARIANTS JobsTypeOK AlertsMatchTries ResultsTraceable  GradesNeedWeight
    OneVersionUnlessOverlap IngestionAtomic 
PROPERTIES RunEnds IngestionEnds
