----------------------------- MODULE MCBatchJobs -----------------------------
(***************************************************************************)
(* The jobs that run beside the stream, for TLC: the hourly validation, the *)
(* anomaly ensemble and the ingestion of documents.  They share no state,   *)
(* so a behaviour follows one of them and leaves the others as they start.  *)
(***************************************************************************)
EXTENDS HourlyValidation, AnomalyEnsemble, DocumentStore

CONSTANTS orders, unique_order_id  \* the nodes of the dbt project

VARIABLE job  \* which of the jobs this behaviour follows

vars == <<job, hourlyVars, ensembleVars, storeVars>>

(* What the repository holds, and what its dags expect.                     *)
Shipped  == [programs |-> {}, checkpoint |-> FALSE]
Complete == [programs |-> {"batch_scorer", "sla_tracker"}, checkpoint |-> TRUE]

MCDeployments == {Shipped, Complete}

MCComplete == {Complete}

(* One expectation of each dimension that has any, and one that counts for  *)
(* none.                                                                    *)
MCSuite ==
    [type : {"not_be_null", "be_in_set", "be_unique", "pair_in_set", "columns_match",
             "mean_between"}]

Failed(types) == {x \in MCSuite : x.type \in types}

(* Nothing; what no dimension counts; 75.00, which is still "medium";       *)
(* 60.00, which is still "high"; 55.00.                                     *)
MCFailureSets ==
    {Failed({}), Failed({"mean_between"}), Failed({"be_in_set"}),
     Failed({"not_be_null", "pair_in_set", "columns_match"}),
     Failed({"be_in_set", "be_unique"})}

(* An ordinary row, one all detectors find odd, one the models know too     *)
(* little of, one with an error at the threshold, and one with a far value. *)
MCReadings ==
    {[depth |-> 90, error |->   5, z |->   0, feature |-> "item_count"],
     [depth |-> 10, error |-> 100, z |-> 100, feature |-> "total_amount"],
     [depth |-> 10, error |->   5, z |->  10, feature |-> "tax_amount"],
     [depth |-> 50, error |->  33, z |->  50, feature |-> "total_quantity"],
     [depth |-> 90, error |->  20, z |-> 100, feature |-> "total_amount"]}

(* The defaults of the settings.                                            *)
MCWeights == [forest |-> 40, encoder |-> 40, zscore |-> 20]

MCTypeOf == [n \in {orders, unique_order_id} |-> IF n = orders THEN "model" ELSE "test"]

(* There is no manifest, or it has a model and its test.                    *)
MCProjects == {{}, {orders, unique_order_id}}

(* The jobs that are not followed start in one way.                         *)
Init ==
    /\ HourlyInit /\ EnsembleInit /\ StoreInit
    /\ \/ job = "hourly"    /\ torch                /\ manifest = {}
       \/ job = "ensemble"  /\ deployment = Complete /\ manifest = {}
       \/ job = "ingestion" /\ deployment = Complete /\ torch

Hourly(t) == job = "hourly" /\ TaskStep(t) /\ UNCHANGED <<job, ensembleVars, storeVars>>

Ingestion(A) == job = "ingestion" /\ A /\ UNCHANGED <<job, hourlyVars, ensembleVars>>

Next ==
    \/ \E t \in Tasks : Hourly(t)
    \/ /\ job = "hourly"
       /\ NextRun \/ OrphanPush
       /\ UNCHANGED <<job, ensembleVars, storeVars>>
    \/ job = "ensemble" /\ EnsembleNext /\ UNCHANGED <<job, hourlyVars, storeVars>>
    \/ Ingestion(StoreNext)

Spec == Init /\ [][Next]_vars

(* Airflow starts what may start, and ends what runs for too long; a run of *)
(* the ingestor is executed, and the database breaks deadlocks.             *)
FairSpec ==
    /\ Spec
    /\ \A t \in Tasks : WF_vars(Hourly(t))
    /\ \A r \in Runs : WF_vars(Ingestion(Ingest(r))) /\ WF_vars(Ingestion(BreakDeadlock(r)))

(* A calm hour: no task fails whose program can end well.                   *)
Calm == \A t \in Tasks : status[t] = "running" /\ CanSucceed(t) =>
            status'[t] \in {"running", "success"}

CalmSpec == Init /\ [][Next /\ Calm]_vars

(* The types of all jobs.                                                   *)
JobsTypeOK == HourlyTypeOK /\ EnsembleTypeOK /\ StoreTypeOK
=============================================================================
