--------------------------- MODULE BatchJobsProofs ---------------------------
(***************************************************************************)
(* The jobs side by side, in MCBatchJobs, for every value of their          *)
(* constants: a behaviour of them all is a behaviour of each, so that what  *)
(* is proved of a job alone holds beside the others.                        *)
(***************************************************************************)
EXTENDS MCBatchJobs, HourlyValidationProofs, AnomalyEnsembleProofs, DocumentStoreProofs

(* A step of the jobs is a step of each of them or leaves it alone.         *)
LEMMA StepOfHourly == [Next]_vars => [HourlyNext]_hourlyVars
<1> SUFFICES ASSUME [Next]_vars PROVE [HourlyNext]_hourlyVars
  OBVIOUS
<1>1. ASSUME NEW t \in Tasks, Hourly(t) PROVE HourlyNext
  BY <1>1 DEF Hourly, HourlyNext
<1>2. CASE NextRun \/ OrphanPush
  BY <1>2 DEF HourlyNext
<1>3. CASE UNCHANGED hourlyVars
  BY <1>3
<1> QED
  BY <1>1, <1>2, <1>3 DEF Next, Ingestion, vars

LEMMA StepOfEnsemble == [Next]_vars => [EnsembleNext]_ensembleVars
BY DEF Next, vars, Hourly, Ingestion

LEMMA StepOfStore == [Next]_vars => [StoreNext]_storeVars
BY DEF Next, vars, Hourly, Ingestion

(* Whoever runs the hourly dag beside the other jobs sees a behaviour of    *)
(* the dag alone, whatever they do.                                         *)
THEOREM JobsRunHourly == Spec => HourlySpec
BY StepOfHourly, PTL DEF Spec, Init, HourlySpec

(* Whoever trains and scores sees one of the ensemble alone.                *)
THEOREM JobsRunEnsemble == Spec => EnsembleSpec
BY StepOfEnsemble, PTL DEF Spec, Init, EnsembleSpec

(* And whoever ingests and asks sees one of the store alone.                *)
THEOREM JobsRunStore == Spec => StoreSpec
BY StepOfStore, PTL DEF Spec, Init, StoreSpec

(* The variables of all jobs keep their types.                              *)
THEOREM JobsTyped == Spec => []JobsTypeOK
BY JobsRunHourly, JobsRunEnsemble, JobsRunStore, HourlyTypeCorrect, EnsembleTypeCorrect,
   StoreTypesCorrect, PTL
   DEF JobsTypeOK
=============================================================================
