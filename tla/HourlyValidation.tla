-------------------------- MODULE HourlyValidation --------------------------
(***************************************************************************)
(* One hourly run of intellipipe_dq_pipeline (src/airflow/dags/             *)
(* intellipipe_dags.py) after the other: Airflow starts the tasks in their  *)
(* order and retries them, and run_ge_validation runs the process of        *)
(* GEValidationRunner (src/src/quality/ge_runner.py), followed step by      *)
(* step.  max_active_runs is 1, so that the runs do not overlap, and the    *)
(* state is that of the present one.                                        *)
(***************************************************************************)
EXTENDS BatchDQMetrics, Sequences

CONSTANTS
    Deployments,  \* what may be deployed: its programs, and whether it has a checkpoint
    Suite,        \* the expectations of the suite, [type, column]
    FailureSets,  \* the sets of expectations that may fail together
    Retries,      \* DEFAULT_ARGS["retries"]
    StopSignals   \* whether someone sends SIGTERM to the alert processor of a task

ASSUME HourlyAssumption ==
    /\ IsFiniteSet(Suite)
    /\ FailureSets \subseteq SUBSET Suite
    /\ Retries \in Nat
    /\ StopSignals \in BOOLEAN
    /\ Deployments \subseteq [programs : SUBSET {"batch_scorer", "sla_tracker"},
                              checkpoint : BOOLEAN]

VARIABLES
    deployment,  \* the one at hand, for good
    status,      \* status[t]: the state of the task instance in Airflow
    tries,       \* tries[t]: how often it was started
    step,        \* what the validation process does next, "none" without one
    failing,     \* the expectations that failed in its try
    returned,    \* "checked", "stub" or "none": what run_suite returned
    alerts,      \* the alerts of the run on the Redis list, oldest first
    orphans,     \* the alerts that processes of killed tries may still push
    ended        \* the tries of run_ge_validation whose process exited

processVars == <<step, failing, returned>>
hourlyVars == <<deployment, status, tries, processVars, alerts, orphans, ended>>

Tasks == {"ge", "scoring", "dbt_run", "dbt_test", "alerts", "sla"}

(* ge >> scoring >> alerts, ge >> dbt_run >> dbt_test,                      *)
(* [alerts, dbt_test] >> sla                                                *)
Upstream ==
    [t \in Tasks |->
        CASE t = "ge" -> {}
          [] t \in {"scoring", "dbt_run"} -> {"ge"}
          [] t = "alerts" -> {"scoring"}
          [] t = "dbt_test" -> {"dbt_run"}
          [] t = "sla" -> {"alerts", "dbt_test"}]

Finished == {"success", "failed", "upstream_failed"}

RunOver == \A t \in Tasks : status[t] \in Finished

(* DIMENSION_EXPECTATIONS in its order, with its weights in percent.        *)
Dimensions == <<
    [weight |-> 25, types |-> {"not_be_null", "row_count"}],
    [weight |-> 25, types |-> {"be_in_set", "match_regex", "be_between", "be_of_type"}],
    [weight |-> 20, types |-> {"be_unique", "proportion_of_unique"}],
    [weight |-> 15, types |-> {"row_count"}],
    [weight |-> 10, types |-> {"pair_in_set", "multicolumn_unique"}],
    [weight |->  5, types |-> {"columns_match", "column_exists"}] >>

(* An expectation counts for the first dimension that lists its type: the   *)
(* row count never counts for freshness.                                    *)
CountsFor(type, i) ==
    /\ type \in Dimensions[i].types
    /\ \A j \in 1..(i - 1) : type \notin Dimensions[j].types

(* A dimension nothing was checked for has the full score.                  *)
DimensionScore(i, failed) ==
    LET of == {x \in Suite : CountsFor(x.type, i)}
    IN  IF of = {} THEN 10000
        ELSE Percent(Cardinality(of \ failed), Cardinality(of))

OverallScore(failed) ==
    LET Weighted(i) == Dimensions[i].weight * DimensionScore(i, failed)
    IN  (Weighted(1) + Weighted(2) + Weighted(3) + Weighted(4) + Weighted(5) + Weighted(6)
         + 50) \div 100

ValidationSeverity(overall) ==
    IF overall < 6000 THEN "critical" ELSE IF overall < 7500 THEN "high" ELSE "medium"

ValidationAlert(failed) ==
    [type |-> "ge_validation_failure", try |-> tries["ge"],
     dq_score |-> OverallScore(failed), severity |-> ValidationSeverity(OverallScore(failed))]

HourlyInit ==
    /\ deployment \in Deployments
    /\ status = [t \in Tasks |-> "none"]
    /\ tries = [t \in Tasks |-> 0]
    /\ step = "none" /\ failing = {} /\ returned = "none"
    /\ alerts = <<>>
    /\ orphans = {}
    /\ ended = {}
-----------------------------------------------------------------------------
(* The next hour comes once the run is over.  What a process of this run    *)
(* may still push counts for this run.                                      *)
NextRun ==
    /\ RunOver
    /\ status' = [t \in Tasks |-> "none"]
    /\ tries' = [t \in Tasks |-> 0]
    /\ alerts' = <<>>
    /\ orphans' = {}
    /\ ended' = {}
    /\ UNCHANGED <<deployment, processVars>>

(* A task starts when all tasks before it have succeeded.                   *)
Start(t) ==
    /\ status[t] \in {"none", "up_for_retry"}
    /\ \A u \in Upstream[t] : status[u] = "success"
    /\ status' = [status EXCEPT ![t] = "running"]
    /\ tries' = [tries EXCEPT ![t] = @ + 1]
    /\ step' = IF t = "ge" THEN "context" ELSE step
    /\ UNCHANGED <<deployment, failing, returned, alerts, orphans, ended>>

(* Mutant of GiveUp: only a task before it that ran and failed counts.      *)
GiveUpOnFailure(t) ==
    /\ status[t] = "none"
    /\ \E u \in Upstream[t] : status[u] = "failed"
    /\ status' = [status EXCEPT ![t] = "upstream_failed"]
    /\ UNCHANGED <<deployment, tries, processVars, alerts, orphans, ended>>

GiveUp(t) ==
    /\ status[t] = "none"
    /\ \E u \in Upstream[t] : status[u] \in {"failed", "upstream_failed"}
    /\ status' = [status EXCEPT ![t] = "upstream_failed"]
    /\ UNCHANGED <<deployment, tries, processVars, alerts, orphans, ended>>

(* Mutant of AfterFailure: the retries are not counted.                     *)
AfterAnyFailure(t) == "up_for_retry"

AfterFailure(t) == IF tries[t] <= Retries THEN "up_for_retry" ELSE "failed"

(* Whether the program of a task can exit with 0.  python -m fails for one  *)
(* that is not there, and the alert processor polls until it is signalled.  *)
CanSucceed(t) ==
    \/ t \in {"dbt_run", "dbt_test"}
    \/ t = "alerts" /\ StopSignals
    \/ t = "scoring" /\ "batch_scorer" \in deployment.programs
    \/ t = "sla" /\ "sla_tracker" \in deployment.programs

Succeed(t) ==
    /\ t # "ge"
    /\ status[t] = "running"
    /\ CanSucceed(t)
    /\ status' = [status EXCEPT ![t] = "success"]
    /\ UNCHANGED <<deployment, tries, processVars, alerts, orphans, ended>>

Fail(t) ==
    /\ t # "ge"
    /\ status[t] = "running"
    /\ status' = [status EXCEPT ![t] = AfterFailure(t)]
    /\ UNCHANGED <<deployment, tries, processVars, alerts, orphans, ended>>

(* What the validation process may still push when it outlives its try: the *)
(* alert it is about to push, or that of whatever its checks find.          *)
MayPush ==
    {ValidationAlert(failed) : failed \in
        CASE step = "publish" -> {failing}
          [] step \in {"context", "suite"} /\ deployment.checkpoint -> FailureSets \ {{}}
          [] OTHER -> {}}

(* execution_timeout has passed, or Airflow goes down or loses the task: the *)
(* try has failed wherever it is.  Its process is killed with it or goes on. *)
Kill(t) ==
    /\ status[t] = "running"
    /\ status' = [status EXCEPT ![t] = AfterFailure(t)]
    /\ IF t = "ge"
       THEN /\ step' = "none" /\ failing' = {} /\ returned' = "none"
            /\ orphans' \in {orphans} \cup {orphans \cup {a} : a \in MayPush}
       ELSE UNCHANGED <<processVars, orphans>>
    /\ UNCHANGED <<deployment, tries, alerts, ended>>

(* A process nobody waits for any more gets to its push.                    *)
OrphanPush ==
    /\ \E a \in orphans : alerts' = Append(alerts, a) /\ orphans' = orphans \ {a}
    /\ UNCHANGED <<deployment, status, tries, processVars, ended>>
-----------------------------------------------------------------------------
(* The validation process.                                                  *)

Return(what) == step' = "exit" /\ returned' = what

(* Without a context run_suite returns the stub results.                    *)
OpenContext ==
    /\ step = "context"
    /\ \/ step' = "suite" /\ UNCHANGED returned
       \/ Return("stub")
    /\ UNCHANGED <<deployment, status, tries, failing, alerts, orphans, ended>>

RunCheckpoint ==
    /\ step = "suite"
    /\ deployment.checkpoint
    /\ failing' \in FailureSets
    /\ IF failing' = {} THEN Return("checked") ELSE step' = "publish" /\ UNCHANGED returned
    /\ UNCHANGED <<deployment, status, tries, alerts, orphans, ended>>

(* The suite raises, as it must without a checkpoint: run_suite returns the *)
(* stub results, in which nothing failed.                                   *)
SuiteError ==
    /\ step = "suite"
    /\ Return("stub")
    /\ UNCHANGED <<deployment, status, tries, failing, alerts, orphans, ended>>

PublishAlert ==
    /\ step = "publish"
    /\ alerts' = Append(alerts, ValidationAlert(failing))
    /\ Return("checked")
    /\ UNCHANGED <<deployment, status, tries, failing, orphans, ended>>

(* Mutant of PublishError: a push that fails is ignored.                    *)
PublishErrorIgnored ==
    /\ step = "publish"
    /\ alerts' \in {alerts, Append(alerts, ValidationAlert(failing))}
    /\ Return("checked")
    /\ UNCHANGED <<deployment, status, tries, failing, orphans, ended>>

(* The push raises, whether Redis executed it or not, inside the same try.  *)
PublishError ==
    /\ step = "publish"
    /\ alerts' \in {alerts, Append(alerts, ValidationAlert(failing))}
    /\ Return("stub")
    /\ UNCHANGED <<deployment, status, tries, failing, orphans, ended>>

ExitCode == IF returned = "checked" /\ failing # {} THEN 1 ELSE 0

(* sys.exit, and run_ge_validation raises unless the code is 0.             *)
Exit ==
    /\ step = "exit"
    /\ ended' = ended \cup {[try |-> tries["ge"], failing |-> failing,
                             returned |-> returned, code |-> ExitCode]}
    /\ status' = [status EXCEPT !["ge"] = IF ExitCode = 0 THEN "success"
                                                          ELSE AfterFailure("ge")]
    /\ step' = "none" /\ failing' = {} /\ returned' = "none"
    /\ UNCHANGED <<deployment, tries, alerts, orphans>>

Validate == OpenContext \/ RunCheckpoint \/ SuiteError \/ PublishAlert \/ PublishError \/ Exit

TaskStep(t) ==
    \/ Start(t) \/ GiveUp(t)
    \/ Succeed(t) \/ Fail(t) \/ Kill(t)
    \/ t = "ge" /\ Validate

HourlyNext == NextRun \/ OrphanPush \/ \E t \in Tasks : TaskStep(t)

HourlySpec == HourlyInit /\ [][HourlyNext]_hourlyVars
-----------------------------------------------------------------------------
(* Properties.                                                              *)

ValidationAlerts ==
    [type : {"ge_validation_failure"}, try : 1..(Retries + 1), dq_score : Int,
     severity : Severities]

HourlyTypeOK ==
    /\ deployment \in Deployments
    /\ status \in [Tasks -> {"none", "running", "up_for_retry"} \cup Finished]
    /\ tries \in [Tasks -> 0..(Retries + 1)]
    /\ step \in {"none", "context", "suite", "publish", "exit"}
    /\ failing \in SUBSET Suite
    /\ returned \in {"none", "checked", "stub"}
    /\ alerts \in Seq(ValidationAlerts)
    /\ orphans \subseteq ValidationAlerts
    /\ ended \subseteq [try : 1..(Retries + 1), failing : SUBSET Suite,
                        returned : {"checked", "stub"}, code : {0, 1}]
    /\ (status["ge"] = "running") = (step # "none")

(* What a try of run_ge_validation leaves behind agrees, though processes   *)
(* of killed tries may alert at any later time: no try alerts twice; one    *)
(* that failed on its checks has an alert on the list, which the alert      *)
(* processor gives the severity the score stands for; one that passed saw   *)
(* no check fail or fell back to the stub results; and one that saw no      *)
(* check fail has not alerted.                                              *)
AlertsMatchTries ==
    /\ \A m, n \in DOMAIN alerts : alerts[m].try = alerts[n].try => m = n
    /\ \A e \in ended :
          /\ e.code = 1 =>
                \E m \in DOMAIN alerts :
                   /\ alerts[m].try = e.try
                   /\ ComputeSeverity(alerts[m])
                         = ValidationSeverity(OverallScore(e.failing))
          /\ e.code = 0 => e.failing = {} \/ e.returned = "stub"
          /\ e.failing = {} => \A m \in DOMAIN alerts : alerts[m].try # e.try

(* What the dag promises where nothing else fails: an hourly run in which   *)
(* the scoring and the dbt tests succeed drains the alert queue and ends    *)
(* with the SLA trends of its hour updated.                                 *)
SlaUpdated ==
    RunOver /\ status["scoring"] = "success" /\ status["dbt_test"] = "success" =>
        status["sla"] = "success"

(* What it does unless someone signals the alert processor: the update      *)
(* never runs, whatever is deployed, as it waits for process_alert_queue,   *)
(* whose program does not end by itself.                                    *)
SlaNeverUpdated == status["sla"] \in {"none", "upstream_failed"}

(* An hourly run ends, however its tasks fail, so that the next can begin.  *)
RunEnds == (status["ge"] = "running") ~> RunOver
=============================================================================
