----------------------- MODULE HourlyValidationProofs -----------------------
(***************************************************************************)
(* Theorems about HourlyValidation, for every suite, every set of failures  *)
(* and deployments, and every number of retries.                            *)
(***************************************************************************)
EXTENDS HourlyValidation, FiniteSetTheorems, TLAPS

LEMMA SeqElements ==
    ASSUME NEW S, NEW s \in Seq(S)
    PROVE  \A m \in DOMAIN s : s[m] \in S
OBVIOUS

LEMMA PercentInt ==
    ASSUME NEW n \in Nat, NEW d \in Nat \ {0}
    PROVE  Percent(n, d) \in Int
<1>1. 20000 * n + d \in Int /\ 2 * d \in Nat \ {0}
  OBVIOUS
<1>2. ASSUME NEW x \in Int, NEW y \in Nat \ {0}
      PROVE  x \div y \in Int
  OBVIOUS
<1> QED
  BY <1>1, <1>2 DEF Percent

LEMMA DimensionScoreInt ==
    ASSUME NEW failed \in SUBSET Suite, NEW i \in 1..6
    PROVE  DimensionScore(i, failed) \in Int
<1> DEFINE of == {x \in Suite : CountsFor(x.type, i)}
<1>1. IsFiniteSet(of) /\ IsFiniteSet(of \ failed)
  BY FS_Subset, HourlyAssumption DEF HourlyAssumption
<1>2. Cardinality(of) \in Nat /\ Cardinality(of \ failed) \in Nat
  BY <1>1, FS_CardinalityType
<1>3. CASE of = {}
  BY <1>3 DEF DimensionScore
<1>4. CASE of # {}
  <2>1. Cardinality(of) # 0
    BY <1>1, <1>4, FS_EmptySet
  <2>2. Percent(Cardinality(of \ failed), Cardinality(of)) \in Int
    BY <1>2, <2>1, PercentInt
  <2> QED
    BY <1>4, <2>2 DEF DimensionScore
<1> QED
  BY <1>3, <1>4

LEMMA OverallScoreInt ==
    ASSUME NEW failed \in SUBSET Suite
    PROVE  OverallScore(failed) \in Int
<1>1. \A i \in 1..6 : DimensionScore(i, failed) \in Int
  BY DimensionScoreInt
<1>2. \A i \in 1..6 : Dimensions[i].weight \in Int
  BY DEF Dimensions
<1>3. \A i \in 1..6 : Dimensions[i].weight * DimensionScore(i, failed) \in Int
  BY <1>1, <1>2
<1>4. ASSUME NEW x \in Int PROVE (x + 50) \div 100 \in Int
  OBVIOUS
<1> DEFINE W(i) == Dimensions[i].weight * DimensionScore(i, failed)
<1>5. W(1) \in Int /\ W(2) \in Int /\ W(3) \in Int /\ W(4) \in Int /\ W(5) \in Int
      /\ W(6) \in Int
  BY <1>3
<1> HIDE DEF W
<1>6. (W(1) + W(2) + W(3) + W(4) + W(5) + W(6) + 50) \div 100 \in Int
  BY <1>5
<1> QED
  BY <1>6 DEF OverallScore, W

(* An alert carries the score and the severity of one set of failures; both *)
(* ends of the queue escalate below 60.                                     *)
LEMMA AlertSeverity ==
    ASSUME NEW failed \in SUBSET Suite
    PROVE  ComputeSeverity(ValidationAlert(failed)) = ValidationSeverity(OverallScore(failed))
<1> DEFINE overall == OverallScore(failed)
<1>1. overall \in Int
  BY OverallScoreInt
<1>2. ValidationAlert(failed).severity = ValidationSeverity(overall)
      /\ ValidationAlert(failed).dq_score = overall
  BY DEF ValidationAlert
<1> HIDE DEF overall
<1> QED
  BY <1>1, <1>2 DEF ComputeSeverity, ValidationSeverity, Severities, overall

-----------------------------------------------------------------------------
(* Types.                                                                   *)

LEMMA AlertType ==
    ASSUME HourlyTypeOK, NEW failed \in SUBSET Suite, tries["ge"] \in 1..(Retries + 1)
    PROVE  ValidationAlert(failed) \in ValidationAlerts
<1>1. OverallScore(failed) \in Int
  BY OverallScoreInt
<1>2. ValidationSeverity(OverallScore(failed)) \in Severities
  BY DEF ValidationSeverity, Severities
<1> QED
  BY <1>1, <1>2 DEF ValidationAlert, ValidationAlerts

(* A running task has been started at least once and at most Retries + 1    *)
(* times, and one that waits for a retry has a try left.                    *)
TriesLeft ==
    \A t \in Tasks :
       /\ status[t] = "none" => tries[t] = 0
       /\ status[t] = "running" => tries[t] \in 1..(Retries + 1)
       /\ status[t] = "up_for_retry" => tries[t] \in 1..Retries

(* The process exits with what run_suite returned.                          *)
ExitReturns == step = "exit" => returned # "none"

HourlyTypes == HourlyTypeOK /\ TriesLeft /\ ExitReturns

LEMMA HourlyTypesInit == HourlyInit => HourlyTypes
<1> SUFFICES ASSUME HourlyInit PROVE HourlyTypes
  OBVIOUS
<1>1. alerts \in Seq(ValidationAlerts)
  BY DEF HourlyInit
<1>2. Retries \in Nat /\ "ge" \in Tasks
  BY HourlyAssumption DEF HourlyAssumption, Tasks
<1> QED
  BY <1>1, <1>2 DEF HourlyInit, HourlyTypes, HourlyTypeOK, TriesLeft, ExitReturns, Finished

LEMMA HourlyTypesStep == HourlyTypes /\ [HourlyNext]_hourlyVars => HourlyTypes'
<1> SUFFICES ASSUME HourlyTypes, [HourlyNext]_hourlyVars PROVE HourlyTypes'
  OBVIOUS
<1> USE DEF HourlyTypes, ExitReturns
<1>0. Retries \in Nat /\ "ge" \in Tasks /\ FailureSets \subseteq SUBSET Suite
  BY HourlyAssumption DEF HourlyAssumption, Tasks
<1>1. CASE UNCHANGED hourlyVars
  BY <1>1 DEF hourlyVars, processVars, HourlyTypeOK, TriesLeft
<1>2. CASE NextRun
  <2>1. alerts' \in Seq(ValidationAlerts)
    BY <1>2 DEF NextRun
  <2>2. status["ge"] # "running"
    BY <1>0, <1>2 DEF NextRun, RunOver, Finished
  <2> QED
    BY <1>0, <1>2, <2>1, <2>2 DEF NextRun, processVars, HourlyTypeOK, TriesLeft
<1>3. ASSUME NEW t \in Tasks, Start(t) PROVE HourlyTypes'
  <2>1. tries[t] \in 0..Retries
    BY <1>0, <1>3 DEF Start, HourlyTypeOK, TriesLeft
  <2>2. t # "ge" => (status["ge"] = "running") = (step # "none")
    BY DEF HourlyTypeOK
  <2>3. HourlyTypeOK'
    BY <1>0, <1>3, <2>1, <2>2 DEF Start, HourlyTypeOK
  <2>4. TriesLeft'
    BY <1>0, <1>3, <2>1 DEF Start, HourlyTypeOK, TriesLeft
  <2>5. ExitReturns'
    BY <1>3 DEF Start
  <2> QED
    BY <2>3, <2>4, <2>5
<1>4. ASSUME NEW t \in Tasks, GiveUp(t) PROVE HourlyTypes'
  BY <1>0, <1>4 DEF GiveUp, processVars, HourlyTypeOK, TriesLeft, Finished
<1>5. ASSUME NEW t \in Tasks, Succeed(t) PROVE HourlyTypes'
  BY <1>0, <1>5 DEF Succeed, processVars, HourlyTypeOK, TriesLeft, Finished
<1>6. ASSUME NEW t \in Tasks, status[t] = "running"
      PROVE  /\ AfterFailure(t) \in {"up_for_retry", "failed"}
             /\ AfterFailure(t) = "up_for_retry" => tries[t] \in 1..Retries
  BY <1>0, <1>6 DEF AfterFailure, HourlyTypeOK, TriesLeft
<1>7. ASSUME NEW t \in Tasks, Fail(t) PROVE HourlyTypes'
  BY <1>0, <1>6, <1>7 DEF Fail, processVars, HourlyTypeOK, TriesLeft, Finished
<1>8. ASSUME NEW t \in Tasks, Kill(t) PROVE HourlyTypes'
  <2>1. CASE t = "ge"
    <3>1. orphans' \subseteq ValidationAlerts
      <4>1. tries["ge"] \in 1..(Retries + 1)
        BY <1>0, <1>8, <2>1 DEF Kill, TriesLeft
      <4>2. MayPush \subseteq ValidationAlerts
        BY <1>0, <4>1, AlertType DEF MayPush, HourlyTypeOK
      <4> QED
        BY <1>8, <2>1, <4>2 DEF Kill, HourlyTypeOK
    <3> QED
      BY <1>0, <1>6, <1>8, <2>1, <3>1 DEF Kill, HourlyTypeOK, TriesLeft, Finished
  <2>2. CASE t # "ge"
    BY <1>0, <1>6, <1>8, <2>2 DEF Kill, processVars, HourlyTypeOK, TriesLeft, Finished
  <2> QED
    BY <2>1, <2>2
<1>9. CASE Validate
  <2>1. CASE OpenContext
    BY <2>1 DEF OpenContext, Return, HourlyTypeOK, TriesLeft
  <2>2. CASE RunCheckpoint
    BY <1>0, <2>2 DEF RunCheckpoint, Return, HourlyTypeOK, TriesLeft
  <2>3. CASE SuiteError
    BY <2>3 DEF SuiteError, Return, HourlyTypeOK, TriesLeft
  <2>4. ASSUME step = "publish"
        PROVE  ValidationAlert(failing) \in ValidationAlerts
    BY <1>0, <2>4, AlertType DEF HourlyTypeOK, TriesLeft
  <2>5. CASE PublishAlert
    BY <2>4, <2>5 DEF PublishAlert, Return, HourlyTypeOK, TriesLeft
  <2>6. CASE PublishError
    <3>1. CASE alerts' = alerts
      BY <2>6, <3>1 DEF PublishError, Return, HourlyTypeOK, TriesLeft
    <3>2. CASE alerts' = Append(alerts, ValidationAlert(failing))
      BY <2>4, <2>6, <3>2 DEF PublishError, Return, HourlyTypeOK, TriesLeft
    <3> QED
      BY <2>6, <3>1, <3>2 DEF PublishError
  <2>7. CASE Exit
    <3>1. status["ge"] = "running" /\ tries["ge"] \in 1..(Retries + 1)
      BY <1>0, <2>7 DEF Exit, HourlyTypeOK, TriesLeft
    <3>2. returned \in {"checked", "stub"}
      BY <2>7 DEF Exit, HourlyTypeOK
    <3>3. [try |-> tries["ge"], failing |-> failing, returned |-> returned, code |-> ExitCode]
            \in [try : 1..(Retries + 1), failing : SUBSET Suite,
                 returned : {"checked", "stub"}, code : {0, 1}]
      BY <3>1, <3>2 DEF ExitCode, HourlyTypeOK
    <3>4. status'["ge"] \in {"success", "up_for_retry", "failed"}
      BY <1>0, <1>6, <2>7, <3>1 DEF Exit, HourlyTypeOK
    <3>5. HourlyTypeOK'
      BY <2>7, <3>3, <3>4 DEF Exit, HourlyTypeOK, Finished
    <3>6. TriesLeft'
      BY <1>6, <2>7, <3>1 DEF Exit, HourlyTypeOK, TriesLeft
    <3>7. ExitReturns'
      BY <2>7 DEF Exit
    <3> QED
      BY <3>5, <3>6, <3>7
  <2> QED
    BY <1>9, <2>1, <2>2, <2>3, <2>5, <2>6, <2>7 DEF Validate
<1>10. CASE OrphanPush
  <2>1. PICK a \in orphans : alerts' = Append(alerts, a) /\ orphans' = orphans \ {a}
    BY <1>10 DEF OrphanPush
  <2>2. alerts' \in Seq(ValidationAlerts)
    BY <2>1 DEF HourlyTypeOK
  <2> QED
    BY <1>10, <2>1, <2>2 DEF OrphanPush, processVars, HourlyTypeOK, TriesLeft
<1> QED
  BY <1>1, <1>2, <1>3, <1>4, <1>5, <1>7, <1>8, <1>9, <1>10 DEF HourlyNext, TaskStep

(* Every variable of the hourly run keeps its type, and no task is started  *)
(* more often than its retries allow.                                       *)
THEOREM HourlyTypeCorrect == HourlySpec => []HourlyTypeOK
<1>1. HourlyTypes => HourlyTypeOK
  BY DEF HourlyTypes
<1> QED
  BY <1>1, HourlyTypesInit, HourlyTypesStep, PTL DEF HourlySpec

-----------------------------------------------------------------------------
(* update_sla_trends.                                                       *)

SlaInv == status["alerts"] # "success" /\ SlaNeverUpdated

LEMMA SlaInvStep ==
    ASSUME ~StopSignals
    PROVE  HourlyTypes /\ SlaInv /\ [HourlyNext]_hourlyVars => SlaInv'
<1> SUFFICES ASSUME HourlyTypes, SlaInv, [HourlyNext]_hourlyVars PROVE SlaInv'
  OBVIOUS
<1> USE DEF SlaInv, SlaNeverUpdated
<1>0. /\ {"ge", "alerts", "sla"} \subseteq Tasks
      /\ "alerts" \in Upstream["sla"]
      /\ status \in [Tasks -> {"none", "running", "up_for_retry"} \cup Finished]
  BY DEF HourlyTypes, HourlyTypeOK, Tasks, Upstream
<1>1. CASE UNCHANGED hourlyVars
  BY <1>1 DEF hourlyVars
<1>2. CASE NextRun
  BY <1>0, <1>2 DEF NextRun
<1>3. ASSUME NEW t \in Tasks, TaskStep(t) PROVE SlaInv'
  <2>1. CASE Start(t)
    BY <1>0, <2>1 DEF Start
  <2>2. CASE GiveUp(t)
    BY <1>0, <2>2 DEF GiveUp
  <2>3. CASE Succeed(t)
    BY <1>0, <2>3 DEF Succeed, CanSucceed
  <2>4. CASE Fail(t) \/ Kill(t)
    BY <1>0, <2>4 DEF Fail, Kill, AfterFailure
  <2>5. CASE Validate
    BY <1>0, <2>5 DEF Validate, OpenContext, RunCheckpoint, SuiteError, PublishAlert,
                      PublishError, Exit
  <2> QED
    BY <1>3, <2>1, <2>2, <2>3, <2>4, <2>5 DEF TaskStep
<1>4. CASE OrphanPush
  BY <1>4 DEF OrphanPush
<1> QED
  BY <1>1, <1>2, <1>3, <1>4 DEF HourlyNext

(* SlaUpdated is not refuted by a rare schedule: unless someone signals the *)
(* alert processor update_sla_trends never runs, for any deployment and     *)
(* however often a task is retried, as process_alert_queue never succeeds.  *)
THEOREM SlaNeverRuns ==
    ASSUME ~StopSignals
    PROVE  HourlySpec => []SlaNeverUpdated
<1>1. HourlyInit => SlaInv
  BY DEF HourlyInit, SlaInv, SlaNeverUpdated, Tasks
<1>2. SlaInv => SlaNeverUpdated
  BY DEF SlaInv
<1> QED
  BY <1>1, <1>2, HourlyTypesInit, HourlyTypesStep, SlaInvStep, PTL DEF HourlySpec

-----------------------------------------------------------------------------
(* What the tries of run_ge_validation leave behind.                        *)

(* No alert and no exit is of a later try, nor an exit of the one at work.  *)
TriesBehind ==
    /\ \A m \in DOMAIN alerts : alerts[m].try <= tries["ge"]
    /\ \A e \in ended : e.try <= tries["ge"] /\ (step # "none" => e.try < tries["ge"])

(* How far the try at work is: it alerts as its last step but one, and if   *)
(* it goes on from there without the stub results, the alert is on the list. *)
TryAtWork ==
    /\ step \in {"context", "suite", "publish"} =>
          \A m \in DOMAIN alerts : alerts[m].try # tries["ge"]
    /\ step \in {"none", "context", "suite"} => failing = {}
    /\ step = "publish" => failing # {}
    /\ step = "exit" =>
          /\ failing = {} => \A m \in DOMAIN alerts : alerts[m].try # tries["ge"]
          /\ failing # {} /\ returned = "checked" =>
                \E m \in DOMAIN alerts :
                   /\ alerts[m].try = tries["ge"]
                   /\ ComputeSeverity(alerts[m]) = ValidationSeverity(OverallScore(failing))

(* An orphan is of a try that is over, did not exit and has not alerted, and *)
(* each try has one.                                                        *)
OrphansApart ==
    \A a \in orphans :
       /\ a.try <= tries["ge"]
       /\ step # "none" => a.try < tries["ge"]
       /\ \A m \in DOMAIN alerts : alerts[m].try # a.try
       /\ \A e \in ended : e.try # a.try
       /\ \A b \in orphans : b.try = a.try => b = a

AlertsInv == AlertsMatchTries /\ TriesBehind /\ TryAtWork /\ OrphansApart

AppendedAlert ==
    /\ step = "publish"
    /\ alerts' = Append(alerts, ValidationAlert(failing))
    /\ UNCHANGED <<tries, failing, orphans, ended>>
    /\ step' = "exit"

(* What the push adds is the one alert of the try at work.                  *)
LEMMA AppendKeepsInv ==
    ASSUME HourlyTypes, AlertsInv, AppendedAlert, failing # {}
    PROVE  AlertsInv'
<1>1. /\ DOMAIN alerts = 1..Len(alerts) /\ Len(alerts) \in Nat
      /\ DOMAIN alerts' = 1..(Len(alerts) + 1)
      /\ \A m \in DOMAIN alerts : alerts'[m] = alerts[m]
      /\ alerts'[Len(alerts) + 1] = ValidationAlert(failing)
  BY DEF AppendedAlert, HourlyTypes, HourlyTypeOK
<1>2. /\ ValidationAlert(failing).try = tries["ge"]
      /\ ComputeSeverity(ValidationAlert(failing)) = ValidationSeverity(OverallScore(failing))
  <2>1. failing \in SUBSET Suite
    BY DEF HourlyTypes, HourlyTypeOK
  <2> QED
    BY <2>1, AlertSeverity DEF ValidationAlert
<1>3. \A m \in DOMAIN alerts : alerts[m].try # tries["ge"]
  BY DEF AlertsInv, TryAtWork, AppendedAlert
<1>4. \A m \in DOMAIN alerts' : m \in DOMAIN alerts \/ m = Len(alerts) + 1
  BY <1>1
<1>5. \A e \in ended : e.try < tries["ge"]
  BY DEF AlertsInv, TriesBehind, AppendedAlert
<1>6. tries["ge"] \in Int
  BY HourlyAssumption DEF HourlyAssumption, HourlyTypes, HourlyTypeOK, Tasks
<1>7. TriesBehind'
  BY <1>1, <1>2, <1>4, <1>5, <1>6 DEF AlertsInv, TriesBehind, AppendedAlert
<1>8. TryAtWork'
  <2>1. Len(alerts) + 1 \in DOMAIN alerts'
    BY <1>1
  <2> QED
    BY <1>1, <1>2, <2>1 DEF TryAtWork, AppendedAlert
<1>9. AlertsMatchTries'
  <2>1. \A m, n \in DOMAIN alerts' : alerts'[m].try = alerts'[n].try => m = n
    BY <1>1, <1>2, <1>3, <1>4 DEF AlertsInv, AlertsMatchTries
  <2>2. ASSUME NEW e \in ended
        PROVE  /\ e.code = 1 =>
                     \E m \in DOMAIN alerts' :
                        /\ alerts'[m].try = e.try
                        /\ ComputeSeverity(alerts'[m])
                              = ValidationSeverity(OverallScore(e.failing))
               /\ e.code = 0 => e.failing = {} \/ e.returned = "stub"
               /\ e.failing = {} => \A m \in DOMAIN alerts' : alerts'[m].try # e.try
    <3>1. e.try # tries["ge"]
      BY <1>5, <1>6, <2>2 DEF HourlyTypes, HourlyTypeOK
    <3>2. DOMAIN alerts \subseteq DOMAIN alerts'
      BY <1>1
    <3> QED
      BY <1>1, <1>2, <1>4, <3>1, <3>2 DEF AlertsInv, AlertsMatchTries
  <2> QED
    BY <2>1, <2>2 DEF AlertsMatchTries, AppendedAlert
<1>10. OrphansApart'
  BY <1>1, <1>2, <1>4, <1>5, <1>6 DEF AlertsInv, OrphansApart, AppendedAlert
<1> QED
  BY <1>7, <1>8, <1>9, <1>10 DEF AlertsInv

(* What the steps of the other tasks leave alone.                           *)
LEMMA OtherTasksKeepInv ==
    ASSUME AlertsInv, tries'["ge"] = tries["ge"],
           UNCHANGED <<step, failing, returned, alerts, orphans, ended>>
    PROVE  AlertsInv'
BY DEF AlertsInv, AlertsMatchTries, TriesBehind, TryAtWork, OrphansApart

LEMMA AlertsInvStep == HourlyTypes /\ AlertsInv /\ [HourlyNext]_hourlyVars => AlertsInv'
<1> SUFFICES ASSUME HourlyTypes, AlertsInv, [HourlyNext]_hourlyVars PROVE AlertsInv'
  OBVIOUS
<1>0. /\ "ge" \in Tasks /\ tries["ge"] \in Int
      /\ tries \in [Tasks -> 0..(Retries + 1)]
      /\ \A m \in DOMAIN alerts : alerts[m].try \in Int
      /\ \A a \in orphans : a.try \in Int
      /\ \A e \in ended : e.try \in Int
      /\ (status["ge"] = "running") = (step # "none")
  <2>1. \A m \in DOMAIN alerts : alerts[m] \in ValidationAlerts
    BY SeqElements DEF HourlyTypes, HourlyTypeOK
  <2>2. \A a \in ValidationAlerts : a.try \in Int
    BY HourlyAssumption DEF HourlyAssumption, ValidationAlerts
  <2> QED
    BY <2>1, <2>2, HourlyAssumption
    DEF HourlyAssumption, HourlyTypes, HourlyTypeOK, Tasks
<1>1. CASE UNCHANGED hourlyVars
  BY <1>1, OtherTasksKeepInv DEF hourlyVars, processVars
<1>2. CASE NextRun
  <2>1. step = "none"
    BY <1>0, <1>2 DEF NextRun, RunOver, Finished
  <2> QED
    BY <1>2, <2>1 DEF NextRun, processVars, AlertsInv, AlertsMatchTries, TriesBehind, TryAtWork,
      OrphansApart
<1>3. ASSUME NEW t \in Tasks, Start(t) PROVE AlertsInv'
  <2>1. CASE t # "ge"
    <3>1. tries'["ge"] = tries["ge"]
      BY <1>0, <1>3, <2>1 DEF Start
    <3> QED
      BY <1>3, <2>1, <3>1, OtherTasksKeepInv DEF Start
  <2>2. CASE t = "ge"
    <3>1. step = "none" /\ step' = "context" /\ tries'["ge"] = tries["ge"] + 1
      BY <1>0, <1>3, <2>2 DEF Start
    <3>2. failing' = {}
      BY <1>3, <3>1 DEF Start, AlertsInv, TryAtWork
    <3> QED
      BY <1>0, <1>3, <3>1, <3>2
      DEF Start, AlertsInv, AlertsMatchTries, TriesBehind, TryAtWork,
      OrphansApart
  <2> QED
    BY <2>1, <2>2
<1>4. ASSUME NEW t \in Tasks, GiveUp(t) \/ Succeed(t) \/ Fail(t) PROVE AlertsInv'
  BY <1>4, OtherTasksKeepInv DEF GiveUp, Succeed, Fail, processVars
<1>5. ASSUME NEW t \in Tasks, Kill(t) PROVE AlertsInv'
  <2>1. CASE t # "ge"
    BY <1>5, <2>1, OtherTasksKeepInv DEF Kill, processVars
  <2>2. CASE t = "ge"
    <3>1. step # "none" /\ step' = "none" /\ failing' = {}
          /\ UNCHANGED <<tries, alerts, ended>>
      BY <1>0, <1>5, <2>2 DEF Kill
    <3>2. AlertsMatchTries' /\ TriesBehind' /\ TryAtWork'
      BY <1>0, <3>1 DEF AlertsInv, AlertsMatchTries, TriesBehind, TryAtWork
    <3>3. ASSUME NEW a \in MayPush
          PROVE  a.try = tries["ge"] /\ step \in {"context", "suite", "publish"}
      BY <3>3 DEF MayPush, ValidationAlert
    <3>4. \A a \in orphans' : a \in orphans \/ a \in MayPush
      BY <1>5, <2>2 DEF Kill
    <3>5. \A a, b \in orphans' : a \in orphans \/ b \in orphans \/ a = b
      BY <1>5, <2>2 DEF Kill
    <3>6. \A a \in orphans : a.try < tries["ge"]
      BY <3>1 DEF AlertsInv, OrphansApart
    <3>7. OrphansApart'
      <4> SUFFICES ASSUME NEW a \in orphans'
                   PROVE  /\ a.try <= tries["ge"]
                          /\ \A m \in DOMAIN alerts : alerts[m].try # a.try
                          /\ \A e \in ended : e.try # a.try
                          /\ \A b \in orphans' : b.try = a.try => b = a
        BY <3>1 DEF OrphansApart
      <4>1. CASE a \in orphans
        BY <1>0, <3>3, <3>4, <3>6, <4>1 DEF AlertsInv, OrphansApart
      <4>2. CASE a \in MayPush
        <5>1. a.try = tries["ge"]
          BY <3>3, <4>2
        <5>2. \A m \in DOMAIN alerts : alerts[m].try # tries["ge"]
          BY <3>3, <4>2 DEF AlertsInv, TryAtWork
        <5>3. \A e \in ended : e.try < tries["ge"]
          BY <3>1 DEF AlertsInv, TriesBehind
        <5>4. \A b \in orphans' : b.try = a.try => b = a
          BY <1>0, <3>4, <3>5, <3>6, <4>2, <5>1 DEF AlertsInv, OrphansApart
        <5> QED
          BY <1>0, <5>1, <5>2, <5>3, <5>4
      <4> QED
        BY <3>4, <4>1, <4>2
    <3> QED
      BY <3>2, <3>7 DEF AlertsInv
  <2> QED
    BY <2>1, <2>2
<1>6. CASE OpenContext \/ RunCheckpoint \/ SuiteError
  BY <1>6 DEF OpenContext, RunCheckpoint, SuiteError, Return,
              AlertsInv, AlertsMatchTries, TriesBehind, TryAtWork,
      OrphansApart
<1>7. CASE PublishAlert \/ PublishError
  <2>1. failing # {}
    BY <1>7 DEF PublishAlert, PublishError, AlertsInv, TryAtWork
  <2>2. CASE alerts' = Append(alerts, ValidationAlert(failing))
    BY <1>7, <2>1, <2>2, AppendKeepsInv DEF PublishAlert, PublishError, Return, AppendedAlert
  <2>3. CASE PublishError /\ alerts' = alerts
    BY <2>1, <2>3 DEF PublishError, Return, AlertsInv, AlertsMatchTries, TriesBehind, TryAtWork,
      OrphansApart
  <2> QED
    BY <1>7, <2>2, <2>3 DEF PublishAlert, PublishError
<1>8. CASE Exit
  <2> DEFINE e == [try |-> tries["ge"], failing |-> failing,
                   returned |-> returned, code |-> ExitCode]
  <2>1. /\ step = "exit" /\ step' = "none" /\ failing' = {} /\ ended' = ended \cup {e}
        /\ UNCHANGED <<tries, alerts>>
        /\ e.try = tries["ge"] /\ e.failing = failing /\ e.returned = returned
        /\ e.code \in {0, 1}
        /\ (e.code = 1) = (returned = "checked" /\ failing # {})
    BY <1>8 DEF Exit, ExitCode
  <2> HIDE DEF e
  <2>2. /\ e.code = 1 =>
              \E m \in DOMAIN alerts :
                 /\ alerts[m].try = e.try
                 /\ ComputeSeverity(alerts[m]) = ValidationSeverity(OverallScore(e.failing))
        /\ e.code = 0 => e.failing = {} \/ e.returned = "stub"
        /\ e.failing = {} => \A m \in DOMAIN alerts : alerts[m].try # e.try
    BY <2>1 DEF AlertsInv, TryAtWork, HourlyTypes, HourlyTypeOK, ExitReturns
  <2>3. AlertsMatchTries'
    BY <2>1, <2>2 DEF AlertsInv, AlertsMatchTries
  <2>4. TriesBehind' /\ TryAtWork'
    BY <1>0, <2>1 DEF AlertsInv, TriesBehind, TryAtWork
  <2>5. OrphansApart'
    BY <1>0, <1>8, <2>1 DEF Exit, AlertsInv, OrphansApart
  <2> QED
    BY <2>3, <2>4, <2>5 DEF AlertsInv
<1>9. CASE OrphanPush
  <2>1. PICK a \in orphans : alerts' = Append(alerts, a) /\ orphans' = orphans \ {a}
    BY <1>9 DEF OrphanPush
  <2>2. UNCHANGED <<tries, step, failing, returned, ended>>
    BY <1>9 DEF OrphanPush, processVars
  <2>3. /\ Len(alerts) \in Nat
        /\ DOMAIN alerts = 1..Len(alerts) /\ DOMAIN alerts' = 1..(Len(alerts) + 1)
        /\ \A m \in DOMAIN alerts : alerts'[m] = alerts[m]
        /\ alerts'[Len(alerts) + 1] = a
    BY <2>1 DEF HourlyTypes, HourlyTypeOK
  <2>4. \A m \in DOMAIN alerts' : m \in DOMAIN alerts \/ m = Len(alerts) + 1
    BY <2>3
  <2>5. DOMAIN alerts \subseteq DOMAIN alerts'
    BY <2>3
  <2>6. /\ a.try <= tries["ge"] /\ (step # "none" => a.try < tries["ge"])
        /\ \A m \in DOMAIN alerts : alerts[m].try # a.try
        /\ \A e \in ended : e.try # a.try
        /\ \A b \in orphans \ {a} : b.try # a.try
    BY DEF AlertsInv, OrphansApart
  <2>7. AlertsMatchTries'
    <3>1. \A m, n \in DOMAIN alerts' : alerts'[m].try = alerts'[n].try => m = n
      BY <2>3, <2>4, <2>6 DEF AlertsInv, AlertsMatchTries
    <3>2. \A e \in ended :
             /\ e.code = 1 =>
                   \E m \in DOMAIN alerts' :
                      /\ alerts'[m].try = e.try
                      /\ ComputeSeverity(alerts'[m])
                            = ValidationSeverity(OverallScore(e.failing))
             /\ e.code = 0 => e.failing = {} \/ e.returned = "stub"
             /\ e.failing = {} => \A m \in DOMAIN alerts' : alerts'[m].try # e.try
      BY <2>3, <2>4, <2>5, <2>6 DEF AlertsInv, AlertsMatchTries
    <3> QED
      BY <2>2, <3>1, <3>2 DEF AlertsMatchTries
  <2>8. TriesBehind'
    BY <2>2, <2>3, <2>4, <2>6 DEF AlertsInv, TriesBehind
  <2>9. TryAtWork'
    BY <1>0, <2>2, <2>3, <2>4, <2>5, <2>6 DEF AlertsInv, TryAtWork
  <2>10. OrphansApart'
    BY <2>1, <2>2, <2>3, <2>4, <2>6 DEF AlertsInv, OrphansApart
  <2> QED
    BY <2>7, <2>8, <2>9, <2>10 DEF AlertsInv
<1> QED
  BY <1>1, <1>2, <1>3, <1>4, <1>5, <1>6, <1>7, <1>8, <1>9
  DEF HourlyNext, TaskStep, Validate

(* The alerts on the list and the exits of run_ge_validation agree after    *)
(* every try, for every suite and any number of retries.                    *)
THEOREM AlertsAgree == HourlySpec => []AlertsMatchTries
<1>1. HourlyInit => AlertsInv
  BY DEF HourlyInit, AlertsInv, AlertsMatchTries, TriesBehind, TryAtWork,
      OrphansApart
<1>2. AlertsInv => AlertsMatchTries
  BY DEF AlertsInv
<1> QED
  BY <1>1, <1>2, HourlyTypesInit, HourlyTypesStep, AlertsInvStep, PTL DEF HourlySpec

-----------------------------------------------------------------------------
(* The end of a run.                                                        *)

(* The steps of the validation process up to its end.                       *)
ProcessSteps ==
    CASE step = "context" -> 4
      [] step = "suite"   -> 3
      [] step = "publish" -> 2
      [] OTHER            -> 1

(* The steps a task takes at most: five for each try of the validation that *)
(* is left and two for each of another task.                                *)
StepsLeft(t) ==
    IF status[t] \in Finished THEN 0
    ELSE IF t = "ge"
         THEN 5 * (Retries + 1 - tries[t]) + (IF status[t] = "running" THEN ProcessSteps ELSE 0)
         ELSE 2 * (Retries + 1 - tries[t]) + (IF status[t] = "running" THEN 1 ELSE 0)

RunStepsLeft ==
    StepsLeft("ge") + StepsLeft("scoring") + StepsLeft("dbt_run") + StepsLeft("dbt_test")
    + StepsLeft("alerts") + StepsLeft("sla")

StepsTyped ==
    \A t \in Tasks :
       StepsLeft(t) \in 0 .. (IF t = "ge" THEN 5 * (Retries + 1) ELSE 2 * (Retries + 1))

LEMMA StepsLeftTyped == HourlyTypes => StepsTyped
<1> SUFFICES ASSUME HourlyTypes, NEW t \in Tasks
             PROVE  StepsLeft(t)
                       \in 0 .. (IF t = "ge" THEN 5 * (Retries + 1) ELSE 2 * (Retries + 1))
  BY DEF StepsTyped
<1>1. Retries \in Nat /\ tries[t] \in 0..(Retries + 1)
  BY HourlyAssumption DEF HourlyAssumption, HourlyTypes, HourlyTypeOK
<1>2. status[t] = "running" => tries[t] >= 1
  BY <1>1 DEF HourlyTypes, TriesLeft
<1>3. ProcessSteps \in 1..4
  BY DEF ProcessSteps
<1> QED
  BY <1>1, <1>2, <1>3 DEF StepsLeft

LEMMA TaskUsesStep ==
    ASSUME HourlyTypes, NEW t \in Tasks, TaskStep(t)
    PROVE  /\ StepsLeft(t)' < StepsLeft(t)
           /\ \A u \in Tasks \ {t} : StepsLeft(u)' = StepsLeft(u)
<1> USE DEF HourlyTypes
<1>0. /\ Retries \in Nat /\ tries[t] \in 0..(Retries + 1) /\ "ge" \in Tasks
      /\ status \in [Tasks -> {"none", "running", "up_for_retry"} \cup Finished]
      /\ tries \in [Tasks -> 0..(Retries + 1)]
      /\ (status["ge"] = "running") = (step # "none")
      /\ step \in {"none", "context", "suite", "publish", "exit"}
  BY HourlyAssumption DEF HourlyAssumption, HourlyTypeOK, Tasks
<1>1. /\ status[t] = "none" => tries[t] = 0
      /\ status[t] = "running" => tries[t] \in 1..(Retries + 1)
      /\ status[t] = "up_for_retry" => tries[t] \in 1..Retries
  BY DEF TriesLeft
<1>2. CASE Start(t)
  BY <1>0, <1>1, <1>2 DEF Start, StepsLeft, ProcessSteps, Finished
<1>3. CASE GiveUp(t)
  BY <1>0, <1>1, <1>3 DEF GiveUp, processVars, StepsLeft, ProcessSteps, Finished
<1>4. CASE Succeed(t)
  BY <1>0, <1>1, <1>4 DEF Succeed, processVars, StepsLeft, ProcessSteps, Finished
<1>5. CASE Fail(t)
  BY <1>0, <1>1, <1>5 DEF Fail, AfterFailure, processVars, StepsLeft, ProcessSteps, Finished
<1>6. CASE Kill(t)
  BY <1>0, <1>1, <1>6 DEF Kill, AfterFailure, processVars, StepsLeft, ProcessSteps, Finished
<1>7. CASE t = "ge" /\ Exit
  BY <1>0, <1>1, <1>7 DEF Exit, AfterFailure, StepsLeft, ProcessSteps, Finished
<1>8. CASE t = "ge" /\ (OpenContext \/ RunCheckpoint \/ SuiteError \/ PublishAlert \/ PublishError)
  <2>1. /\ status' = status /\ tries' = tries /\ status["ge"] = "running"
        /\ \/ step = "context" /\ step' \in {"suite", "publish", "exit"}
           \/ step = "suite" /\ step' \in {"publish", "exit"}
           \/ step = "publish" /\ step' = "exit"
    BY <1>0, <1>8
    DEF OpenContext, RunCheckpoint, SuiteError, PublishAlert, PublishError, Return
  <2> QED
    BY <1>0, <1>1, <1>8, <2>1 DEF StepsLeft, ProcessSteps, Finished
<1> QED
  BY <1>2, <1>3, <1>4, <1>5, <1>6, <1>7, <1>8 DEF TaskStep, Validate

LEMMA RunUsesStep ==
    ASSUME HourlyTypes, HourlyTypes', NEW t \in Tasks, TaskStep(t)
    PROVE  RunStepsLeft' < RunStepsLeft
<1>1. /\ StepsLeft(t)' < StepsLeft(t)
      /\ \A u \in Tasks \ {t} : StepsLeft(u)' = StepsLeft(u)
  BY TaskUsesStep
<1>2. Retries \in Nat
  BY HourlyAssumption DEF HourlyAssumption
<1>3. \A u \in Tasks : StepsLeft(u) \in Int
  BY <1>2, StepsLeftTyped DEF StepsTyped
<1>4. StepsTyped'
  BY StepsLeftTyped, PTL
<1>5. \A u \in Tasks : StepsLeft(u)' \in Int
  BY <1>2, <1>4 DEF StepsTyped
<1> HIDE DEF StepsLeft
<1> QED
  BY <1>1, <1>3, <1>5 DEF RunStepsLeft, Tasks

(* What RunEnds needs of the dag besides a scheduler: retries and time-outs *)
(* are bounded.  Whatever fails, each step of a task uses up one of at most *)
(* 15 * (retries + 1) of the run; the others begin the next run, or are     *)
(* pushes of processes that outlived a try.                                 *)
THEOREM RunBounded ==
    HourlySpec => /\ [](RunStepsLeft \in 0 .. (15 * (Retries + 1)))
                  /\ [][NextRun \/ OrphanPush \/ RunStepsLeft' < RunStepsLeft]_hourlyVars
<1>1. HourlyTypes => RunStepsLeft \in 0 .. (15 * (Retries + 1))
  <2> SUFFICES ASSUME HourlyTypes PROVE RunStepsLeft \in 0 .. (15 * (Retries + 1))
    OBVIOUS
  <2>1. Retries \in Nat
    BY HourlyAssumption DEF HourlyAssumption
  <2>2. StepsTyped
    BY StepsLeftTyped
  <2>3. /\ StepsLeft("ge") \in 0 .. (5 * (Retries + 1))
        /\ \A t \in Tasks \ {"ge"} : StepsLeft(t) \in 0 .. (2 * (Retries + 1))
    BY <2>2 DEF StepsTyped, Tasks
  <2> HIDE DEF StepsLeft
  <2> QED
    BY <2>1, <2>3 DEF RunStepsLeft, Tasks
<1>2. HourlyTypes /\ HourlyTypes' /\ [HourlyNext]_hourlyVars
         => [NextRun \/ OrphanPush \/ RunStepsLeft' < RunStepsLeft]_hourlyVars
  BY RunUsesStep DEF HourlyNext
<1> QED
  BY <1>1, <1>2, HourlyTypesInit, HourlyTypesStep, PTL DEF HourlySpec

-----------------------------------------------------------------------------
(* A run never comes to a stand before its end.                             *)

CanGoOn(t) ==
    \/ status[t] = "running"
    \/ status[t] \in {"none", "up_for_retry"} /\ \A u \in Upstream[t] : status[u] = "success"
    \/ status[t] = "none" /\ \E u \in Upstream[t] : status[u] \in {"failed", "upstream_failed"}

RunGoesOn == RunOver \/ \E t \in Tasks : CanGoOn(t)

(* A task has begun only after those before it had succeeded.               *)
StartedInOrder ==
    \A t \in Tasks :
       status[t] \in {"running", "up_for_retry"} => \A u \in Upstream[t] : status[u] = "success"

LEMMA StartedInOrderStep ==
    HourlyTypes /\ StartedInOrder /\ [HourlyNext]_hourlyVars => StartedInOrder'
<1> SUFFICES ASSUME HourlyTypes, StartedInOrder, [HourlyNext]_hourlyVars
             PROVE  StartedInOrder'
  OBVIOUS
<1> USE DEF StartedInOrder
<1>0. /\ status \in [Tasks -> {"none", "running", "up_for_retry"} \cup Finished]
      /\ "ge" \in Tasks
      /\ \A t \in Tasks : t \notin Upstream[t] /\ Upstream[t] \subseteq Tasks
      /\ step # "none" => status["ge"] = "running"
  BY DEF HourlyTypes, HourlyTypeOK, Tasks, Upstream
<1>1. CASE UNCHANGED hourlyVars
  BY <1>1 DEF hourlyVars
<1>2. CASE NextRun
  BY <1>0, <1>2 DEF NextRun
<1>3. ASSUME NEW t \in Tasks, TaskStep(t) PROVE StartedInOrder'
  <2>1. CASE Start(t)
    BY <1>0, <2>1 DEF Start
  <2>2. CASE GiveUp(t)
    BY <1>0, <2>2 DEF GiveUp
  <2>3. CASE Succeed(t)
    BY <1>0, <2>3 DEF Succeed
  <2>4. CASE Fail(t) \/ Kill(t)
    BY <1>0, <2>4 DEF Fail, Kill, AfterFailure
  <2>5. CASE Exit
    BY <1>0, <2>5 DEF Exit, AfterFailure
  <2>6. CASE OpenContext \/ RunCheckpoint \/ SuiteError \/ PublishAlert \/ PublishError
    BY <1>0, <2>6 DEF OpenContext, RunCheckpoint, SuiteError, PublishAlert, PublishError
  <2> QED
    BY <1>3, <2>1, <2>2, <2>3, <2>4, <2>5, <2>6 DEF TaskStep, Validate
<1>4. CASE OrphanPush
  BY <1>4 DEF OrphanPush
<1> QED
  BY <1>1, <1>2, <1>3, <1>4 DEF HourlyNext

(* The other half of RunEnds: wherever tasks failed, timed out or gave up,  *)
(* some task is running, may start, or has to give up, until all are done.  *)
THEOREM RunNeverStuck == HourlySpec => []RunGoesOn
<1>1. HourlyInit => StartedInOrder
  BY DEF HourlyInit, StartedInOrder
<1>2. HourlyTypes /\ StartedInOrder => RunGoesOn
  <2> SUFFICES ASSUME HourlyTypes, StartedInOrder, \A t \in Tasks : ~CanGoOn(t)
               PROVE  RunOver
    BY DEF RunGoesOn
  <2>1. \A t \in Tasks : status[t] \in {"none", "running", "up_for_retry"} \cup Finished
    BY DEF HourlyTypes, HourlyTypeOK
  <2>2. ASSUME NEW t \in Tasks, \A u \in Upstream[t] : status[u] \in Finished
        PROVE  status[t] \in Finished
    BY <2>1, <2>2 DEF CanGoOn, StartedInOrder, Finished
  <2>3. status["ge"] \in Finished
    BY <2>2 DEF Tasks, Upstream
  <2>4. status["scoring"] \in Finished /\ status["dbt_run"] \in Finished
    BY <2>2, <2>3 DEF Tasks, Upstream
  <2>5. status["alerts"] \in Finished /\ status["dbt_test"] \in Finished
    BY <2>2, <2>4 DEF Tasks, Upstream
  <2>6. status["sla"] \in Finished
    BY <2>2, <2>5 DEF Tasks, Upstream
  <2> QED
    BY <2>3, <2>4, <2>5, <2>6 DEF RunOver, Tasks
<1> QED
  BY <1>1, <1>2, HourlyTypesInit, HourlyTypesStep, StartedInOrderStep, PTL DEF HourlySpec
=============================================================================
