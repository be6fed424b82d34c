--------------------------- MODULE BatchDQMetrics ---------------------------
(***************************************************************************)
(* The arithmetic of one micro-batch: which checks of BatchDQMetrics        *)
(* (src/src/pipeline/spark_consumer.py) an order event passes after the     *)
(* anomaly AnomalyInjector (src/src/pipeline/kafka_producer.py) put in it,  *)
(* the scores of a batch, and the severity of an alert at both ends of the  *)
(* queue.  Scores are integers in hundredths of a point: 8000 is 80.00.     *)
(***************************************************************************)
EXTENDS Integers, FiniteSets

(* What an event can be.  The injector's null_spike counts only when it     *)
(* hits payment_method: the other fields it empties are read by no check,   *)
(* and outlier only when it hits the price.                                 *)
SimulatorKinds == {"clean", "null_spike", "schema_add", "schema_remove",
                   "schema_rename", "outlier", "invalid_enum", "delayed",
                   "duplicate"}

(* Events only other producers of the topic send: JSON without one field of *)
(* the schema, and a payload that is not an order event at all.             *)
ForeignKinds == {"empty", "corrupt"}

EventKinds == SimulatorKinds \cup ForeignKinds

CriticalFields == 5

NullFields(kind) == IF kind = "empty" THEN CriticalFields ELSE 0

(* A renamed order_status reads as null, and null is in no set.             *)
PassesValidity(kind) ==
    kind \notin {"null_spike", "schema_rename", "invalid_enum", "empty"}

PassesFreshness(kind) == kind \notin {"delayed", "empty"}

(* A missing tax_amount makes the sum null, and null is no match.           *)
PassesConsistency(kind) == kind \notin {"schema_remove", "outlier", "empty"}

(* round(n / d * 100, 2)                                                    *)
Percent(n, d) == (20000 * n + d) \div (2 * d)

Share(part, rows) == Percent(Cardinality(part), Cardinality(rows))

Completeness(rows, topic) ==
    LET total == CriticalFields * Cardinality(rows)
        nulls == CriticalFields * Cardinality({i \in rows : NullFields(topic[i].kind) > 0})
    IN  Percent(total - nulls, total)

Validity(rows, topic) == Share({i \in rows : PassesValidity(topic[i].kind)}, rows)

Uniqueness(rows, topic) == Share({topic[i].event_id : i \in rows}, rows)

(* aged is the number of events of the topic that are older than the        *)
(* freshness SLA when the batch is computed, whatever was injected.         *)
Freshness(rows, topic, aged) ==
    Share({i \in rows : i > aged /\ PassesFreshness(topic[i].kind)}, rows)

Consistency(rows, topic) == Share({i \in rows : PassesConsistency(topic[i].kind)}, rows)

Overall(rows, topic, aged) ==
    (  25 * Completeness(rows, topic) + 25 * Validity(rows, topic)
     + 20 * Uniqueness(rows, topic) + 20 * Freshness(rows, topic, aged)
     + 10 * Consistency(rows, topic) + 50) \div 100

Degraded(overall) == overall < 8000

(* The severity a degradation alert is sent with.                           *)
ScoreSeverity(overall) ==
    IF overall < 6000 THEN "critical" ELSE IF overall < 7000 THEN "high" ELSE "medium"

(* SchemaDriftDetector compares the columns of the data frame.  from_json    *)
(* gives every batch all the columns of the schema, whatever the events     *)
(* held, and the reader adds these to them: none is removed and, eight      *)
(* being more than three, the severity is always "medium".                  *)
ReaderColumns == {"kafka_key", "kafka_partition", "kafka_offset", "kafka_timestamp",
                  "event", "raw_value", "processing_timestamp", "pipeline_version"}

DriftSeverity(added, removed, required) ==
    IF removed \cap required # {} THEN "critical"
    ELSE IF removed # {} THEN "high"
    ELSE IF Cardinality(added) > 3 THEN "medium" ELSE "low"

Severities == {"info", "low", "medium", "high", "critical"}

BaseSeverity(type) ==
    CASE type \in {"schema_drift", "dq_score_degradation", "freshness"} -> "high"
      [] type = "duplicate" -> "low"
      [] OTHER -> "medium"

(* Mutant of ComputeSeverity: it escalates at 60, the sender below it.      *)
ComputeSeverityAt60(alert) ==
    IF alert.severity \notin Severities THEN BaseSeverity(alert.type)
    ELSE IF alert.dq_score # -1 /\ alert.dq_score <= 6000 THEN "critical"
    ELSE alert.severity

(* compute_severity of the alert processor.  dq_score is -1 when the alert  *)
(* has none; a score of 0 is falsy, and the overall of "scores", which is   *)
(* the same number for every publisher, is read instead.                    *)
ComputeSeverity(alert) ==
    IF alert.severity \notin Severities THEN BaseSeverity(alert.type)
    ELSE IF alert.dq_score # -1 /\ alert.dq_score < 6000 THEN "critical"
    ELSE alert.severity

=============================================================================
