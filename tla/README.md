# IntelliPipe in TLA+

IntelliPipe watches data pipelines. A Kafka stream of order events is read by Spark, which
measures the quality of each batch and pushes *alerts* on a Redis list. Workers take the alerts
from the list, have a language model find the cause and write a fix, open a pull request, a
ticket and a chat message, and record an *incident* in PostgreSQL. An HTTP API shows scores and
alerts on dashboards.

This directory holds a formal model of the parts of the system where concurrency, failure and
order decide whether it is correct: the way of an order event from its producer through Kafka and
Spark to an alert, of an alert from the Redis list to its end, and the jobs beside them: the hourly
validation, the anomaly ensemble and the ingestion of documentation. Paths below are relative to
the repository; `AP` stands for `src/agents/alert_processor.py`, `LA` for
`src/agents/langchain_agent.py`, `KP` for `src/pipeline/kafka_producer.py`, `SC` for
`src/pipeline/spark_consumer.py`, `GE` for `src/quality/ge_runner.py`.

## 1. Inventory

| Component | State | Operations | Talks to |
|---|---|---|---|
| Alert worker (`AP`), 2 replicas (`infra/k8s/intellipipe.yaml:170`) | shutdown event, semaphore, tasks, breaker, deduplication cache; all in memory | poll, drop duplicate, push to the degraded list, start task, record success/failure, push to the failed list, stop | Redis, handling of an alert |
| Handling of one alert (`AP` 343-445, `LA` 494-598) | one asyncio task, two database sessions one after the other | create incident, analyse, generate fix, open pull request, ticket, message, store memory, update incident | PostgreSQL, Anthropic, GitHub, Jira, Slack |
| Repositories (`src/db/repositories/incident_repo.py`), schema | tables incidents, incident_memories, dq_snapshots, document_chunks | create, update_rca, update_external_refs, resolve, list, upsert_chunks, search | handling, API, RAG |
| GitHub client (`src/integrations/github_client.py`) | none of its own; branch, commits, pull request at GitHub | create_fix_pr in 5 to 9 requests | GitHub |
| Jira and Slack clients (`src/integrations/notifications.py`) | none of their own | create ticket and remote link, post message | Jira, Slack |
| Dashboards (`src/api/main.py` 514-617) | ConnectionManager, one coroutine per web socket | connect, pop an alert, send, disconnect | Redis list of the workers |
| REST API (`src/api/main.py`) | none; incident endpoints are stubs | scores, simulate an alert, query documents | Redis, RAG |
| Kafka producer, simulator (`KP`) | local queue of librdkafka, running or flushing | produce, deliver, callback, flush | Kafka |
| Spark pipeline (`SC`) | two checkpoints, the batch under way, Redis score cache | start, subscribe, begin a batch, push drift, publish the score, push degradation, commit, write dead letters | Kafka, Redis |
| Expectation runner (`GE`) | one process: its step, what failed, what it returned | open context, run checkpoint, push alert, fall back to stub results, exit | Redis |
| Anomaly ensemble (`src/anomaly/ensemble.py`) | scaler, model and version of two detectors, medians of the third | train, score batch | MLflow |
| RAG engine (`src/rag/rag_engine.py`) | document_chunks, one open transaction per ingestion | ingest, query | repositories, Anthropic |
| Airflow DAGs (`airflow/dags`) | state and tries of each task instance | start, retry, time out, give up | all, as subprocesses |
| Config, logging, telemetry, dbt project, expectation suite, deployment | none | | |

How they interact. Producers (Spark, the expectation runner, `simulate_alert`) LPUSH JSON on
`intellipipe:alerts`. Every worker replica BRPOPs it with a time-out of two seconds, and every open
dashboard RPOPs *the same list* once a second. A worker handles an alert in an asyncio task of
its own, so several handlings, the polling loop and the signal handler share one thread and
interleave at `await`s. Handling calls four services one after the other and commits twice.

What is hard, and what must be true (PROJECT.json lists every hazard with its line):

* **Worker.** Tasks started under one state of the breaker end under another; errors come
  inside error handlers; a pop that Redis executed may never arrive; signals and crashes end
  tasks anywhere. An alert must never be handled twice nor vanish unaccounted, no permit may leak,
  breaker and deduplication must mean what they say, and everything must settle while a worker runs.
* **Handling.** Each of up to 19 calls may fail before or after it took effect, and the process
  may stop between any two. The database must never hold half an outcome or a reference to
  something that does not exist, and success must not be reported unless everything is stored.
* **Dashboards.** They compete with the workers; nobody may get an alert twice and no tenant may
  see another's. A pop may raise after Redis executed it, the API may die with an alert in hand, and a
  client may be gone before its message is read: such an alert is lost, and only once.
* **Stream.** A batch is replayed after a failure, a delivery reported as failed may have succeeded,
  retention deletes what was never read, each query has its checkpoint and starts, dies and replays
  by itself, and both checkpoints are under `/tmp`. No event may be doubled on the way to the topic or
  lost unreported, no batch committed before its alerts are out, effects repeat only when something
  failed, and every event is dealt with while the process runs.
* **Scores.** Boundary values (no checks, score 0, thresholds) decide the severity, at the sender
  and again at the worker; both must agree.
* **Hourly jobs.** A validation may fail while it alerts, be killed or retried; what Airflow, the list
  and the exit code say of a try must agree. A retraining may raise between two assignments; a result
  must name the models it was made with.
* **Documents.** Ingestions of one project overlap and lock each other's rows while queries read; a
  document must not be lost, shown half or stored in two versions.

## 2. Modules

| Module | What it models |
|---|---|
| `AlertDelivery` | abstract: a line of alerts, each taken once, with one final outcome |
| `AlertWorker` | the worker replicas, their tasks and the Redis list; refines `AlertDelivery` |
| `AlertFeed` | `AlertWorker` composed with the dashboards on the same list |
| `IncidentRecord` | abstract: what a reader of the incidents table may rely on |
| `IncidentPipeline` | the handling of one alert; refines `IncidentRecord` |
| `BatchDQMetrics` | the arithmetic: scores of a batch, severities at both ends of the list |
| `AtLeastOnce` | abstract: a consumer of a log that keeps a checkpoint |
| `StreamPipeline` | producer, raw topic, the two Spark queries, dead-letter topic, alerts; each query refines `AtLeastOnce` |
| `HourlyValidation` | the hourly Airflow dag with the process of the expectation runner |
| `AnomalyEnsemble` | training and scoring of the three detectors |
| `DocumentStore` | overlapping ingestions and queries of the document chunks |
| `MCAlertWorker`, `MCAlertFeed` | instances for TLC |
| `MCBatchJobs` | `HourlyValidation`, `AnomalyEnsemble` and `DocumentStore` for TLC, side by side |
| `AlertWorkerProofs`, `IncidentPipelineProofs`, `AlertFeedProofs`, `StreamPipelineProofs`, `HourlyValidationProofs`, `AnomalyEnsembleProofs`, `BatchJobsProofs`, `DocumentStoreProofs` | theorems |

`StreamPipeline` and `HourlyValidation` end at the Redis list, where `AlertWorker` begins. They meet
in the contents of an alert, in `BatchDQMetrics`; the list itself is in `AlertWorker`, whose
`Publish` allows every order of arrivals.

Operators named "Mutant of ..." in a comment are plausible mistakes in the action below them. No
specification uses them; they exist to show that each property can fail: with the mutant in the
place of the action, TLC finds the property violated.

### AlertWorker

An asyncio program switches only at `await`, so an action is the code from one `await` to the
next. `pc` says at which `await` the loop of a worker is: `top` (about to test the shutdown event),
`polling` (in BRPOP), `handling` (BRPOP returned; no `await` until the alert is put down), `degrading`
(in the push to the degraded list), `sleeping` (five seconds after an error), `stopped`.

| Code | Model |
|---|---|
| Redis list, LPUSH/BRPOP | `queue`, `Publish`, `Pop`, `PollTimeout`, `PopError` |
| `_run_loop` (238-301) | `LoopTop`, `Discard`, `DropDuplicate`, `Degrade`, `Dispatch`, `DegradedPush`, `DegradedPushError`, `Wake`, `Exit` |
| tasks created and waiting for the semaphore | `backlog`, `Acquire` |
| `_process_alert_safe` (303-341) | `running`, `failing`, `permits`, `ProcessOk`, `ProcessError`, `FailedPush`, `FailedPushError` |
| `CircuitBreaker` | `breaker`, `Refuses`, `AfterIsOpen`, `RecordSuccess`, `RecordFailure` |
| `AlertDeduplicator` | `seen`, `seenAge`, `IsDuplicate`, `MarkSeen`, `CleanupExpired` |
| `shutdown`, `main`, container restart | `Signal`, `Exit`, `Crash`, `Restart` |

*Time.* The code compares the age of an event (last failure, entry of a key, last cleanup) with
a limit. The model keeps the ages, in ticks, and stops counting one past the limit, where every
comparison has its final value. So clocks are unbounded and the state space is finite. `Tick` may
happen at any moment, several times or never between two steps.

*Pop errors.* When BRPOP raises, Redis may have popped the alert (the reply is lost) or not.
When LPUSH raises, Redis may have executed it or not.

*Handling.* `ProcessOk` and `ProcessError` stand for the whole of `_process_alert`; what happens in
it is `IncidentPipeline`, whose `HandlingEnds` is what the fairness of `Task` assumes. The tasks of
two alerts share only breaker and semaphore, so the two modules need no common state.

*Outcomes.* `outcome` is a history variable: "processed", "failed", "degraded", "duplicate",
"malformed" leave a trace (incident, list, or the loop's decision), "lost" leaves none.

*Differences from the code.* A payload that is JSON but no object raises in `is_duplicate` and
is dropped after a sleep; no producer in the repository pushes one. The LLM client is synchronous
and blocks the event loop during a completion: the model allows every interleaving, a superset.
Each alert is published once; two alerts with one key stand for repeats.

### AlertFeed

Each web socket of `/ws/alerts/{tenant}` has a coroutine that pops, sends and sleeps a second. A
worker step leaves the dashboards alone, a dashboard step takes from `queue` only. `connected` is
the truth about the client, which the coroutine learns only when it sends; `active` is
`ConnectionManager._active`.

| Code (`src/api/main.py`) | Model |
|---|---|
| `connect`, the client leaves (external) | `Connect`, `Leave` |
| `rpop` returns (604) | `RpopNothing`, `RpopOwn`, `RpopOther`, `RpopMalformed` |
| `rpop` raises | `RpopLost` (Redis popped an alert and the reply is lost), `RpopError` (it did not) |
| `send_json` (608) | `Send`, `SendUnread` (it returns though the client has left), `SendError` |
| a replica of the API dies (external) | `ApiDies`, with any of its connections and what they hold |
| `asyncio.sleep(1)` | `WakeFeed` |

The coroutine catches `WebSocketDisconnect` only: an error of Redis, a payload that does not parse, or another
error of the socket ends it with its connection still registered, and nothing unregisters it later.
`discarded` is a history variable: the alerts that were popped and reached no client, by tenant, by a lost reply,
by a death or by a client that left.

*Differences from the code.* A connection is opened once; one opened again is another element of `Feeds`. A
dashboard's process and a worker's die separately (`ApiDies`, `Crash`). As everywhere in the model, Redis keeps
what it was given: `docker-compose.yml:100` starts it with the policy `allkeys-lru` and 512 MB, under which it may
evict the list of alerts as a whole when the memory is full. `AlertConserved`, `FeedConserved` and
`LossesHaveACause` hold as long as it does not.

### IncidentPipeline

One step is one call. `step` names the next call. `Effect` is what the call of the present step
changes at its service; a failing call may or may not have had its effect (`PerhapsEffect`), except
where the error says it had none (`SlackApiError` is an answer of Slack, an INSERT that raises is
rolled back by the session). Each `*Error` action follows the `except` clause that catches it: GitHub
errors give an empty result, Jira errors an empty result, `SlackApiError` is swallowed, other
errors of Slack leave `_process_alert`, as do LLM failures, a reply with null lists
(`FormatError`) and database errors, but not those of the memory store, which are swallowed and leave
the session unusable (`session = "broken"`). `RefuseBranch` is the answer 422 to the creation of the branch,
which `_create_branch` takes for "already exists" whatever its reason: if the branch is not there, the commits
to it fail. A branch of that name is always the incident's own here: that two incidents share the eight digits of
an id a branch is named after is not modelled.

`RefsReal` says of the recorded references that their artefacts exist. The memory's own `incident_id` is not one
of them: with `Enforced = {}` it names no incident at all (finding 3).

`Enforced` is the set of foreign keys the database enforces. The migration declares both. With
the code as it is the first one fails every alert (finding 2) and the second one loses every
outcome (finding 3); so the properties are checked with `Enforced = {}`, the database the handling is
written for. That covers the other values as well: `InsertError` and `MemoryError` are enabled by a
foreign key or by the event `db_error`, and the run has that event, so each behaviour under
another value of `Enforced` is a behaviour of the run. The theorems hold for every value.

### StreamPipeline, BatchDQMetrics

| Code | Model |
|---|---|
| `OrderEventProducer.produce`, `EventSimulator.run_continuous` (`KP`) | `Produce`, `queue` |
| the idempotent producer and the broker | `Persist`, `sent` (how much of the queue the broker has) |
| `_delivery_callback` without and with an error | `Acknowledge`, `DeliveryFails` |
| `flush`, leaving the program | `StopSimulator`, `GiveUpFlush` |
| a request that arrives after its message was given up | `ArriveLate` |
| retention of the topic, `failOnDataLoss = false` | `Expire`, `gone`, `ValidRows`, `CorruptRows` |
| `AnomalyInjector` | `SimulatorKinds` and the checks each kind fails |
| `run` (`SC`) | `StartMainQuery`, `StartDlqQuery`, `SubscribeMain`, `SubscribeDlq` |
| offset log and commit log of a query | `main`, `dlq`: `start`, `planned`, `done` |
| `_process_batch` | `BeginBatch`, `PushDrift`, `PublishScore`, `ScoreNothing`, `PushDegradation`, `CommitBatch`; `stage` says which is next |
| the dead-letter query | `BeginDlq`, `WriteDeadLetter`, `CommitDlq`, `cursor` |
| `BatchDQMetrics`, `SchemaDriftDetector` | `Overall` and its five parts, `DriftSeverity` |
| `compute_severity` (`AP`) | `ComputeSeverity` |
| `awaitAnyTermination`, a kill, a call that raises; loss of the host | `Die`, `HostLost` |

*The producer.* What `produce` accepted is in the local queue until the callback. The broker appends it once,
however often it is sent, and the producer learns of it later (`Acknowledge`) or never: a failed delivery report
and a flush that times out say nothing about the topic, before or after (`DeliveryFails`, `GiveUpFlush`,
`ArriveLate`). So an event may be `failed` and in the topic; `ProducedAccounted` says what is left of
exactly once.

*Retention.* Kafka deletes the oldest records after `KAFKA_LOG_RETENTION_HOURS` (`docker-compose.yml:138`), read
or not, and a query with `failOnDataLoss = false` (`SC:416`) skips what is gone without an error. So may a batch
that was planned before: each step of `_process_batch` reads the rows anew, and `compute_and_publish` returns early
when none is left (`ScoreNothing`). The properties of the batch speak of the records that are there, and
`AtLeastOnce` has the step `Expire`. Between the counts of one score the rows are taken not to change.

*The batch.* Spark writes the end of a batch to its offset log before it runs and to the commit log
after; a batch that is planned and not committed is run again, with the same rows less those deleted since (`Planned`).
Nothing undoes what was pushed to Redis or Kafka in between. A call that raised after it took effect
is its step followed by `Die`.

*Scores.* An event is known by its *kind*: the anomaly the simulator put in it, which decides the
checks it passes. Scores are integers in hundredths, rounded as the code rounds. The freshness of an
event depends on the clock: `aged` is the number of events too old at the last computation, and
only grows. Reading the code this way shows three things. The reader adds eight columns of its own to
each batch, so every batch that is not empty raises a "medium" drift alert, and a drift of the events
themselves is never seen, since from_json gives every batch the columns of the schema. A batch of
nothing but delayed events scores exactly 80.00 and is not degraded. And a query that subscribes at
"latest" does so by itself, so that an event between the two subscriptions is seen by one query only.

*Delivery.* `AtLeastOnce` says what a query promises with its checkpoint: of the records meant for it and
appended after it subscribed, none that is still there lies behind its committed offset without its effect, and
none behind it is worked on again. Both queries implement it (`StreamDelivers`). The records of the first are the order events,
their effect the drift alert that every batch with rows raises; those of the second are the corrupt
records, their effect the dead letter. Loss of the host is `Forget`.

*Differences from the code.* One partition, where the topic has twelve: a batch takes a part of each, and nothing
in the code depends on which partition a row is from. `produce` on a full queue flushes and calls itself until
there is room; the model waits. The batch number starts again after `HostLost` and is not modelled.

### HourlyValidation

| Code | Model |
|---|---|
| the order of the tasks (`airflow/dags/intellipipe_dags.py`) | `Upstream`, `Start`, `GiveUp` |
| retries, `execution_timeout` and the loss of a host | `AfterFailure`, `Kill` |
| a process that outlives its killed try | `MayPush`, `orphans`, `OrphanPush` |
| the programs the tasks run | `CanSucceed`, `Succeed`, `Fail` |
| `run_suite`, `_stub_results`, `_publish_ge_alert` (`GE`) | `OpenContext`, `RunCheckpoint`, `SuiteError`, `PublishAlert`, `PublishError` |
| `main` and its exit code | `Exit` |
| `compute_dimension_scores`, `DIMENSION_EXPECTATIONS` | `DimensionScore`, `OverallScore`, `CountsFor` |

`deployment` says which programs exist: the repository has neither `batch_scorer` nor `sla_tracker`, and
defines no checkpoint `intellipipe_checkpoint`. As shipped every validation therefore ends with the stub
results and passes; `batch_jobs` checks this deployment and one that has everything. `process_alert_queue`
starts the alert processor, which polls until it is signalled. `StopSignals` says whether someone does that: without
it the task ends only by its time-out, as a failure, and the last task never runs. The dag promises otherwise
(`SlaUpdated`, finding 6), and `SlaNeverRuns` proves what it does. The row count is listed for completeness and for
freshness, and counts for the first.

Airflow kills the try, not always what it started: `subprocess.run` has no time-out, and the process of a
validation may go on and push its alert at any later time while its run lasts, also beside the next try (`orphans`).
What is in `orphans` is the alert such a process may push; it may also end without. The account of a run ends with it
(`NextRun`), and a push after that is not followed. A process of `process_alert_queue` that
goes on is one more worker of `AlertWorker`.

### AnomalyEnsemble

A training replaces scaler, model and version one assignment after the other, and may raise after
each (`ForestStages`, `EncoderStages`). `ScoreBatch` weighs what three detectors make of each row. What a
fitted model makes of a row is a *reading* from a set; what the code makes of it (the normalisation of the
forest's scores within the batch, weights, thresholds, names) is computed. The next operation
forgets the results of the last: nothing in the code keeps them.

A training that raises leaves parts of two trainings together, and the version of neither or of one, or an
object that was never fitted, with which scoring raises. The code does nothing against it (`ensemble.py:214`), and no
property here says that it does: `ResultsTraceable` and `RaisesOnlyAfterFailure` say that nothing else leads there.

`Weights` are the settings `ensemble_weights_if`, `_ae` and `_zscore` (`config.py:206-208`). `GradesNeedWeight` says
for all of them that a row gets a grade only if the detectors that find it odd weigh as much as its threshold.
With the defaults, 0.40, 0.40 and 0.20, the forest or the autoencoder alone can flag a row ("low", up to 0.40),
two detectors give "medium" at most or, if they are the two models, "high", and the Z-score alone gives 0.20 at
most, below the 0.30 of an anomaly. `ensemble.py:7` and `:437` call it the "statistical fallback": as the weights are
it is none, and before the models are trained, or without PyTorch and a forest, no row is ever flagged
(`FallbackNeverFlags`). This disagreement of code and comment is section 5's last.

### DocumentStore

| Code | Model |
|---|---|
| `dbt docs generate` (external) | `Generate` |
| `ingest_dbt_project`, `load_manifest`, `load_lineage` (`src/rag/rag_engine.py`) | `LoadModels`, `LoadLineage`, `todo` |
| `upsert_chunks` (`incident_repo.py:330`) | `BeginDelete`, `FinishDelete`, `InsertChunks` |
| end of the session | `Commit`, `Rollback` |
| locks and deadlock detection of PostgreSQL (external) | `WaitsFor`, `BreakDeadlock` |
| `query` | `Ask`, `Retrieve` |

Under READ COMMITTED a DELETE sees what is committed when it begins, waits for the transactions that
have deleted the same rows, and skips rows that are gone by then. So two overlapping ingestions of
one project may each insert a version of a document: `OneVersionUnlessOverlap` says when. The manifest is
read twice, and may differ. The chunks of nodes that left the project stay for ever; the code has
no operation that removes them. The rows of one tenant are modelled, and the chunks of one document are
one row, since one flush inserts them. A manifest that is missing gives no documents and no
error (`rag_engine.py:68`, `:148`): it is the empty project of the run. The session, and with it the commit, are
those of a caller. The daily dag names a program for it that is not in the repository, and `Commit` takes it to
commit once, after `ingest_dbt_project` has returned, as `AP` does with its sessions; a caller that committed
earlier would lose `IngestionAtomic`. The dag limits neither its runs nor its retries to one at a time, so ingestions may overlap.

## 3. Runs

| Run | Result | Shows |
|---|---|---|
| `worker_safety` | pass | one worker, 3 alerts (2 with one key), every event: `AlertConserved`, `SemaphoreConserved`, `BreakerConsistent`, `DedupExact`, `BreakerGate`, and that the worker implements `AlertDelivery` |
| `worker_liveness` | pass | `AlertsSettle` and `ShutdownHonoured` under fairness |
| `worker_shutdown` | violation of `NothingLost` | finding 1: a graceful shutdown loses alerts |
| `incident_handling` | pass | `RowAtomic`, `RefsReal`, `ArtefactsHaveIncident`, `PullComplete`, `ProcessedMeansStored`, `HandlingEnds`, and that the handling implements `IncidentRecord` |
| `incident_schema` | violation of `FailureHasIncident` | finding 2: no alert gets an incident under the schema of the migration |
| `incident_memory` | violation of `OutcomesWritten` | finding 3: the outcome is made and not recorded |
| `feed_safety` | pass | two replicas and two tenants' dashboards on one list, with pops that raise, deaths of the API and clients that leave: `FeedConserved`, `TenantIsolation`, `AlertDelivery` |
| `feed_steals` | violation of `WorkersGetEveryAlert` | finding 4: a dashboard takes alerts from the workers |
| `stream` | pass | from the producer to the alerts: `ProducedAccounted`, `CommittedBatchAlerted`, `ReplaysBounded`, `ScoresMoveOn`, `SeverityAgrees`, that both queries implement `AtLeastOnce` (`StreamDelivers`), and while the process runs `EventuallyHandled` |
| `stream_shipped` | violation of `InvalidEventsRouted` | finding 5: with the schema of the repository no query starts |
| `batch_jobs` | pass | hourly runs: `AlertsMatchTries`, `RunEnds`; ensemble: `ResultsTraceable`, `RaisesOnlyAfterFailure`, `GradesNeedWeight`; two ingestions over a committed one: `OneVersionUnlessOverlap`, `IngestionAtomic`, `NoneOnlyWhenEmpty`, `IngestionEnds` |
| `sla_updated` | violation of `SlaUpdated` | finding 6: an hourly run with every program deployed and no other failure does not update the SLA trends |

### Bounds

* `worker_safety`: 3 alerts let two tasks run and one wait, or two run into the breaker's threshold
  (2) and a third meet it open; two share a key, so one can be a duplicate, or accepted again after
  the window (2 ticks) or a restart. `ResetTimeout` 1 and `CleanupInterval` 1 put every order of
  the three time limits within reach; a cleanup can run between two looks at a key, before and after
  the window. `MaxConcurrent` 2 is the least that has concurrent tasks. One worker: replicas share
  nothing but the list, and two of them are in `feed_safety`.
* `worker_liveness`: one permit and the threshold 1 make starvation easiest; errors and signals,
  no crash or Redis error, since those end the alerts they hit as "lost" by definition.
* `feed_safety`: two replicas, two dashboards of different tenants, one alert each and one payload
  that does not parse, which ends a coroutine. All that can happen to a dashboard happens; of the workers' events
  none, those are in `worker_safety`.
* `incident_handling`: one task; `MaxRetries` 3 as in the settings; every event. The state space
  is complete, without any bound of ours on the behaviour.
* `stream`: two events make a batch of two or two batches, a corrupt and a sound one in either order,
  with one event before and one after a subscription. `Kinds` has a corrupt event and a price that is an
  `outlier`: a batch of it scores 90.00, 70.00 once it is too old, and one in which it comes twice under one
  event_id 80.00, 70.00 and 60.00, which are the thresholds of an alert and of its severities. `QueueSize` 1 is the full queue after
  one event. Retention deletes any number of records at any point. One fault of any
  kind at any point; a second one, or a third event, exceeds the time a run may take. The theorems hold for every
  number of events and faults.
* `batch_jobs`, documents: one ingestion has committed, two more overlap in every way, over a model (two documents) and a
  test (one) that comes and goes; so rows are replaced, added, left behind, and two runs can wait for
  each other. A third overlapping one adds no conflict that two do not have.
* `batch_jobs`, hourly runs and ensemble: one retry in the place of two, which suffices for a try after a failed one; two deployments; the
  failure sets give 100.00, 75.00, 60.00 and 55.00, both sides of each threshold. Three trainings let one fail
  between two others; batches of two rows, since the forest's scores are relative to the batch. The
  alert processor may be signalled (`StopSignals`), so that the last task runs in some behaviours. The
  three jobs share no state, so a behaviour follows one of them (`job`) and leaves the others as they start.
* `sla_updated`: the full deployment, no signals, and `Calm` steps only: no task fails whose program can end well.
* `CHECK_DEADLOCK FALSE` in the handling, where the task is over in the end, and in the stream, where
  every event has been made and handled. Elsewhere the system never stops, and it stays on.

### Fairness

`FairSpec` of `AlertWorker` asks weak fairness of the loop of each worker, of the hand-over of
the semaphore, and of each task. The code justifies them: asyncio runs every ready coroutine, BRPOP has a
time-out, `asyncio.Semaphore` wakes its waiters in order, and every call of a handling has a
time-out or is retried a bounded number of times. Nothing is assumed of producers, signals,
crashes, restarts or the clock. `FairSpec` of `IncidentPipeline` asks that the task goes on.

`FairSpec` of `StreamPipeline` asks that a process that runs goes on: that it starts its second query, that both
subscribe, and that Spark schedules both. Nothing is asked of the producers, of retention, or of anyone who
starts the process: no deployment file does (the head of `docker-compose.yml` names a spark-worker that is not among its
services), so it may stay down for ever, and `EventuallyHandled` speaks of the time it runs. Only `stream_shipped`
adds an operator who starts it whenever it is down (`OperatedSpec`), which makes its violation the stronger.
`FairSpec` of `MCBatchJobs` asks that Airflow starts the tasks that may start and ends what has run for too long, and
that an open ingestion is executed and PostgreSQL breaks deadlocks: Airflow's scheduler, `execution_timeout` and the deadlock
detector do these things. 

## 4. Proofs

The eight proof modules are checked by TLAPS for all values of the constants, under the assumptions
each module states about them (`AlertWorkerAssumption`, `IncidentPipelineAssumption`,
`StreamAssumption`, ...): bounds and thresholds are natural numbers, keys and malformed alerts are
consistent. Nothing is assumed about the number of workers, alerts, dashboards, events, faults,
retries, trainings, nodes or ingestions. Seven theorems state an assumption of their own, named where they are
listed: what the database enforces (two), that the schema lacks a column, which events happen, that nobody
signals the alert processor of a task, that the Z-score weighs less than 0.30, and that a manifest is finite.

The worker and the handling:

* `TypeCorrect`: the type invariant of the worker is inductive.
* `NoAlertLostOrDoubled`: `AlertConserved` says of each alert that it is in exactly one place. A step
  moves alerts between sets, so the induction is over `Conserved`: no list holds an alert twice,
  the places of a worker are disjoint, what is in the list or with a worker has been published, has
  no outcome and is nowhere else, and what has been published without outcome is in the list or
  with a worker. Without the first part `Tail` would not remove an alert from the list. The module proves
  how Append and Tail change the set of a list, one lemma for each kind of move, and that
  `Conserved` gives `AlertConserved`.
* `PermitsNeverLeak`: adds that the holders of permits form a finite set; needs `Conserved`, for a
  task that were in `running` and `failing` at once would be counted once and release twice.
* `BreakersAgree`: `BreakerConsistent` with the type invariant is inductive; every step changes a
  breaker by one of four operators or not at all.
* `WorkerDelivers`: `AlertWorker` implements `AlertDelivery`. `Conserved` decides what the status of
  an alert becomes: the head of the list has no outcome and is not with a worker, so a pop makes it
  "taken" and nothing else.
* `DedupIsExact`: `CacheFaithful` says that the age of a cache entry is that of the last acceptance of
  its key and that what was let through in the last `Window` is in the cache: the cleanup removes only
  entries that are older. `DroppingStep` and `AcceptingSteps` find the only steps the property speaks of.
* `BreakerGateHolds`: needs `BreakerConsistent`, since a late failure keeps an OPEN breaker OPEN only
  if the count is at the threshold. `BreakerCauses` says which steps replace or close a breaker.
* `HandlingTypes`, `RowNeverHalf`, `RecordedMeansReal`, `IncidentComesFirst`, `PullNeverPartial`,
  `ProcessedIsDurable`: all from `IInv`, which says for each step of the handling which replies it has
  (`ReplyStage`), what the services have (`ServiceStage`), what the open transaction would
  commit (`TransactionStage`) and what is committed (`RowStage`). A task that ends early, whatever the
  call under way did, is one lemma (`EndIInv`).
* `ImplementsRecord`: the refinement of `IncidentRecord`, step by step: a commit of the first
  session is `Open`, one of the second `Advance`, any other failure `GiveUp`, the rest stutters.
* `LossesHaveACause`, an action property: an alert is lost only in the step in which the process that
  has it stops, or in which the call to Redis that concerns it raises. `OnlyFaultsLose` follows: without
  Redis errors, signals and crashes nothing is lost, whatever fails in the handling; so finding 1 is the
  work of the signal alone.
* `AlertsNeverGoBack`, an action property: `Stage` of an alert (list, hand, backlog, task, outcome)
  never rises, and list and backlogs lose alerts at the head only. Needs `Conserved`.
* `CallsBounded`: `CallsLeft` falls with every step of a handling and is at most `2 * MaxRetries + 18`.
* `TableKeyRejectsAll`, `MemoryKeyLosesAll`: with the foreign key in `Enforced`, findings 2 and 3 are not
  one schedule but all of them: no row and no artefact is ever made, or no outcome is ever recorded. The
  second needs `BrokenSession`: the update of the incident is only reached with a session that the memory
  broke.

The dashboards. To the workers an alert that a dashboard popped is a lost one. `Bar` is the worker
with that outcome in the place of the true one (`SeenOutcome`), and each step of a
worker is a step of `Bar`, so what `AlertWorkerProofs` shows of such a step holds of `Bar`; a pop of a dashboard
loses the alert, whether its reply arrives or not. Nothing is assumed of what happens to it then: the replica may die,
the client may be gone.

* `FeedTypeCorrect`, `EachAlertPoppedOnce`, `TenantsIsolated`: from `FeedInv`, which joins the types,
  `Bar!Conserved` and `Apart` (an alert is with one dashboard and in one of its places), with `Own` (what a
  dashboard is about to send is of its tenant).
* `FeedDelivers`: workers and dashboards together implement `AlertDelivery`, for which
  `Orderly` suffices: no alert is twice on the list, the places of the workers are disjoint, and what has not been
  published has no outcome.
* `DashboardsTakeForGood`: finding 4 for every schedule. `Gone`, what the dashboards have or had, only
  grows (`GoneForever`), and what is in it is not on the list, not with a worker and has no outcome.
* `DashboardsDisturbNoWorker`: alerts are all they take. Permits, breakers and deduplication keep
  `SemaphoreConserved`, `BreakerConsistent`, `DedupExact` and `BreakerGate` under `FeedSpec`: a step of a
  dashboard leaves these variables alone (`FeedFrame`), and of the conservation of alerts the lemmas about
  a worker's step need only what `FeedInv` gives.

The stream. `StreamTypes` joins the types and `AtWork`: a query that works has subscribed, and a batch
that is scored has rows.

* `StreamTypeCorrect`: with `start <= done <= planned <= Len(topic)` for both checkpoints.
* `EveryEventAccounted`: `Accounts` adds that no event is twice in the queue, so that what leaves it is not in it any
  more and what is sent next is not in the topic yet.
* `CommitsAreAlerted`: `Batches` says for each stage of `_process_batch` what the batch under way has
  written; a replayed batch writes a new score record, and its degradation, if it is one, is alerted before the commit. Retention only
  takes events out of what is promised.
* `NoInvalidEventLost`: `DeadLetters` says that what is corrupt up to the cursor of the batch under way has been written.
* `RepeatsAreReplays`: counting with `AtMost`: an alert or a dead letter has at most `1 + faults` copies, and at most
  `faults` before the query has passed it. A query that forgets what it passed has had a fault.
* `CachedScoresMoveOn`: `ScoreOrder` says that each record belongs to a committed batch or to the one under
  way, whose score could only be lower now. This needs that a score falls when more events are too old
  (`OverallFalls`, over `DivMonotone`) and that the events of a batch do not change (`OverallKept`).
* `SeveritiesAgree`: by the thresholds.
* `StreamDeliversAtLeastOnce`: both queries implement `AtLeastOnce`. `Batches` and `DeadLetters` show that a
  commit finds the effects of its records, and `AlertsWithin` that an alert is of events that were planned
  after the commit before it. It implies, for each query, that no record behind its checkpoint is without
  its effect.
* `ShippedSchemaStreamsNothing`: finding 5 for every schedule: without the column no query subscribes and
  nothing is written.

The hourly run. `HourlyTypes` joins the types with `TriesLeft` (a task that may be tried again has a try left) and
`ExitReturns`.

* `HourlyTypeCorrect`; `AlertsAgree`, by `TriesBehind` (alerts and exits are of tries that were started) and
  `TryAtWork` (what the try at work has pushed so far); `SlaNeverRuns`, which assumes
  `~StopSignals`, by `SlaInv`: the task before it never succeeds. `OrphansApart` says that what a process of a killed
  try may still push is of a try that is over and has not alerted.
`RunBounded`: `RunStepsLeft` falls with every step of a run but the push of such a process, and is at most `15 * (Retries + 1)`.
`RunNeverStuck`: until all tasks are over one is running, may start or has to be given up;
`StartedInOrder` adds that a task has begun only after those before it succeeded.

The ensemble. `EnsembleTypeCorrect`; `VersionsTraceable`, by `TraceInv`: after a training that did not raise,
the parts are of one training and the version names it; `ScoringSurvives`, by `RaiseInv`: such parts are fitted. Both
say nothing of a detector whose last training raised, and nothing can be said: the code leaves what it assigned.
`GradesAreWeighed`, by arithmetic over every batch, reading and weight (`RowNeedsWeight`), and from the same lemma
`FallbackNeverFlags`. `BatchJobsProofs` shows that each of the jobs behaves beside the others as alone
(`JobsRunHourly`, `JobsRunEnsemble`, `JobsRunStore`), so that what is proved of a job holds in the runs, and `JobsTyped`.

The documents. `StoreTypesCorrect`; `VersionsFromOverlapOnly` and `IngestionsAreAtomic` from `StoreInv`: what an open run
holds (`Holdings`), whose rows there are and which runs were open together (`History`), and `Replaces`: a run that stores
a document has deleted the row of each run that had committed before it began. `QueriesFindWhatThereIs` adds
`Answers`: a question under way still finds what there was, since a commit that deletes a chunk puts one of the
same type in its place. `SerialIngestions`: as
long as no two have overlapped, the store is what the ingestions leave one after the other; `Superseded`
says that a row whose document a later run stored is there only if the two overlapped.
`IngestionsNeverStuck`: while runs are open one can go on, or some wait for each other in a cycle.
`IngestionBounded`: `StepsToGo` of a run falls with each of its steps and no step of another raises it; it
assumes a finite set of nodes, since a manifest is a finite file.

Every invariant and action property that a passing run checks is stated by a theorem, and so are the
refinements (`AlertDelivery` twice, `IncidentRecord`, `AtLeastOnce` by two queries). Liveness and ENABLED are
out of the prover's reach, so `AlertsSettle`, `ShutdownHonoured`, `HandlingEnds`, `EventuallyHandled`,
`IngestionEnds` and `RunEnds` are only model-checked. For five of them the part that is safety is proved for
every instance, and what fairness adds is left to TLC:

| Checked by TLC | Proved |
|---|---|
| `AlertsSettle` | `AlertsAreNeverStuck` (while a worker runs, whoever has an alert has a step to take: no permit is missing with nobody to return it), `AlertsNeverGoBack` |
| `ShutdownHonoured` | `ShutdownIsBounded` (after a signal a loop makes at most five steps and starts no poll) |
| `HandlingEnds` | `CallsBounded` |
| `IngestionEnds` | `IngestionBounded`, `IngestionsNeverStuck` |
| `RunEnds` | `RunBounded`, `RunNeverStuck` |

"Never stuck" is stated by conditions on the state (who holds what, which step is next) in the place of
ENABLED.

## 5. Findings

1. **A graceful shutdown loses alerts** (`AP:290`, run `worker_shutdown`). Tasks are created without
   a reference; nothing waits for them when the loop ends, and `asyncio.run` cancels them. Their
   alerts have left Redis. The comments at `AP:448` and `AP:461` call this graceful.
2. **Incidents cannot be created under the shipped schema** (`AP:364`, run `incident_schema`). The
   table id is random, the column a foreign key.
3. **The outcome is lost when the memory cannot be stored** (`LA:664`, run `incident_memory`). The
   memory refers to an id that is not that of the incident (`LA:503`), the flush fails, the error is
   swallowed, the session is unusable.
4. **Dashboards take alerts from the workers** (`src/api/main.py:604`, run `feed_steals`).
5. **No query starts with the shipped schema** (`SC:444`, run `stream_shipped`). `_parse_events` filters on
   the column `_corrupt_record`, which the schema does not name; Spark cannot resolve it and `run`
   raises. The other run of the stream assumes the column (`CorruptColumn`).
6. **The hourly run never updates the SLA trends** (`airflow/dags/intellipipe_dags.py:127`, run `sla_updated`).
   `process_alert_queue`, "Drain Redis alert queue" (`:59`), runs a program that does not end, so
   `update_sla_trends`, "Aggregate SLA trend data for the current hour" (`:71`, and the `doc_md` at `:123`), is
   `upstream_failed` in every run.

Disagreements without a run:

* `ensemble.py:7` and `:437` call the Z-score detector a fallback; by its default weight it flags nothing alone. The
  theorem `FallbackNeverFlags` shows it for every batch and every state of the models.
* The models of the ORM use `Enum` types for severity, status and anomaly type (`src/db/models.py:246-249`, `:299`),
  where the migration makes strings (`0001_initial_schema.py:133`, `:134`, `:174`); on PostgreSQL the INSERT names types
  that do not exist. In the model this is one more reason for `InsertError`, which finding 2 shows without it.
* `docker-compose.yml:100` lets Redis evict the list of alerts (section 2, `AlertFeed`).

## 6. Not modelled

* What fitted models, embeddings and the distance search compute: floating point vectors. The ensemble takes it
  as an input, the document store leaves the ranking out, and a missing embedding library (zero vectors)
  changes no control.
* `list_open`, `resolve` and the quality snapshots of the repositories, `produce_to_dlq`, `broadcast`,
  `get_pr_status`, the other Slack messages: no caller in the repository.
* The API's stub endpoints, login, health, and the web socket that reads the score cache: they keep no state.
* An alert list that Redis evicts, and what two processes with one incident prefix do to each other's branch.
* The programs of the retraining dag, the batch scorer, the SLA tracker and the ingestor: named by the dags, not in the repository.
* dbt project, expectation suite, deployment files: declarative. Settings appear as constants. Logging, metrics
  and tracing change no state of the system.
* Texts (prompts, descriptions, log lines) matter only where a malformed one changes control, which is modelled.

## 7. Plan

1. Proofs: the same half of `EventuallyHandled` (an event a query planned is dealt with, or planned again
   after a death), and of the workers next to dashboards.
2. `IncidentStore`: several handlings and a reader over the tables of the repositories, once something calls
   `resolve` or writes snapshots: latest snapshots with equal time stamps.
3. The replies of a model inside the handling (`LA` 165-330) in more detail: which malformed replies
   become which outcome.
4. More partitions in `StreamPipeline`, when the deployment gives the topic more than one consumer.

The twelve runs hold one question each; a new module takes the place of one or joins a composition like
`MCBatchJobs`.
