--------------------------- MODULE StreamPipeline ---------------------------
(***************************************************************************)
(* From an order event to an alert: the producer and simulator of           *)
(* src/src/pipeline/kafka_producer.py, one partition of the raw topic, the  *)
(* two Structured Streaming queries of src/src/pipeline/spark_consumer.py   *)
(* with their checkpoints, and what they put in Redis and in the dead-      *)
(* letter topic.  Offsets count from 1 and a checkpoint holds the number of *)
(* events below it.                                                         *)
(***************************************************************************)
EXTENDS BatchDQMetrics, Sequences

CONSTANTS
    Kinds,          \* the kinds of event explored, a subset of EventKinds
    MaxEvents,      \* bound: events made, by the simulator and by others
    QueueSize,      \* capacity of the producer's local queue
    MaxBatch,       \* maxOffsetsPerTrigger
    MaxFaults,      \* bound: failed deliveries, deaths and wipes
    CorruptColumn   \* whether the schema names _corrupt_record

ASSUME StreamAssumption ==
    /\ Kinds \subseteq EventKinds
    /\ MaxEvents \in Nat
    /\ QueueSize \in Nat \ {0}
    /\ MaxBatch \in Nat \ {0}
    /\ MaxFaults \in Nat
    /\ CorruptColumn \in BOOLEAN

VARIABLES
    made,      \* events made so far; each is numbered by it
    queue,     \* the producer's local queue
    sent,      \* how many of the queue the broker has, unknown to the producer
    failed,    \* events given up: reported as failed, or left behind by flush
    producer,  \* "running", or "flushing" on its way out
    topic,     \* the raw topic, the deleted records included
    gone,      \* how many of the oldest records retention has deleted
    aged,      \* events older than the freshness SLA when a score was last computed
    spark,     \* the process: "down", "starting" (one query) or "running"
    main,      \* the checkpoint of the main query
    dlq,       \* the checkpoint of the dead-letter query
    stage,     \* where _process_batch is
    score,     \* the overall score it computed
    cursor,    \* the last offset the dead-letter batch has dealt with
    dead,      \* the dead-letter topic: offsets of the records in it
    alerts,    \* alerts pushed to Redis, oldest first
    cached,    \* score records written to the cache, the last one is in it
    faults,    \* faults so far
    wiped      \* the checkpoints were lost once

producerVars == <<made, queue, sent, failed, producer>>
topicVars    == <<topic, gone, aged>>
mainVars     == <<main, stage, score, alerts, cached>>
dlqVars      == <<dlq, cursor, dead>>
envVars      == <<faults, wiped>>
vars == <<producerVars, topicVars, spark, mainVars, dlqVars, envVars>>

Stages == {"idle", "drift", "score", "alert", "commit"}

(* start: where the query first subscribed; done: the end of the last       *)
(* committed batch; planned: the end of the last batch in the offset log.   *)
NoCheckpoint == [start |-> -1, done |-> -1, planned |-> -1]

Subscribed(c) == c.start # -1

NoScore == -1

Idle == -1

Init ==
    /\ made = 0 /\ queue = <<>> /\ sent = 0 /\ failed = {} /\ producer = "running"
    /\ topic = <<>> /\ gone = 0 /\ aged = 0
    /\ spark = "down" /\ main = NoCheckpoint /\ dlq = NoCheckpoint
    /\ stage = "idle" /\ score = NoScore /\ cursor = Idle
    /\ dead = <<>> /\ alerts = <<>> /\ cached = <<>>
    /\ faults = 0 /\ wiped = FALSE
-----------------------------------------------------------------------------
(* The producer.                                                            *)

Event(id, event_id, kind) == [id |-> id, event_id |-> event_id, kind |-> kind]

(* One turn of EventSimulator.run_continuous.  A full queue makes produce   *)
(* flush and call itself again until there is room: the thread waits.       *)
Produce(kind) ==
    /\ producer = "running"
    /\ made < MaxEvents
    /\ Len(queue) < QueueSize
    /\ made' = made + 1
    /\ queue' = Append(queue, Event(made + 1, made + 1, kind))
    /\ UNCHANGED <<sent, failed, producer, topicVars, spark, mainVars, dlqVars, envVars>>

Ids(events) == {events[i].id : i \in DOMAIN events}

(* Mutant of Persist: a retry after a lost acknowledgement appends again.    *)
PersistAgain ==
    /\ Len(topic) < MaxEvents
    /\ \E n \in DOMAIN queue :
          /\ n <= sent + 1
          /\ topic' = Append(topic, queue[n])
          /\ sent' = IF n > sent THEN n ELSE sent
    /\ UNCHANGED <<made, queue, failed, producer, gone, aged, spark, mainVars, dlqVars, envVars>>

(* The broker appends what the idempotent producer sends, in order and once *)
(* however often it is sent again.                                          *)
Persist ==
    /\ sent < Len(queue)
    /\ topic' = Append(topic, queue[sent + 1])
    /\ sent' = sent + 1
    /\ UNCHANGED <<made, queue, failed, producer, gone, aged, spark, mainVars, dlqVars, envVars>>

(* _delivery_callback without an error: it counts.                          *)
Acknowledge ==
    /\ sent > 0
    /\ queue' = Tail(queue)
    /\ sent' = sent - 1
    /\ UNCHANGED <<made, failed, producer, topicVars, spark, mainVars, dlqVars, envVars>>

(* _delivery_callback with an error logs it and does nothing else.  After a *)
(* time-out the broker may have the message: its answer did not arrive.     *)
DeliveryFails ==
    /\ queue # <<>>
    /\ faults < MaxFaults
    /\ faults' = faults + 1
    /\ failed' = failed \cup {Head(queue)}
    /\ queue' = Tail(queue)
    /\ sent' = IF sent > 0 THEN sent - 1 ELSE 0
    /\ UNCHANGED <<made, producer, topicVars, spark, mainVars, dlqVars, wiped>>

(* The duration is over, the user interrupts, or produce raised: what is in *)
(* the queue is flushed, and the process has ended when it is empty.        *)
StopSimulator ==
    /\ producer = "running"
    /\ producer' = "flushing"
    /\ UNCHANGED <<made, queue, sent, failed, topicVars, spark, mainVars, dlqVars, envVars>>

(* flush gives up after its time-out: what is left goes with the process,   *)
(* the broker having it or not.  A kill is StopSimulator and this.          *)
GiveUpFlush ==
    /\ producer = "flushing"
    /\ queue # <<>>
    /\ faults < MaxFaults
    /\ faults' = faults + 1
    /\ failed' = failed \cup {queue[n] : n \in DOMAIN queue}
    /\ queue' = <<>>
    /\ sent' = 0
    /\ UNCHANGED <<made, producer, topicVars, spark, mainVars, dlqVars, wiped>>

(* A request that was on its way when its message was given up arrives.     *)
ArriveLate ==
    /\ \E e \in failed :
          /\ e.id \notin Ids(topic)
          /\ topic' = Append(topic, e)
    /\ UNCHANGED <<producerVars, gone, aged, spark, mainVars, dlqVars, envVars>>

(* Another producer of the topic: it sends what the simulator never does,   *)
(* or sends an event again under a new offset and the same event_id.        *)
Upstream(kind, event_id) ==
    /\ made < MaxEvents
    /\ made' = made + 1
    /\ topic' = Append(topic, Event(made + 1, event_id, kind))
    /\ UNCHANGED <<queue, sent, failed, producer, gone, aged, spark, mainVars, dlqVars, envVars>>

(* The event_id of an event without its fields is null, here 0.             *)
NewEventId(kind) == IF kind = "empty" THEN 0 ELSE made + 1

Foreign ==
    \/ \E kind \in Kinds \cap ForeignKinds : Upstream(kind, NewEventId(kind))
    \/ \E i \in DOMAIN topic : Upstream(topic[i].kind, topic[i].event_id)

(* Kafka deletes the oldest records when they are old enough, read or not.   *)
Expire ==
    /\ gone' \in (gone + 1) .. Len(topic)
    /\ UNCHANGED <<producerVars, topic, aged, spark, mainVars, dlqVars, envVars>>

-----------------------------------------------------------------------------
(* The streaming process.                                                   *)

(* run() builds both data frames, then starts the main query and after it   *)
(* the dead-letter query.  _parse_events filters on the column              *)
(* _corrupt_record: with a schema that does not name it Spark cannot        *)
(* resolve the column, run() raises, and no query starts.                   *)
StartMainQuery ==
    /\ spark = "down"
    /\ CorruptColumn
    /\ spark' = "starting"
    /\ UNCHANGED <<producerVars, topicVars, mainVars, dlqVars, envVars>>

StartDlqQuery ==
    /\ spark = "starting"
    /\ spark' = "running"
    /\ UNCHANGED <<producerVars, topicVars, mainVars, dlqVars, envVars>>

(* startingOffsets = latest: a query without a checkpoint begins at the end *)
(* of the topic as its own thread first sees it.                            *)
Latest == [start |-> Len(topic), done |-> Len(topic), planned |-> Len(topic)]

SubscribeMain ==
    /\ spark # "down"
    /\ ~Subscribed(main)
    /\ main' = Latest
    /\ UNCHANGED <<producerVars, topicVars, spark, stage, score, alerts, cached,
                   dlqVars, envVars>>

SubscribeDlq ==
    /\ spark = "running"
    /\ ~Subscribed(dlq)
    /\ dlq' = Latest
    /\ UNCHANGED <<producerVars, topicVars, spark, mainVars, cursor, dead, envVars>>

NextBatchEnd(c) == IF Len(topic) - c.done > MaxBatch THEN c.done + MaxBatch ELSE Len(topic)

(* Mutant of Planned: an uncommitted batch is planned again.                *)
PlannedAnew(c) == [c EXCEPT !.planned = NextBatchEnd(c)]

(* The batch to run: the one in the offset log that was not committed, or a *)
(* new one, written to the offset log first.                                *)
Planned(c) == IF c.planned > c.done THEN c ELSE [c EXCEPT !.planned = NextBatchEnd(c)]

(* Mutant of Committed: the end of a batch is taken for inclusive.          *)
CommittedPast(c) == [c EXCEPT !.done = c.planned + 1]

Committed(c) == [c EXCEPT !.done = c.planned]

Corrupt(i) == topic[i].kind = "corrupt"

(* The rows of a batch after the filter of the query, as each of its steps  *)
(* reads them anew: failOnDataLoss = false skips the records that are gone. *)
ValidRows(c)   == {i \in (c.done + 1) .. c.planned : i > gone /\ ~Corrupt(i)}
CorruptRows(c) == {i \in (c.done + 1) .. c.planned : i > gone /\ Corrupt(i)}

(* Mutant of BeginBatch: a batch waits for one event more.                  *)
BeginBatchLate ==
    /\ spark # "down"
    /\ Subscribed(main)
    /\ stage = "idle"
    /\ Len(topic) > main.done + 1
    /\ main' = Planned(main)
    /\ stage' = IF ValidRows(Planned(main)) = {} THEN "commit" ELSE "drift"
    /\ UNCHANGED <<producerVars, topicVars, spark, score, alerts, cached, dlqVars, envVars>>

BeginBatch ==
    /\ spark # "down"
    /\ Subscribed(main)
    /\ stage = "idle"
    /\ Len(topic) > main.done
    /\ main' = Planned(main)
    /\ stage' = IF ValidRows(Planned(main)) = {} THEN "commit" ELSE "drift"
    /\ UNCHANGED <<producerVars, topicVars, spark, score, alerts, cached, dlqVars, envVars>>

DriftAlert == [type |-> "schema_drift", from |-> main.done, upto |-> main.planned,
               severity |-> DriftSeverity(ReaderColumns, {}, {}), dq_score |-> NoScore]

PushDrift ==
    /\ stage = "drift"
    /\ alerts' = Append(alerts, DriftAlert)
    /\ stage' = "score"
    /\ UNCHANGED <<producerVars, topicVars, spark, main, score, cached, dlqVars, envVars>>

ScoreRecord(overall) == [from |-> main.done, upto |-> main.planned, overall |-> overall]

(* compute_and_publish up to the setex of the dashboard's cache.  By then   *)
(* more events may have left the freshness window, the oldest first.        *)
PublishScore ==
    /\ stage = "score"
    /\ ValidRows(main) # {}
    /\ aged' \in aged .. Len(topic)
    /\ score' = Overall(ValidRows(main), topic, aged')
    /\ cached' = Append(cached, ScoreRecord(score'))
    /\ stage' = IF Degraded(score') THEN "alert" ELSE "commit"
    /\ UNCHANGED <<producerVars, topic, gone, spark, main, alerts, dlqVars, envVars>>

(* compute_and_publish returns early when the rows have gone since.         *)
ScoreNothing ==
    /\ stage = "score"
    /\ ValidRows(main) = {}
    /\ stage' = "commit"
    /\ UNCHANGED <<producerVars, topicVars, spark, main, score, alerts, cached, dlqVars, envVars>>

DegradationAlert ==
    [type |-> "dq_score_degradation", from |-> main.done, upto |-> main.planned,
     severity |-> ScoreSeverity(score), dq_score |-> score]

PushDegradation ==
    /\ stage = "alert"
    /\ alerts' = Append(alerts, DegradationAlert)
    /\ stage' = "commit"
    /\ UNCHANGED <<producerVars, topicVars, spark, main, score, cached, dlqVars, envVars>>

(* Mutant of CommitBatch: Spark commits before the function returns.        *)
CommitEarly ==
    /\ stage \in {"score", "alert", "commit"}
    /\ main' = Committed(main)
    /\ stage' = "idle"
    /\ score' = NoScore
    /\ UNCHANGED <<producerVars, topicVars, spark, alerts, cached, dlqVars, envVars>>

(* Mutant of CommitBatch: the batch is not entered in the commit log.       *)
CommitForgotten ==
    /\ stage = "commit"
    /\ stage' = "idle"
    /\ score' = NoScore
    /\ UNCHANGED <<producerVars, topicVars, spark, main, alerts, cached, dlqVars, envVars>>

CommitBatch ==
    /\ stage = "commit"
    /\ main' = Committed(main)
    /\ stage' = "idle"
    /\ score' = NoScore
    /\ UNCHANGED <<producerVars, topicVars, spark, alerts, cached, dlqVars, envVars>>
-----------------------------------------------------------------------------
(* The dead-letter query.                                                   *)

BeginDlq ==
    /\ spark = "running"
    /\ Subscribed(dlq)
    /\ cursor = Idle
    /\ Len(topic) > dlq.done
    /\ dlq' = Planned(dlq)
    /\ cursor' = dlq.done
    /\ UNCHANGED <<producerVars, topicVars, spark, mainVars, dead, envVars>>

LeftToWrite == {i \in CorruptRows(dlq) : i > cursor}

(* The Kafka sink writes the rows one after the other; nothing undoes a     *)
(* written one when the batch fails.                                        *)
WriteDeadLetter ==
    /\ cursor # Idle
    /\ \E i \in LeftToWrite :
          /\ \A j \in LeftToWrite : i <= j
          /\ dead' = Append(dead, i)
          /\ cursor' = i
    /\ UNCHANGED <<producerVars, topicVars, spark, mainVars, dlq, envVars>>

(* Mutant of CommitDlq: the commit does not wait for the writes.            *)
CommitDlqEarly ==
    /\ cursor # Idle
    /\ dlq' = Committed(dlq)
    /\ cursor' = Idle
    /\ UNCHANGED <<producerVars, topicVars, spark, mainVars, dead, envVars>>

CommitDlq ==
    /\ cursor # Idle
    /\ LeftToWrite = {}
    /\ dlq' = Committed(dlq)
    /\ cursor' = Idle
    /\ UNCHANGED <<producerVars, topicVars, spark, mainVars, dead, envVars>>
-----------------------------------------------------------------------------
(* The process ends wherever it is: it is killed, or a call to Redis or to  *)
(* Kafka raises, which ends the query and through awaitAnyTermination both. *)
(* A call that raised after it took effect is its step followed by this.    *)
Die ==
    /\ spark # "down"
    /\ faults < MaxFaults
    /\ faults' = faults + 1
    /\ spark' = "down"
    /\ stage' = "idle" /\ score' = NoScore /\ cursor' = Idle
    /\ UNCHANGED <<producerVars, topicVars, main, alerts, cached, dlq, dead, wiped>>

(* checkpoint_location is under /tmp by default: with its host the process  *)
(* loses the checkpoints.                                                   *)
HostLost ==
    /\ Subscribed(main) \/ Subscribed(dlq)
    /\ faults < MaxFaults
    /\ faults' = faults + 1
    /\ spark' = "down"
    /\ stage' = "idle" /\ score' = NoScore /\ cursor' = Idle
    /\ main' = NoCheckpoint /\ dlq' = NoCheckpoint
    /\ wiped' = TRUE
    /\ UNCHANGED <<producerVars, topicVars, alerts, cached, dead>>

ProducerStep ==
    \/ \E kind \in Kinds \cap SimulatorKinds : Produce(kind)
    \/ Persist \/ Acknowledge \/ DeliveryFails
    \/ StopSimulator \/ GiveUpFlush \/ ArriveLate

MainStep ==
    \/ BeginBatch \/ PushDrift \/ PublishScore \/ ScoreNothing
    \/ PushDegradation \/ CommitBatch

DlqStep == BeginDlq \/ WriteDeadLetter \/ CommitDlq

ProcessStep == StartMainQuery \/ StartDlqQuery \/ SubscribeMain \/ SubscribeDlq

World == Foreign \/ Expire \/ Die \/ HostLost

Next == ProducerStep \/ ProcessStep \/ MainStep \/ DlqStep \/ World

Spec == Init /\ [][Next]_vars

(* A process that runs goes on, and Spark schedules both queries.  Nothing  *)
(* is assumed of the producers, and nobody need start the process again.    *)
FairSpec ==
    /\ Spec
    /\ WF_vars(StartDlqQuery)
    /\ WF_vars(SubscribeMain) /\ WF_vars(SubscribeDlq)
    /\ WF_vars(MainStep) /\ WF_vars(DlqStep)

(* An operator starts it whenever it is down.                               *)
OperatedSpec == FairSpec /\ WF_vars(StartMainQuery)
-----------------------------------------------------------------------------
(* Properties.                                                              *)

Checkpoints == {NoCheckpoint} \cup [start : Nat, done : Nat, planned : Nat]

EventType == [id : Nat, event_id : Nat, kind : EventKinds]

AlertType == [type : {"schema_drift", "dq_score_degradation"}, from : Int, upto : Int,
              severity : Severities, dq_score : Int]

(* The type of every variable, and the order of what a checkpoint holds:    *)
(* start, then done, then planned, which is within the topic.               *)
StreamTypeOK ==
    /\ made \in Nat /\ queue \in Seq(EventType) /\ failed \subseteq EventType
    /\ sent \in 0 .. Len(queue)
    /\ producer \in {"running", "flushing"}
    /\ topic \in Seq(EventType)
    /\ gone \in 0 .. Len(topic)
    /\ aged \in 0 .. Len(topic)
    /\ spark \in {"down", "starting", "running"}
    /\ \A c \in {main, dlq} :
          /\ c \in Checkpoints
          /\ Subscribed(c) =>
                c.start <= c.done /\ c.done <= c.planned /\ c.planned <= Len(topic)
    /\ stage \in Stages /\ score \in Int /\ cursor \in Int
    /\ dead \in Seq(Nat) /\ alerts \in Seq(AlertType)
    /\ cached \in Seq([from : Int, upto : Int, overall : Int])
    /\ faults \in Nat /\ wiped \in BOOLEAN

(* What produce accepted is in the local queue, in the topic, or was given  *)
(* up, which says nothing of the topic: the broker may have it.  The topic  *)
(* has no event twice, however often it was sent, and the queue and the     *)
(* topic have one in common only until its acknowledgement.                 *)
ProducedAccounted ==
    /\ Ids(queue) \cup {e.id : e \in failed} \cup Ids(topic) = 1 .. made
    /\ \A i, j \in DOMAIN topic : topic[i].id = topic[j].id => i = j
    /\ \A n \in DOMAIN queue : queue[n].id \in Ids(topic) <=> n <= sent
    /\ \A e \in failed : e.id \notin Ids(queue)

Covers(r, i) == r.from < i /\ i <= r.upto

Pushed(type, i) ==
    \E n \in DOMAIN alerts : alerts[n].type = type /\ Covers(alerts[n], i)

(* The last score computed for the batch of event i raised an alert with    *)
(* that very score if it was degraded.                                      *)
ScoreFollowedUp(i) ==
    \E n \in DOMAIN cached :
       /\ Covers(cached[n], i)
       /\ \A m \in DOMAIN cached : Covers(cached[m], i) => m <= n
       /\ Degraded(cached[n].overall) =>
             \E k \in DOMAIN alerts :
                /\ alerts[k].type = "dq_score_degradation"
                /\ Covers(alerts[k], i)
                /\ alerts[k].dq_score = cached[n].overall

(* No batch is committed before its effects are in Redis: every order event *)
(* below the committed offset was in a batch whose drift alert was pushed,  *)
(* whose score was written, and whose degradation, if the last computation  *)
(* found one, was alerted, whatever died in between.  An event that Kafka   *)
(* has deleted may have been skipped.                                       *)
CommittedBatchAlerted ==
    \A i \in (main.start + 1) .. main.done :
       i > gone /\ ~Corrupt(i) => Pushed("schema_drift", i) /\ ScoreFollowedUp(i)

(* A record in the committed part of the dead-letter query is in the dead-  *)
(* letter topic if it is corrupt and not deleted, and nothing else ever is. *)
DeadLettersComplete ==
    /\ \A i \in (dlq.start + 1) .. dlq.done :
          i > gone /\ Corrupt(i) => \E n \in DOMAIN dead : dead[n] = i
    /\ \A n \in DOMAIN dead : dead[n] \in DOMAIN topic /\ Corrupt(dead[n])

(* Effects are repeated only by replays: each fault of the run can add one  *)
(* more copy of an alert or of a dead letter, not more.                     *)
ReplaysBounded ==
    /\ \A n \in DOMAIN dead : Cardinality({m \in DOMAIN dead : dead[m] = dead[n]}) <= 1 + faults
    /\ \A n \in DOMAIN alerts :
          Cardinality({m \in DOMAIN alerts : /\ alerts[m].type = alerts[n].type
                                             /\ alerts[m].upto = alerts[n].upto}) <= 1 + faults

(* The cached score of the dashboards never goes back to an earlier batch,  *)
(* and a replayed batch has the rows it had, as long as Kafka has deleted   *)
(* none of them: its score can only be lower, by the freshness it lost.     *)
ScoresMoveOn ==
    \A m, n \in DOMAIN cached :
       m < n => \/ cached[m].upto <= cached[n].from
                \/ /\ cached[m].from = cached[n].from
                   /\ cached[m].upto = cached[n].upto
                   /\ cached[n].overall <= cached[m].overall \/ cached[n].from < gone

(* The alert processor gives an alert of the stream the severity the stream *)
(* gave it: its escalation below 60 agrees with theirs at every boundary.   *)
SeverityAgrees ==
    \A n \in DOMAIN alerts : ComputeSeverity(alerts[n]) = alerts[n].severity

(* What the topic has for each of the queries.                              *)
OrderEvents   == {i \in DOMAIN topic : i > gone /\ ~Corrupt(i)}
CorruptEvents == {i \in DOMAIN topic : i > gone /\ Corrupt(i)}

MainDelivery == INSTANCE AtLeastOnce
    WITH Nowhere <- NoCheckpoint.done, end <- Len(topic), wanted <- OrderEvents,
         from <- main.start, upto <- main.done,
         handled <- {i \in OrderEvents : Pushed("schema_drift", i)}

DlqDelivery == INSTANCE AtLeastOnce
    WITH Nowhere <- NoCheckpoint.done, end <- Len(topic), wanted <- CorruptEvents,
         from <- dlq.start, upto <- dlq.done,
         handled <- {i \in CorruptEvents : \E n \in DOMAIN dead : dead[n] = i}

(* Both queries deliver at least once, each with its own checkpoint and its *)
(* own kind of record: order events to the drift alerts, corrupt ones to    *)
(* the dead-letter topic.  Deaths and replays repeat effects, but nothing   *)
(* is committed before its effect and nothing committed is worked on again. *)
StreamDelivers == MainDelivery!Spec /\ DlqDelivery!Spec

SeenBy(c, i) == Subscribed(c) /\ c.start < i

(* No event that arrived after its query subscribed waits for its effect:   *)
(* an order event for the drift alert of its batch, a corrupt one for the   *)
(* dead-letter topic.                                                       *)
NothingOwed ==
    /\ \A i \in OrderEvents : SeenBy(main, i) => Pushed("schema_drift", i)
    /\ \A i \in CorruptEvents : SeenBy(dlq, i) => \E n \in DOMAIN dead : dead[n] = i

(* Every such event is dealt with in the end, MaxEvents being all there     *)
(* are, unless the process dies, its checkpoints are lost or Kafka deletes  *)
(* the event first.  A process that is started again after a death owes     *)
(* what the dead one owed, and settles it.                                  *)
EventuallyHandled == []<>(spark = "down" \/ wiped \/ NothingOwed)

(* "4. Routes invalid events to Dead Letter Queue", says the head of        *)
(* spark_consumer.py: a corrupt record of the raw topic reaches the dead-   *)
(* letter topic.                                                            *)
InvalidEventsRouted ==
    \A i \in 1 .. MaxEvents :
       (i <= Len(topic) /\ Corrupt(i)) ~> (\E n \in DOMAIN dead : dead[n] = i)
=============================================================================
