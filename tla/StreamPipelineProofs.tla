------------------------ MODULE StreamPipelineProofs ------------------------
(***************************************************************************)
(* Theorems about StreamPipeline, for every number of events, faults and    *)
(* places in the producer's queue, and every size of a batch.               *)
(***************************************************************************)
EXTENDS StreamPipeline, FiniteSetTheorems, TLAPS

LEMMA ListOps ==
    ASSUME NEW S, NEW s \in Seq(S)
    PROVE  /\ \A x \in S : Append(s, x) \in Seq(S)
           /\ s # <<>> => Head(s) \in S /\ Tail(s) \in Seq(S)
           /\ \A n \in DOMAIN s : s[n] \in S
OBVIOUS

(* What is appended comes last and moves nothing.                           *)
LEMMA Appended ==
    ASSUME NEW S, NEW s \in Seq(S), NEW x \in S, NEW t, t = Append(s, x)
    PROVE  /\ DOMAIN t = DOMAIN s \cup {Len(s) + 1}
           /\ Len(s) + 1 \notin DOMAIN s
           /\ Len(t) = Len(s) + 1 /\ t[Len(s) + 1] = x
           /\ \A n \in DOMAIN s : t[n] = s[n] /\ n < Len(s) + 1 /\ n \in Nat
OBVIOUS

-----------------------------------------------------------------------------
(* The scores are numbers.                                                  *)

LEMMA PercentInt ==
    ASSUME NEW n \in Nat, NEW d \in Nat \ {0}
    PROVE  Percent(n, d) \in Int
<1>1. 20000 * n + d \in Int /\ 2 * d \in Nat \ {0}
  OBVIOUS
<1>2. ASSUME NEW x \in Int, NEW y \in Nat \ {0}
      PROVE  x \div y \in Int
  OBVIOUS
<1> QED
  BY <1>1, <1>2 DEF Percent

LEMMA ShareInt ==
    ASSUME NEW rows, IsFiniteSet(rows), rows # {}, NEW part, IsFiniteSet(part)
    PROVE  Share(part, rows) \in Int
<1>1. Cardinality(rows) \in Nat \ {0} /\ Cardinality(part) \in Nat
  BY FS_CardinalityType, FS_EmptySet
<1> QED
  BY <1>1, PercentInt DEF Share

LEMMA PartsInt ==
    ASSUME NEW rows, IsFiniteSet(rows), rows # {}, NEW events, NEW old
    PROVE  /\ Completeness(rows, events) \in Int
           /\ Validity(rows, events) \in Int
           /\ Uniqueness(rows, events) \in Int
           /\ Freshness(rows, events, old) \in Int
           /\ Consistency(rows, events) \in Int
<1>1. ASSUME NEW part \in SUBSET rows
      PROVE  /\ IsFiniteSet(part) /\ Cardinality(part) \in Nat
             /\ Cardinality(part) <= Cardinality(rows)
  BY FS_Subset, FS_CardinalityType
<1>2. Cardinality(rows) \in Nat \ {0}
  BY FS_CardinalityType, FS_EmptySet
<1>3. Completeness(rows, events) \in Int
  <2> DEFINE empty == {i \in rows : NullFields(events[i].kind) > 0}
  <2>1. Cardinality(empty) \in Nat /\ Cardinality(empty) <= Cardinality(rows)
    BY <1>1
  <2> HIDE DEF empty
  <2>2. /\ CriticalFields * Cardinality(rows) \in Nat \ {0}
        /\ CriticalFields * Cardinality(rows) - CriticalFields * Cardinality(empty) \in Nat
    BY <1>2, <2>1 DEF CriticalFields
  <2> QED
    BY <2>2, PercentInt DEF Completeness, empty
<1>4. /\ Validity(rows, events) \in Int
      /\ Freshness(rows, events, old) \in Int
      /\ Consistency(rows, events) \in Int
  BY <1>1, ShareInt DEF Validity, Freshness, Consistency
<1>5. Uniqueness(rows, events) \in Int
  <2> DEFINE ids == {events[i].event_id : i \in rows}
             idOf == [i \in rows |-> events[i].event_id]
  <2>1. idOf \in Surjection(rows, ids)
    BY DEF Surjection
  <2>2. IsFiniteSet(ids)
    BY <2>1, FS_Surjection
  <2> QED
    BY <2>2, ShareInt DEF Uniqueness
<1> QED
  BY <1>3, <1>4, <1>5

LEMMA OverallInt ==
    ASSUME NEW rows, IsFiniteSet(rows), rows # {}, NEW events, NEW old
    PROVE  Overall(rows, events, old) \in Int
<1> DEFINE c == Completeness(rows, events)
           v == Validity(rows, events)
           u == Uniqueness(rows, events)
           f == Freshness(rows, events, old)
           k == Consistency(rows, events)
<1> HIDE DEF c, v, u, f, k
<1>1. c \in Int /\ v \in Int /\ u \in Int /\ f \in Int /\ k \in Int
  BY PartsInt DEF c, v, u, f, k
<1>2. (25 * c + 25 * v + 20 * u + 20 * f + 10 * k + 50) \div 100 \in Int
  BY <1>1
<1> QED
  BY <1>2 DEF Overall, c, v, u, f, k

-----------------------------------------------------------------------------
(* Types.                                                                   *)

(* A query that works has subscribed, and a batch is of something.          *)
AtWork ==
    /\ stage # "idle" => Subscribed(main) /\ main.done < main.planned
    /\ cursor # Idle => Subscribed(dlq) /\ cursor \in Nat

StreamTypes == StreamTypeOK /\ AtWork

LEMMA InitTypes == Init => StreamTypes
<1> SUFFICES ASSUME Init PROVE StreamTypes
  OBVIOUS
<1> USE DEF Init
<1>1. /\ aged \in 0 .. Len(topic) /\ gone \in 0 .. Len(topic) /\ sent \in 0 .. Len(queue)
      /\ faults \in Nat /\ made \in Nat
  OBVIOUS
<1>2. ~Subscribed(main) /\ ~Subscribed(dlq)
  BY DEF Subscribed, NoCheckpoint
<1>3. /\ queue \in Seq(EventType) /\ topic \in Seq(EventType) /\ dead \in Seq(Nat)
      /\ alerts \in Seq(AlertType)
      /\ cached \in Seq([from : Int, upto : Int, overall : Int])
  OBVIOUS
<1>4. \A c \in {main, dlq} : c \in Checkpoints /\ ~Subscribed(c)
  BY <1>2 DEF Checkpoints
<1>5. /\ failed \subseteq EventType /\ producer \in {"running", "flushing"}
      /\ spark \in {"down", "starting", "running"}
      /\ stage \in Stages /\ score \in Int /\ cursor \in Int
  BY DEF Stages, NoScore, Idle
<1>6. wiped \in BOOLEAN
  OBVIOUS
<1>7. StreamTypeOK
  <2> USE DEF StreamTypeOK
  <2> HIDE DEF Init
  <2> QED
    BY <1>1, <1>3, <1>4, <1>5, <1>6
<1> QED
  BY <1>7 DEF StreamTypes, AtWork

(* What is always known of a checkpoint of a query that subscribed.         *)
Sound(c) ==
    /\ c \in [start : Nat, done : Nat, planned : Nat]
    /\ c.start <= c.done /\ c.done <= c.planned /\ c.planned <= Len(topic)

LEMMA SoundCheckpoints ==
    ASSUME StreamTypeOK
    PROVE  /\ Subscribed(main) => Sound(main)
           /\ Subscribed(dlq) => Sound(dlq)
           /\ Len(topic) \in Nat
<1>1. \A c \in {main, dlq} :
         /\ c \in Checkpoints
         /\ Subscribed(c) =>
               c.start <= c.done /\ c.done <= c.planned /\ c.planned <= Len(topic)
  BY DEF StreamTypeOK
<1>2. Len(topic) \in Nat
  BY DEF StreamTypeOK
<1>3. \A c \in Checkpoints : Subscribed(c) => c \in [start : Nat, done : Nat, planned : Nat]
  BY DEF Checkpoints, Subscribed, NoCheckpoint
<1> QED
  BY <1>1, <1>2, <1>3 DEF Sound

LEMMA CheckpointOps ==
    ASSUME NEW c, Sound(c), Len(topic) \in Nat
    PROVE  /\ Sound(Planned(c)) /\ Planned(c).done = c.done /\ Planned(c).start = c.start
           /\ c.done < Len(topic) => c.done < Planned(c).planned
           /\ Sound(Committed(c)) /\ Committed(c).done = c.planned
           /\ Committed(c).start = c.start
           /\ Subscribed(c) /\ Subscribed(Planned(c)) /\ Subscribed(Committed(c))
<1>1. /\ NextBatchEnd(c) \in Nat /\ c.done <= NextBatchEnd(c) /\ NextBatchEnd(c) <= Len(topic)
      /\ c.done < Len(topic) => c.done < NextBatchEnd(c)
  BY StreamAssumption DEF Sound, NextBatchEnd
<1> QED
  BY <1>1 DEF Sound, Planned, Committed, Subscribed

LEMMA NewCheckpoint ==
    ASSUME Len(topic) \in Nat
    PROVE  Sound(Latest) /\ Subscribed(Latest)
BY DEF Sound, Latest, Subscribed

(* The rows of a batch are finitely many events of the topic.               *)
LEMMA BatchRows ==
    ASSUME NEW c, Sound(c)
    PROVE  /\ IsFiniteSet(ValidRows(c))
           /\ \A i \in ValidRows(c) \cup CorruptRows(c) :
                 i \in Nat /\ i \in 1..Len(topic) /\ c.done < i /\ i <= c.planned
<1>1. c.done \in Nat /\ c.planned \in Nat /\ Len(topic) \in Int
  BY DEF Sound
<1>2. IsFiniteSet((c.done + 1) .. c.planned)
  <2>1. c.done + 1 \in Int /\ c.planned \in Int
    BY <1>1
  <2> QED
    BY <2>1, FS_Interval
<1>3. IsFiniteSet(ValidRows(c))
  BY <1>2, FS_Subset DEF ValidRows
<1> QED
  BY <1>1, <1>3 DEF ValidRows, CorruptRows, Sound

LEMMA TopicGrows ==
    ASSUME StreamTypeOK, NEW e \in EventType, topic' = Append(topic, e), gone' = gone
    PROVE  /\ topic' \in Seq(EventType) /\ Len(topic') = Len(topic) + 1
           /\ \A i \in 1 .. Len(topic) : topic'[i] = topic[i] /\ (Corrupt(i)' <=> Corrupt(i))
           /\ \A c : Sound(c) => Sound(c)'
           /\ Subscribed(main) /\ main' = main => ValidRows(main)' = ValidRows(main)
           /\ Subscribed(dlq) /\ dlq' = dlq => CorruptRows(dlq)' = CorruptRows(dlq)
<1>1. topic \in Seq(EventType) /\ Len(topic) \in Nat
  BY DEF StreamTypeOK
<1>2. topic' \in Seq(EventType) /\ Len(topic') = Len(topic) + 1
  BY <1>1
<1>3. \A i \in 1 .. Len(topic) : topic'[i] = topic[i]
  BY <1>1
<1>4. \A i \in 1 .. Len(topic) : Corrupt(i)' <=> Corrupt(i)
  BY <1>3 DEF Corrupt
<1>5. \A c : Sound(c) => Sound(c)'
  BY <1>1, <1>2 DEF Sound
<1>6. ASSUME NEW c, Sound(c)
      PROVE  (c.done + 1) .. c.planned \subseteq 1 .. Len(topic)
  BY <1>1, <1>6 DEF Sound
<1>7. Subscribed(main) /\ main' = main => ValidRows(main)' = ValidRows(main)
  BY <1>4, <1>6, SoundCheckpoints DEF ValidRows
<1>8. Subscribed(dlq) /\ dlq' = dlq => CorruptRows(dlq)' = CorruptRows(dlq)
  BY <1>4, <1>6, SoundCheckpoints DEF CorruptRows
<1> QED
  BY <1>2, <1>3, <1>4, <1>5, <1>7, <1>8

(* Both checkpoints have their type when each is what it was or sound.      *)
LEMMA CheckpointTypes ==
    ASSUME StreamTypeOK, Len(topic) <= Len(topic'), Len(topic') \in Nat,
           NEW c \in {main', dlq'},
           c \in {main, dlq, NoCheckpoint} \/ Sound(c)'
    PROVE  c \in Checkpoints /\ (Subscribed(c) =>
              c.start <= c.done /\ c.done <= c.planned /\ c.planned <= Len(topic'))
<1>1. CASE c \in {main, dlq} /\ Subscribed(c)
  BY <1>1, SoundCheckpoints DEF Sound, Checkpoints
<1>2. CASE Sound(c)'
  BY <1>2 DEF Sound, Checkpoints
<1>3. CASE ~Subscribed(c) /\ c \in {main, dlq}
  BY <1>3 DEF StreamTypeOK
<1>4. CASE c = NoCheckpoint
  BY <1>4 DEF Subscribed, NoCheckpoint, Checkpoints
<1> QED
  BY <1>1, <1>2, <1>3, <1>4

(* The topic gets one event of its type, or none.                           *)
LEMMA EventsArrive ==
    ASSUME StreamTypes, ProducerStep \/ Foreign
    PROVE  /\ topic' = topic \/ \E e \in EventType : topic' = Append(topic, e)
           /\ UNCHANGED <<gone, spark, mainVars, dlqVars>>
<1> USE DEF StreamTypes
<1>1. \A e \in EventType : e.event_id \in Nat /\ e.kind \in EventKinds
  BY DEF EventType
<1>2. UNCHANGED <<gone, spark, mainVars, dlqVars>>
  BY DEF ProducerStep, Foreign, Produce, Persist, Acknowledge, DeliveryFails, StopSimulator,
         GiveUpFlush, ArriveLate, Upstream, topicVars
<1>3. ASSUME NEW kind \in EventKinds, NEW id \in Nat, Upstream(kind, id)
      PROVE  \E e \in EventType : topic' = Append(topic, e)
  <2>1. Event(made + 1, id, kind) \in EventType
    BY DEF StreamTypeOK, Event, EventType
  <2> QED
    BY <1>3, <2>1 DEF Upstream
<1>4. CASE Foreign
  <2>1. ForeignKinds \subseteq EventKinds /\ \A kind : NewEventId(kind) \in Nat
    BY DEF StreamTypeOK, EventKinds, NewEventId
  <2>2. \A i \in DOMAIN topic : topic[i].kind \in EventKinds /\ topic[i].event_id \in Nat
    <3>1. \A i \in DOMAIN topic : topic[i] \in EventType
      BY ListOps DEF StreamTypeOK
    <3> QED
      BY <1>1, <3>1
  <2>3. ASSUME NEW kind \in Kinds \cap ForeignKinds, Upstream(kind, NewEventId(kind))
        PROVE  \E e \in EventType : topic' = Append(topic, e)
    BY <1>3, <2>1, <2>3
  <2>4. ASSUME NEW i \in DOMAIN topic, Upstream(topic[i].kind, topic[i].event_id)
        PROVE  \E e \in EventType : topic' = Append(topic, e)
    BY <1>3, <2>2, <2>4
  <2> QED
    BY <1>2, <1>4, <2>3, <2>4 DEF Foreign
<1>5. CASE Persist
  <2>1. queue \in Seq(EventType) /\ Len(queue) \in Nat /\ sent \in Nat
    BY DEF StreamTypeOK
  <2>2. sent + 1 \in DOMAIN queue
    BY <1>5, <2>1 DEF Persist
  <2> QED
    BY <1>2, <1>5, <2>1, <2>2, ListOps DEF Persist
<1>6. CASE ArriveLate
  BY <1>2, <1>6 DEF ArriveLate, StreamTypeOK
<1> QED
  BY <1>2, <1>4, <1>5, <1>6
  DEF ProducerStep, Produce, Acknowledge, DeliveryFails, StopSimulator, GiveUpFlush, topicVars

(* The local queue and what was given up.                                   *)
LEMMA QueueTypes ==
    ASSUME StreamTypes, ProducerStep \/ Foreign
    PROVE  /\ queue' \in Seq(EventType) /\ sent' \in 0 .. Len(queue')
           /\ failed' \subseteq EventType
<1> USE DEF StreamTypes
<1>1. /\ queue \in Seq(EventType) /\ Len(queue) \in Nat /\ sent \in 0 .. Len(queue)
      /\ failed \subseteq EventType
  BY DEF StreamTypeOK
<1>2. queue # <<>> => /\ Head(queue) \in EventType /\ Tail(queue) \in Seq(EventType)
                      /\ Len(Tail(queue)) = Len(queue) - 1 /\ Len(queue) > 0
  BY <1>1
<1>3. ASSUME NEW kind \in Kinds \cap SimulatorKinds, Produce(kind)
      PROVE  queue' \in Seq(EventType) /\ Len(queue') = Len(queue) + 1
  <2>1. Event(made + 1, made + 1, kind) \in EventType
    BY DEF StreamTypeOK, Event, EventType, EventKinds
  <2> QED
    BY <1>1, <1>3, <2>1 DEF Produce
<1>4. CASE \E kind \in Kinds \cap SimulatorKinds : Produce(kind)
  BY <1>1, <1>3, <1>4 DEF Produce
<1>5. CASE Persist
  BY <1>1, <1>5 DEF Persist
<1>6. CASE Acknowledge
  <2>1. queue # <<>>
    BY <1>1, <1>6 DEF Acknowledge
  <2> QED
    BY <1>1, <1>2, <1>6, <2>1 DEF Acknowledge
<1>7. CASE DeliveryFails
  BY <1>1, <1>2, <1>7 DEF DeliveryFails
<1>8. CASE GiveUpFlush
  <2>1. \A n \in DOMAIN queue : queue[n] \in EventType
    BY <1>1, ListOps
  <2> QED
    BY <1>1, <1>8, <2>1 DEF GiveUpFlush
<1>9. CASE StopSimulator \/ ArriveLate \/ Foreign
  BY <1>1, <1>9 DEF StopSimulator, ArriveLate, Foreign, Upstream, producerVars
<1> QED
  BY <1>4, <1>5, <1>6, <1>7, <1>8, <1>9 DEF ProducerStep

LEMMA ProducerTypes ==
    ASSUME StreamTypes, ProducerStep \/ Foreign
    PROVE  StreamTypes'
<1> USE DEF StreamTypes
<1>1. UNCHANGED <<gone, spark, mainVars, dlqVars>>
  BY EventsArrive
<1>2. /\ made' \in Nat /\ faults' \in Nat /\ producer' \in {"running", "flushing"}
      /\ UNCHANGED <<aged, wiped>>
  <2>1. made \in Nat /\ faults \in Nat /\ producer \in {"running", "flushing"}
    BY DEF StreamTypeOK
  <2>2. CASE \E kind \in Kinds \cap SimulatorKinds : Produce(kind)
    BY <2>1, <2>2 DEF Produce, topicVars, envVars
  <2>3. CASE Persist \/ Acknowledge \/ StopSimulator \/ ArriveLate
    BY <2>1, <2>3 DEF Persist, Acknowledge, StopSimulator, ArriveLate, producerVars,
       topicVars, envVars
  <2>4. CASE DeliveryFails \/ GiveUpFlush
    BY <2>1, <2>4 DEF DeliveryFails, GiveUpFlush, topicVars
  <2>5. CASE Foreign
    BY <2>1, <2>5 DEF Foreign, Upstream, envVars
  <2> QED
    BY <2>2, <2>3, <2>4, <2>5 DEF ProducerStep
<1>3. topic' = topic \/ \E e \in EventType : topic' = Append(topic, e)
  BY EventsArrive
<1>4. /\ topic' \in Seq(EventType) /\ Len(topic) <= Len(topic')
      /\ Len(topic) \in Nat /\ Len(topic') \in Nat
  <2>1. topic \in Seq(EventType) /\ Len(topic) \in Nat
    BY DEF StreamTypeOK
  <2> QED
    BY <1>1, <1>3, <2>1, TopicGrows
<1>5. \A c \in {main', dlq'} : c \in Checkpoints /\ (Subscribed(c) =>
          c.start <= c.done /\ c.done <= c.planned /\ c.planned <= Len(topic'))
  BY <1>1, <1>4, CheckpointTypes DEF mainVars, dlqVars
<1>6. AtWork'
  BY <1>1 DEF AtWork, mainVars, dlqVars, Subscribed
<1>7. aged' \in 0 .. Len(topic') /\ gone' \in 0 .. Len(topic')
  BY <1>1, <1>2, <1>4 DEF StreamTypeOK
<1> QED
  BY <1>1, <1>2, <1>4, <1>5, <1>6, <1>7, QueueTypes
  DEF StreamTypeOK, mainVars, dlqVars, Subscribed

(* A step of the process or of the world that leaves the events alone.      *)
LEMMA ConsumerTypes ==
    ASSUME StreamTypes, UNCHANGED <<producerVars, topic>>,
           gone' \in 0 .. Len(topic), aged' \in 0 .. Len(topic),
           spark' \in {"down", "starting", "running"},
           \A c \in {main', dlq'} : c \in {main, dlq, NoCheckpoint} \/ Sound(c),
           stage' \in Stages, score' \in Int, cursor' \in Int, dead' \in Seq(Nat),
           alerts' \in Seq(AlertType), faults' \in Nat, wiped' \in BOOLEAN,
           cached' \in Seq([from : Int, upto : Int, overall : Int]), AtWork'
    PROVE  StreamTypes'
<1> USE DEF StreamTypes
<1>1. Len(topic) \in Nat /\ Len(topic') = Len(topic)
  BY DEF StreamTypeOK
<1>2. \A c \in {main', dlq'} : c \in Checkpoints /\ (Subscribed(c) =>
          c.start <= c.done /\ c.done <= c.planned /\ c.planned <= Len(topic'))
  BY <1>1, CheckpointTypes DEF Sound
<1> QED
  BY <1>1, <1>2 DEF StreamTypeOK, producerVars, Subscribed

LEMMA AlertTypes ==
    ASSUME StreamTypes, stage # "idle"
    PROVE  DriftAlert \in AlertType /\ DegradationAlert \in AlertType
<1>1. main.done \in Int /\ main.planned \in Int /\ score \in Int
  BY SoundCheckpoints DEF StreamTypes, AtWork, Sound, StreamTypeOK
<1>2. DriftSeverity(ReaderColumns, {}, {}) \in Severities
  BY DEF DriftSeverity, Severities
<1>3. ScoreSeverity(score) \in Severities
  BY DEF ScoreSeverity, Severities
<1>4. NoScore \in Int
  BY DEF NoScore
<1> QED
  BY <1>1, <1>2, <1>3, <1>4 DEF AlertType, DriftAlert, DegradationAlert

LEMMA MainTypes ==
    ASSUME StreamTypes, MainStep
    PROVE  StreamTypes'
<1> USE DEF StreamTypes
<1>1. /\ UNCHANGED <<producerVars, topic, gone, spark, dlqVars, envVars>>
      /\ stage' \in Stages
  BY DEF MainStep, BeginBatch, PushDrift, PublishScore, ScoreNothing, PushDegradation,
         CommitBatch, Stages, topicVars
<1>2. cursor # Idle => Subscribed(dlq) /\ cursor \in Nat
  BY DEF AtWork
<1>3. /\ aged \in 0 .. Len(topic) /\ gone \in 0 .. Len(topic)
      /\ spark \in {"down", "starting", "running"}
      /\ score \in Int /\ cursor \in Int /\ dead \in Seq(Nat) /\ alerts \in Seq(AlertType)
      /\ cached \in Seq([from : Int, upto : Int, overall : Int]) /\ Len(topic) \in Nat
  BY DEF StreamTypeOK
<1>4. faults \in Nat /\ wiped \in BOOLEAN
  BY DEF StreamTypeOK
<1>5. CASE BeginBatch
  <2>1. Sound(main) /\ Subscribed(main)
    BY <1>5, SoundCheckpoints DEF BeginBatch
  <2>2. Sound(main') /\ Subscribed(main') /\ main'.done < main'.planned
    <3>1. main.done < Len(topic) /\ main' = Planned(main)
      BY <1>3, <1>5, <2>1 DEF BeginBatch, Sound
    <3> QED
      BY <1>3, <2>1, <3>1, CheckpointOps
  <2>3. AtWork'
    BY <1>1, <1>2, <1>5, <2>2 DEF AtWork, BeginBatch, dlqVars, Subscribed
  <2> QED
    BY <1>1, <1>3, <1>4, <1>5, <2>2, <2>3, ConsumerTypes
    DEF BeginBatch, dlqVars, envVars, topicVars
<1>6. CASE PushDrift
  <2>1. alerts' \in Seq(AlertType)
    BY <1>3, <1>6, AlertTypes, ListOps DEF PushDrift
  <2>2. AtWork'
    BY <1>1, <1>6 DEF AtWork, PushDrift, dlqVars, Subscribed
  <2> QED
    BY <1>1, <1>3, <1>4, <1>6, <2>1, <2>2, ConsumerTypes
    DEF PushDrift, dlqVars, envVars, topicVars
<1>7. CASE PublishScore
  <2>1. Subscribed(main) /\ Sound(main) /\ ValidRows(main) # {}
    BY <1>7, SoundCheckpoints DEF AtWork, PublishScore
  <2>2. score' \in Int
    BY <1>7, <2>1, BatchRows, OverallInt DEF PublishScore
  <2>3. ScoreRecord(score') \in [from : Int, upto : Int, overall : Int]
    BY <2>1, <2>2 DEF ScoreRecord, Sound
  <2>4. cached' \in Seq([from : Int, upto : Int, overall : Int])
    BY <1>3, <1>7, <2>3, ListOps DEF PublishScore
  <2>5. aged' \in 0 .. Len(topic)
    BY <1>3, <1>7 DEF PublishScore
  <2>6. AtWork'
    BY <1>1, <1>7, <2>1 DEF AtWork, PublishScore, dlqVars, Subscribed
  <2> QED
    BY <1>1, <1>3, <1>4, <1>7, <2>2, <2>4, <2>5, <2>6, ConsumerTypes
    DEF PublishScore, dlqVars, envVars
<1>10. CASE ScoreNothing
  <2>1. AtWork'
    BY <1>1, <1>10 DEF AtWork, ScoreNothing, dlqVars, Subscribed
  <2> QED
    BY <1>1, <1>3, <1>4, <1>10, <2>1, ConsumerTypes
    DEF ScoreNothing, dlqVars, envVars, topicVars
<1>8. CASE PushDegradation
  <2>1. alerts' \in Seq(AlertType)
    BY <1>3, <1>8, AlertTypes, ListOps DEF PushDegradation
  <2>2. AtWork'
    BY <1>1, <1>8 DEF AtWork, PushDegradation, dlqVars, Subscribed
  <2> QED
    BY <1>1, <1>3, <1>4, <1>8, <2>1, <2>2, ConsumerTypes
    DEF PushDegradation, dlqVars, envVars, topicVars
<1>9. CASE CommitBatch
  <2>1. Sound(main)
    BY <1>9, SoundCheckpoints DEF AtWork, CommitBatch
  <2>2. Sound(main')
    BY <1>3, <1>9, <2>1, CheckpointOps DEF CommitBatch
  <2>3. AtWork'
    BY <1>1, <1>9 DEF AtWork, CommitBatch, dlqVars, Subscribed
  <2>4. score' \in Int
    BY <1>9 DEF CommitBatch, NoScore
  <2> QED
    BY <1>1, <1>3, <1>4, <1>9, <2>2, <2>3, <2>4, ConsumerTypes
    DEF CommitBatch, dlqVars, envVars, topicVars
<1> QED
  BY <1>5, <1>6, <1>7, <1>8, <1>9, <1>10 DEF MainStep

LEMMA ProcessTypes ==
    ASSUME StreamTypes, DlqStep \/ ProcessStep \/ Die \/ HostLost
    PROVE  StreamTypes'
<1> USE DEF StreamTypes
<1>1. /\ UNCHANGED <<producerVars, topicVars, alerts, cached>>
      /\ spark' \in {"down", "starting", "running"}
      /\ stage' \in Stages
  BY DEF DlqStep, BeginDlq, WriteDeadLetter, CommitDlq, ProcessStep, StartMainQuery,
         StartDlqQuery, SubscribeMain, SubscribeDlq, Die, HostLost, mainVars, dlqVars,
         StreamTypeOK, Stages
<1>2. /\ aged' \in 0 .. Len(topic) /\ gone' \in 0 .. Len(topic) /\ topic' = topic
      /\ score \in Int /\ cursor \in Int /\ dead \in Seq(Nat)
      /\ alerts \in Seq(AlertType) /\ Len(topic) \in Nat
      /\ cached \in Seq([from : Int, upto : Int, overall : Int])
  BY <1>1 DEF StreamTypeOK, topicVars
<1>3. faults \in Nat /\ wiped \in BOOLEAN
  BY DEF StreamTypeOK
<1>4. Idle \in Int /\ NoScore \in Int
  BY DEF Idle, NoScore
<1>5. CASE BeginDlq
  <2>1. Sound(dlq)
    BY <1>5, SoundCheckpoints DEF BeginDlq
  <2>2. Sound(dlq') /\ Subscribed(dlq')
    BY <1>2, <1>5, <2>1, CheckpointOps DEF BeginDlq
  <2>3. cursor' \in Nat
    BY <1>5, <2>1 DEF BeginDlq, Sound
  <2>4. AtWork'
    BY <1>1, <1>5, <2>2, <2>3 DEF AtWork, BeginDlq, mainVars, Subscribed
  <2> QED
    BY <1>1, <1>2, <1>3, <1>5, <2>2, <2>3, <2>4, ConsumerTypes DEF BeginDlq, mainVars, envVars
<1>6. CASE WriteDeadLetter
  <2>1. Subscribed(dlq) /\ Sound(dlq)
    BY <1>6, SoundCheckpoints DEF AtWork, WriteDeadLetter
  <2>2. \A i \in LeftToWrite : i \in Nat
    BY <2>1, BatchRows DEF LeftToWrite
  <2>3. cursor' \in Nat /\ dead' \in Seq(Nat)
    BY <1>2, <1>6, <2>2, ListOps DEF WriteDeadLetter
  <2>4. AtWork'
    BY <1>1, <1>6, <2>1, <2>3
    DEF AtWork, WriteDeadLetter, mainVars, Subscribed
  <2> QED
    BY <1>1, <1>2, <1>3, <1>6, <2>3, <2>4, ConsumerTypes
    DEF WriteDeadLetter, mainVars, envVars
<1>7. CASE CommitDlq
  <2>1. Sound(dlq)
    BY <1>7, SoundCheckpoints DEF AtWork, CommitDlq
  <2>2. Sound(dlq')
    BY <1>2, <1>7, <2>1, CheckpointOps DEF CommitDlq
  <2>3. AtWork'
    BY <1>1, <1>7 DEF AtWork, CommitDlq, mainVars, Subscribed
  <2> QED
    BY <1>1, <1>2, <1>3, <1>4, <1>7, <2>2, <2>3, ConsumerTypes
    DEF CommitDlq, mainVars, envVars
<1>8. CASE StartMainQuery \/ StartDlqQuery
  <2>1. AtWork'
    BY <1>1, <1>8 DEF AtWork, StartMainQuery, StartDlqQuery, mainVars, dlqVars, Subscribed
  <2> QED
    BY <1>1, <1>2, <1>3, <1>8, <2>1, ConsumerTypes
    DEF StartMainQuery, StartDlqQuery, mainVars, dlqVars, envVars
<1>9. CASE SubscribeMain \/ SubscribeDlq
  <2>1. Sound(Latest) /\ Subscribed(Latest)
    BY <1>2, NewCheckpoint
  <2>2. AtWork'
    BY <1>1, <1>9, <2>1 DEF AtWork, SubscribeMain, SubscribeDlq, mainVars, dlqVars,
       Subscribed
  <2> QED
    BY <1>1, <1>2, <1>3, <1>9, <2>1, <2>2, ConsumerTypes
    DEF SubscribeMain, SubscribeDlq, mainVars, dlqVars, envVars
<1>10. CASE Die
  <2>1. AtWork'
    BY <1>10 DEF AtWork, Die
  <2>2. UNCHANGED <<dead, main, dlq, wiped>> /\ faults' \in Nat
    BY <1>3, <1>10 DEF Die
  <2>3. score' \in Int /\ cursor' \in Int
    BY <1>4, <1>10 DEF Die
  <2> QED
    BY <1>1, <1>2, <1>3, <2>1, <2>2, <2>3, ConsumerTypes
<1>11. CASE HostLost
  <2>1. AtWork'
    BY <1>11 DEF AtWork, HostLost
  <2>2. dead' = dead /\ faults' \in Nat
    BY <1>3, <1>11 DEF HostLost
  <2>3. score' \in Int /\ cursor' \in Int /\ main' = NoCheckpoint /\ dlq' = NoCheckpoint
    BY <1>4, <1>11 DEF HostLost
  <2>4. wiped' \in BOOLEAN
    BY <1>11, Zenon DEF HostLost
  <2> QED
    BY <1>1, <1>2, <1>3, <2>1, <2>2, <2>3, <2>4, ConsumerTypes
<1> QED
  BY <1>5, <1>6, <1>7, <1>8, <1>9, <1>10, <1>11 DEF DlqStep, ProcessStep

LEMMA ExpireTypes ==
    ASSUME StreamTypes, Expire
    PROVE  StreamTypes'
<1> USE DEF StreamTypes
<1>1. UNCHANGED <<producerVars, topic, aged, spark, mainVars, dlqVars, envVars>>
  BY DEF Expire
<1>2. /\ aged \in 0 .. Len(topic) /\ spark \in {"down", "starting", "running"}
      /\ stage \in Stages /\ score \in Int /\ cursor \in Int /\ dead \in Seq(Nat)
      /\ alerts \in Seq(AlertType) /\ faults \in Nat /\ wiped \in BOOLEAN
      /\ cached \in Seq([from : Int, upto : Int, overall : Int])
  BY DEF StreamTypeOK
<1>3. gone' \in 0 .. Len(topic)
  BY DEF Expire, StreamTypeOK
<1>4. AtWork'
  BY <1>1 DEF AtWork, mainVars, dlqVars, Subscribed
<1> QED
  BY <1>1, <1>2, <1>3, <1>4, ConsumerTypes DEF mainVars, dlqVars, envVars

LEMMA NextTypes == StreamTypes /\ [Next]_vars => StreamTypes'
<1> SUFFICES ASSUME StreamTypes, [Next]_vars PROVE StreamTypes'
  OBVIOUS
<1>1. CASE UNCHANGED vars
  BY <1>1 DEF StreamTypes, StreamTypeOK, AtWork, vars, producerVars, topicVars, mainVars,
     dlqVars, envVars, Subscribed
<1> QED
  BY <1>1, ProducerTypes, MainTypes, ProcessTypes, ExpireTypes DEF Next, World

LEMMA TypesInvariant == Spec => []StreamTypes
BY InitTypes, NextTypes, PTL DEF Spec

(* From the simulator to the checkpoints every variable has the type its    *)
(* code gives it, and both checkpoints are in order and within the topic.   *)
THEOREM StreamTypeCorrect == Spec => []StreamTypeOK
BY TypesInvariant, PTL DEF StreamTypes

-----------------------------------------------------------------------------
(* The dead letters.                                                        *)

Written(i) == \E n \in DOMAIN dead : dead[n] = i

(* The property, and where a batch has got to: what lies before the cursor  *)
(* has been written.  CommitDlq needs it: the property alone says nothing   *)
(* of a batch that is not committed.                                        *)
DeadLetters ==
    /\ DeadLettersComplete
    /\ cursor # Idle => \A i \in CorruptRows(dlq) : i <= cursor => Written(i)

LEMMA InitDeadLetters == Init => DeadLetters
<1> SUFFICES ASSUME Init PROVE DeadLetters
  OBVIOUS
<1>1. DOMAIN dead = {} /\ (dlq.start + 1) .. dlq.done = {} /\ cursor = Idle
  BY DEF Init, NoCheckpoint
<1> QED
  BY <1>1 DEF DeadLetters, DeadLettersComplete

(* The steps that touch neither the query nor the events it reads.          *)
LEMMA DlqAlone ==
    ASSUME StreamTypes, DeadLetters, UNCHANGED <<topic, dead, dlq>>,
           cursor' \in {cursor, Idle}, gone' \in Nat, gone <= gone'
    PROVE  DeadLetters'
<1>1. gone \in Nat
  BY DEF StreamTypes, StreamTypeOK
<1>2. \A i \in Int : i > gone' => i > gone
  BY <1>1
<1>3. \A c : \A i \in (c.start + 1) .. c.done : i \in Int
  OBVIOUS
<1>4. CorruptRows(dlq)' \subseteq CorruptRows(dlq)
  BY <1>2 DEF CorruptRows, Corrupt
<1> QED
  BY <1>2, <1>3, <1>4 DEF DeadLetters, DeadLettersComplete, Written, Corrupt

LEMMA DlqTopic ==
    ASSUME StreamTypes, DeadLetters, NEW e \in EventType, topic' = Append(topic, e),
           UNCHANGED <<gone, dlqVars>>
    PROVE  DeadLetters'
<1>1. StreamTypeOK
  BY DEF StreamTypes
<1>2. \A i \in 1 .. Len(topic) : Corrupt(i)' <=> Corrupt(i)
  BY <1>1, TopicGrows
<1>3. /\ topic \in Seq(EventType) /\ Len(topic) \in Nat /\ DOMAIN topic = 1 .. Len(topic)
      /\ DOMAIN topic \subseteq DOMAIN topic'
  BY <1>1, Appended DEF StreamTypeOK
<1>4. CASE Subscribed(dlq)
  <2>1. Sound(dlq)
    BY <1>1, <1>4, SoundCheckpoints
  <2>2. (dlq.start + 1) .. dlq.done \subseteq 1 .. Len(topic)
    BY <1>3, <2>1 DEF Sound
  <2>3. CorruptRows(dlq)' = CorruptRows(dlq)
    BY <1>1, <1>4, TopicGrows DEF dlqVars
  <2> QED
    BY <1>2, <1>3, <2>2, <2>3 DEF DeadLetters, DeadLettersComplete, Written, dlqVars
<1>5. CASE ~Subscribed(dlq)
  <2>1. dlq = NoCheckpoint /\ cursor = Idle
    BY <1>1, <1>5 DEF StreamTypes, StreamTypeOK, AtWork, Checkpoints, Subscribed
  <2>2. (dlq.start + 1) .. dlq.done = {}
    BY <2>1 DEF NoCheckpoint
  <2> QED
    BY <1>2, <1>3, <2>1, <2>2 DEF DeadLetters, DeadLettersComplete, dlqVars
<1> QED
  BY <1>4, <1>5

LEMMA DlqDeadLetters ==
    ASSUME StreamTypes, DeadLetters, DlqStep
    PROVE  DeadLetters'
<1>1. Subscribed(dlq) /\ Sound(dlq)
  BY SoundCheckpoints DEF StreamTypes, AtWork, DlqStep, BeginDlq, WriteDeadLetter, CommitDlq
<1>2. /\ topic' = topic /\ gone' = gone /\ gone \in Nat
      /\ Len(topic) \in Nat /\ dead \in Seq(Nat) /\ cursor \in Int
  BY DEF StreamTypes, StreamTypeOK, DlqStep, BeginDlq, WriteDeadLetter, CommitDlq, topicVars
<1>3. dlq.start \in Nat /\ dlq.done \in Nat /\ dlq.planned \in Nat
  BY <1>1 DEF Sound
<1>4. CASE BeginDlq
  <2>1. /\ dlq'.done = dlq.done /\ dlq'.start = dlq.start /\ cursor' = dlq.done
        /\ dead' = dead /\ Sound(dlq')
    BY <1>1, <1>2, <1>4, CheckpointOps DEF BeginDlq
  <2>2. \A i \in CorruptRows(dlq)' : ~(i <= cursor')
    BY <1>2, <1>3, <2>1 DEF CorruptRows, Sound
  <2> QED
    BY <1>2, <2>1, <2>2 DEF DeadLetters, DeadLettersComplete, Corrupt
<1>5. CASE WriteDeadLetter
  <2>1. PICK i \in LeftToWrite :
           (\A j \in LeftToWrite : i <= j) /\ dead' = Append(dead, i) /\ cursor' = i
    BY <1>5 DEF WriteDeadLetter
  <2>2. i \in CorruptRows(dlq) /\ i \in Nat /\ i \in 1 .. Len(topic)
    BY <1>1, <2>1, BatchRows DEF LeftToWrite
  <2>3. /\ DOMAIN dead' = DOMAIN dead \cup {Len(dead) + 1}
        /\ dead'[Len(dead) + 1] = i
        /\ \A n \in DOMAIN dead : dead'[n] = dead[n]
    BY <1>2, <2>1, <2>2, Appended
  <2>4. \A j : Written(j) \/ j = i => Written(j)'
    BY <2>3 DEF Written
  <2>5. ASSUME NEW j \in CorruptRows(dlq), j <= i PROVE Written(j)'
    <3>1. j \in Nat /\ cursor # Idle
      BY <1>1, <1>5, BatchRows DEF WriteDeadLetter
    <3>2. CASE j <= cursor
      BY <2>4, <2>5, <3>1, <3>2 DEF DeadLetters
    <3>3. CASE ~(j <= cursor)
      <4>1. j \in LeftToWrite
        BY <1>2, <2>5, <3>1, <3>3 DEF LeftToWrite
      <4> QED
        BY <2>1, <2>2, <2>4, <2>5, <3>1, <4>1
    <3> QED
      BY <3>2, <3>3
  <2>6. dlq' = dlq /\ CorruptRows(dlq)' = CorruptRows(dlq)
    BY <1>2, <1>5 DEF WriteDeadLetter, CorruptRows, Corrupt
  <2>7. i \in DOMAIN topic /\ Corrupt(i)
    BY <2>2 DEF StreamTypes, StreamTypeOK, CorruptRows
  <2>8. \A n \in DOMAIN dead' : dead'[n] \in DOMAIN topic /\ Corrupt(dead'[n])
    BY <2>3, <2>7 DEF DeadLetters, DeadLettersComplete
  <2>9. \A j \in (dlq.start + 1) .. dlq.done : j > gone /\ Corrupt(j) => Written(j)'
    BY <2>4 DEF DeadLetters, DeadLettersComplete, Written
  <2> QED
    BY <1>2, <2>1, <2>5, <2>6, <2>8, <2>9
    DEF DeadLetters, DeadLettersComplete, Corrupt, Written
<1>6. CASE CommitDlq
  <2>1. /\ dlq'.start = dlq.start /\ dlq'.done = dlq.planned /\ dead' = dead
        /\ cursor' = Idle /\ cursor # Idle /\ LeftToWrite = {}
    BY <1>1, <1>2, <1>6, CheckpointOps DEF CommitDlq
  <2>2. ASSUME NEW i \in (dlq.start + 1) .. dlq.planned, i > gone, Corrupt(i)
        PROVE  Written(i)
    <3>1. CASE i \in (dlq.start + 1) .. dlq.done
      BY <2>2, <3>1 DEF DeadLetters, DeadLettersComplete, Written
    <3>2. CASE i \notin (dlq.start + 1) .. dlq.done
      <4>1. i \in CorruptRows(dlq) /\ i \in Int
        BY <1>3, <2>2, <3>2 DEF CorruptRows
      <4>2. i <= cursor
        BY <1>2, <2>1, <4>1 DEF LeftToWrite
      <4> QED
        BY <2>1, <4>1, <4>2 DEF DeadLetters
    <3> QED
      BY <3>1, <3>2
  <2> QED
    BY <1>2, <2>1, <2>2 DEF DeadLetters, DeadLettersComplete, Written, Corrupt
<1> QED
  BY <1>4, <1>5, <1>6 DEF DlqStep

LEMMA NextDeadLetters == StreamTypes /\ DeadLetters /\ [Next]_vars => DeadLetters'
<1> SUFFICES ASSUME StreamTypes, DeadLetters, [Next]_vars PROVE DeadLetters'
  OBVIOUS
<1>1. CASE ProducerStep \/ Foreign
  <2>1. gone \in Nat /\ gone <= gone /\ UNCHANGED <<gone, dlqVars>>
    BY <1>1, EventsArrive DEF StreamTypes, StreamTypeOK
  <2> QED
    BY <1>1, <2>1, EventsArrive, DlqTopic, DlqAlone DEF dlqVars
<1>2. CASE SubscribeDlq
  <2>1. cursor = Idle /\ dlq' = Latest /\ Len(topic) \in Nat
    BY <1>2 DEF SubscribeDlq, StreamTypes, AtWork, StreamTypeOK
  <2>2. (dlq'.start + 1) .. dlq'.done = {}
    BY <2>1 DEF Latest
  <2> QED
    BY <1>2, <2>1, <2>2 DEF SubscribeDlq, DeadLetters, DeadLettersComplete, Corrupt, topicVars
<1>3. CASE Die
  <2>1. UNCHANGED <<topic, gone, dead, dlq>> /\ cursor' = Idle /\ gone \in Nat
    BY <1>3 DEF Die, StreamTypes, StreamTypeOK, topicVars
  <2> QED
    BY <2>1, DlqAlone
<1>4. CASE HostLost
  <2>1. (dlq'.start + 1) .. dlq'.done = {}
    BY <1>4 DEF HostLost, NoCheckpoint
  <2> QED
    BY <1>4, <2>1 DEF HostLost, DeadLetters, DeadLettersComplete, Corrupt, topicVars
<1>5. CASE MainStep \/ StartMainQuery \/ StartDlqQuery \/ SubscribeMain \/ UNCHANGED vars
  <2>1. UNCHANGED <<topic, gone, dlqVars>> /\ gone \in Nat
    BY <1>5 DEF MainStep, BeginBatch, PushDrift, PublishScore, ScoreNothing, PushDegradation,
       CommitBatch, StartMainQuery, StartDlqQuery, SubscribeMain, vars, topicVars,
       StreamTypes, StreamTypeOK
  <2> QED
    BY <2>1, DlqAlone DEF dlqVars
<1>6. CASE Expire
  <2>1. /\ UNCHANGED <<topic, dlqVars>> /\ gone \in Nat
        /\ gone' \in (gone + 1) .. Len(topic) /\ Len(topic) \in Nat
    BY <1>6 DEF Expire, StreamTypes, StreamTypeOK
  <2>2. gone' \in Nat /\ gone <= gone'
    BY <2>1
  <2> QED
    BY <2>1, <2>2, DlqAlone DEF dlqVars
<1> QED
  BY <1>1, <1>2, <1>3, <1>4, <1>5, <1>6, DlqDeadLetters DEF Next, World, ProcessStep

(* Whatever kills the process and however often, a corrupt record that the  *)
(* dead-letter query has passed is in the dead-letter topic or was deleted  *)
(* from the raw one, and no other record ever is.                           *)
THEOREM NoInvalidEventLost == Spec => []DeadLettersComplete
<1>1. Init => StreamTypes /\ DeadLetters
  BY InitTypes, InitDeadLetters
<1>2. StreamTypes /\ DeadLetters /\ [Next]_vars => (StreamTypes /\ DeadLetters)'
  BY NextTypes, NextDeadLetters
<1> QED
  BY <1>1, <1>2, PTL DEF Spec, DeadLetters

-----------------------------------------------------------------------------
(* The main query.                                                          *)

(* The property, and what each stage of a batch that is not committed has   *)
(* done: its drift is pushed once it is scored, the last record of the      *)
(* cache is its own while its degradation waits to be pushed, and nothing   *)
(* is missing when it is about to be committed.                             *)
Batches ==
    /\ CommittedBatchAlerted
    /\ stage \in {"score", "alert", "commit"} =>
          \A i \in ValidRows(main) : Pushed("schema_drift", i)
    /\ stage = "alert" =>
          cached # <<>> /\ cached[Len(cached)] = ScoreRecord(score) /\ Degraded(score)
    /\ stage = "commit" => \A i \in ValidRows(main) : ScoreFollowedUp(i)

LEMMA InitBatches == Init => Batches
<1> SUFFICES ASSUME Init PROVE Batches
  OBVIOUS
<1>1. (main.start + 1) .. main.done = {} /\ stage = "idle"
  BY DEF Init, NoCheckpoint
<1> QED
  BY <1>1 DEF Batches, CommittedBatchAlerted

(* The steps that touch neither the query, its events nor Redis.            *)
LEMMA MainAlone ==
    ASSUME StreamTypes, Batches, UNCHANGED <<topic, main, alerts, cached, score>>,
           stage' = stage, gone' \in Nat, gone <= gone'
    PROVE  Batches'
<1>1. gone \in Nat
  BY DEF StreamTypes, StreamTypeOK
<1>2. \A i \in Int : i > gone' => i > gone
  BY <1>1
<1>3. \A c : \A i \in (c.start + 1) .. c.done : i \in Int
  OBVIOUS
<1>4. ValidRows(main)' \subseteq ValidRows(main)
  BY <1>2 DEF ValidRows, Corrupt
<1>5. /\ \A i : ScoreFollowedUp(i)' <=> ScoreFollowedUp(i)
      /\ \A i : Pushed("schema_drift", i)' <=> Pushed("schema_drift", i)
      /\ ScoreRecord(score)' = ScoreRecord(score)
  BY DEF ScoreFollowedUp, Pushed, ScoreRecord
<1> QED
  BY <1>2, <1>3, <1>4, <1>5 DEF Batches, CommittedBatchAlerted, Corrupt

(* A query that forgets the batch under way, or begins anew.                *)
LEMMA MainStopped ==
    ASSUME Batches, UNCHANGED <<topic, gone, alerts, cached>>, stage' = "idle",
           main' = main \/ (main'.start + 1) .. main'.done = {}
    PROVE  Batches'
BY DEF Batches, CommittedBatchAlerted, ScoreFollowedUp, Pushed, Corrupt

LEMMA MainTopic ==
    ASSUME StreamTypes, Batches, NEW e \in EventType, topic' = Append(topic, e),
           UNCHANGED <<gone, mainVars>>
    PROVE  Batches'
<1>1. StreamTypeOK /\ Len(topic) \in Nat
  BY DEF StreamTypes, StreamTypeOK
<1>2. \A i \in 1 .. Len(topic) : Corrupt(i)' <=> Corrupt(i)
  BY <1>1, TopicGrows
<1>3. /\ \A i : ScoreFollowedUp(i)' <=> ScoreFollowedUp(i)
      /\ \A i : Pushed("schema_drift", i)' <=> Pushed("schema_drift", i)
      /\ ScoreRecord(score)' = ScoreRecord(score)
  BY DEF ScoreFollowedUp, Pushed, ScoreRecord, mainVars
<1>4. CASE Subscribed(main)
  <2>1. Sound(main)
    BY <1>1, <1>4, SoundCheckpoints
  <2>2. (main.start + 1) .. main.done \subseteq 1 .. Len(topic)
    BY <1>1, <2>1 DEF Sound
  <2>3. ValidRows(main)' = ValidRows(main)
    BY <1>1, <1>4, TopicGrows DEF mainVars
  <2> QED
    BY <1>2, <1>3, <2>2, <2>3 DEF Batches, CommittedBatchAlerted, mainVars
<1>5. CASE ~Subscribed(main)
  <2>1. main = NoCheckpoint /\ stage = "idle"
    BY <1>1, <1>5 DEF StreamTypes, StreamTypeOK, AtWork, Checkpoints, Subscribed
  <2>2. (main.start + 1) .. main.done = {}
    BY <2>1 DEF NoCheckpoint
  <2> QED
    BY <2>1, <2>2 DEF Batches, CommittedBatchAlerted, mainVars
<1> QED
  BY <1>4, <1>5

(* An alert or a score record is appended; what was there stays.            *)
LEMMA AlertAdded ==
    ASSUME StreamTypes, NEW a \in AlertType, alerts' = Append(alerts, a), cached' = cached
    PROVE  /\ Len(alerts) + 1 \in DOMAIN alerts' /\ alerts'[Len(alerts) + 1] = a
           /\ \A n \in DOMAIN alerts : n \in DOMAIN alerts' /\ alerts'[n] = alerts[n]
           /\ \A i : Pushed("schema_drift", i) => Pushed("schema_drift", i)'
           /\ \A i : ScoreFollowedUp(i) => ScoreFollowedUp(i)'
<1>1. alerts \in Seq(AlertType)
  BY DEF StreamTypes, StreamTypeOK
<1>2. /\ Len(alerts) + 1 \in DOMAIN alerts' /\ alerts'[Len(alerts) + 1] = a
      /\ \A n \in DOMAIN alerts : n \in DOMAIN alerts' /\ alerts'[n] = alerts[n]
  BY <1>1, Appended
<1>3. \A i : Pushed("schema_drift", i) => Pushed("schema_drift", i)'
  BY <1>2 DEF Pushed
<1>4. ASSUME NEW i, ScoreFollowedUp(i) PROVE ScoreFollowedUp(i)'
  <2>1. PICK n \in DOMAIN cached :
           /\ Covers(cached[n], i)
           /\ \A m \in DOMAIN cached : Covers(cached[m], i) => m <= n
           /\ Degraded(cached[n].overall) =>
                 \E k \in DOMAIN alerts :
                    /\ alerts[k].type = "dq_score_degradation"
                    /\ Covers(alerts[k], i)
                    /\ alerts[k].dq_score = cached[n].overall
    BY <1>4 DEF ScoreFollowedUp
  <2>2. Degraded(cached[n].overall) =>
           \E k \in DOMAIN alerts' :
              /\ alerts'[k].type = "dq_score_degradation"
              /\ Covers(alerts'[k], i)
              /\ alerts'[k].dq_score = cached[n].overall
    BY <1>2, <2>1
  <2> QED
    BY <2>1, <2>2 DEF ScoreFollowedUp
<1> QED
  BY <1>2, <1>3, <1>4

LEMMA CoveredByBatch ==
    ASSUME Sound(main), NEW i \in ValidRows(main), NEW r,
           r.from = main.done, r.upto = main.planned
    PROVE  Covers(r, i)
BY BatchRows DEF Covers

LEMMA PublishKeeps ==
    ASSUME StreamTypes, Sound(main), PublishScore
    PROVE  /\ cached' # <<>> /\ cached'[Len(cached')] = ScoreRecord(score)'
           /\ \A i \in (main.start + 1) .. main.done : ScoreFollowedUp(i) => ScoreFollowedUp(i)'
           /\ ~Degraded(score)' => \A i \in ValidRows(main) : ScoreFollowedUp(i)'
<1>1. cached \in Seq([from : Int, upto : Int, overall : Int]) /\ alerts' = alerts
  BY DEF StreamTypes, StreamTypeOK, PublishScore
<1>2. score' \in Int
  BY MainTypes DEF MainStep, StreamTypes, StreamTypeOK
<1>3. ScoreRecord(score') \in [from : Int, upto : Int, overall : Int]
  BY <1>2 DEF ScoreRecord, Sound
<1>4. ScoreRecord(score)' = ScoreRecord(score')
  BY DEF PublishScore, ScoreRecord
<1> DEFINE last == Len(cached) + 1
<1>5. /\ DOMAIN cached' = DOMAIN cached \cup {last} /\ Len(cached') = last
      /\ cached'[last] = ScoreRecord(score')
      /\ \A n \in DOMAIN cached : cached'[n] = cached[n] /\ n < last /\ n \in Nat
  <2>1. cached' = Append(cached, ScoreRecord(score'))
    BY DEF PublishScore
  <2> QED
    BY <1>1, <1>3, <2>1, Appended
<1>6. last \in Nat
  BY <1>1
<1> HIDE DEF last
<1>7. ASSUME NEW i \in (main.start + 1) .. main.done, ScoreFollowedUp(i)
      PROVE  ScoreFollowedUp(i)'
  <2> DEFINE record == ScoreRecord(score')
  <2>1. ~Covers(record, i)
    <3>1. i \in Int /\ i <= main.done
      BY <1>7 DEF Sound
    <3>2. record.from = main.done
      BY DEF ScoreRecord
    <3> HIDE DEF record
    <3> QED
      BY <3>1, <3>2 DEF Covers, Sound
  <2>2. PICK n \in DOMAIN cached :
           /\ Covers(cached[n], i)
           /\ \A m \in DOMAIN cached : Covers(cached[m], i) => m <= n
           /\ Degraded(cached[n].overall) =>
                 \E k \in DOMAIN alerts :
                    /\ alerts[k].type = "dq_score_degradation"
                    /\ Covers(alerts[k], i)
                    /\ alerts[k].dq_score = cached[n].overall
    BY <1>7 DEF ScoreFollowedUp
  <2>3. n \in DOMAIN cached' /\ cached'[n] = cached[n]
    BY <1>5
  <2>4. \A m \in DOMAIN cached' : Covers(cached'[m], i) => m <= n
    BY <1>5, <2>1, <2>2
  <2> QED
    BY <1>1, <2>2, <2>3, <2>4 DEF ScoreFollowedUp
<1>8. ASSUME ~Degraded(score)', NEW i \in ValidRows(main) PROVE ScoreFollowedUp(i)'
  <2>1. Covers(cached'[last], i)
    BY <1>5, CoveredByBatch DEF ScoreRecord
  <2>2. ~Degraded(cached'[last].overall)
    BY <1>5, <1>8 DEF ScoreRecord, Degraded
  <2>3. \A m \in DOMAIN cached' : m <= last
    BY <1>5, <1>6
  <2> QED
    BY <1>5, <2>1, <2>2, <2>3 DEF ScoreFollowedUp
<1> QED
  BY <1>4, <1>5, <1>6, <1>7, <1>8

LEMMA MainBatches ==
    ASSUME StreamTypes, Batches, MainStep
    PROVE  Batches'
<1>1. Subscribed(main) /\ Sound(main)
  BY SoundCheckpoints DEF StreamTypes, AtWork, MainStep, BeginBatch, PushDrift, PublishScore,
     ScoreNothing, PushDegradation, CommitBatch
<1>2. topic' = topic /\ gone' = gone /\ Len(topic) \in Nat
  BY DEF StreamTypes, StreamTypeOK, MainStep, BeginBatch, PushDrift, PublishScore,
     ScoreNothing, PushDegradation, CommitBatch, topicVars
<1>3. main.start \in Nat /\ main.done \in Nat /\ main.planned \in Nat
  BY <1>1 DEF Sound
<1>4. stage # "idle" => DriftAlert \in AlertType /\ DegradationAlert \in AlertType
  BY AlertTypes
<1>5. CASE BeginBatch
  <2>1. /\ main'.start = main.start /\ main'.done = main.done
        /\ stage' \in {"drift", "commit"}
        /\ stage' = "commit" => ValidRows(main)' = {}
        /\ UNCHANGED <<alerts, cached>>
    BY <1>1, <1>2, <1>5, CheckpointOps DEF BeginBatch, ValidRows, Corrupt
  <2> QED
    BY <1>2, <2>1 DEF Batches, CommittedBatchAlerted, Pushed, ScoreFollowedUp, Corrupt
<1>6. CASE PushDrift
  <2>1. /\ alerts' = Append(alerts, DriftAlert) /\ stage' = "score" /\ stage # "idle"
        /\ UNCHANGED <<main, cached>>
    BY <1>6 DEF PushDrift
  <2>2. \A i \in ValidRows(main) : Pushed("schema_drift", i)'
    <3>1. Len(alerts) + 1 \in DOMAIN alerts' /\ alerts'[Len(alerts) + 1] = DriftAlert
      BY <1>4, <2>1, AlertAdded
    <3>2. \A i \in ValidRows(main) : Covers(DriftAlert, i)
      BY <1>1, CoveredByBatch DEF DriftAlert
    <3>3. DriftAlert.type = "schema_drift"
      BY DEF DriftAlert
    <3> QED
      BY <3>1, <3>2, <3>3 DEF Pushed
  <2>3. ValidRows(main)' = ValidRows(main)
    BY <1>2, <2>1 DEF ValidRows, Corrupt
  <2> QED
    BY <1>2, <1>4, <2>1, <2>2, <2>3, AlertAdded DEF Batches, CommittedBatchAlerted, Corrupt
<1>7. CASE PublishScore
  <2>1. /\ stage = "score" /\ UNCHANGED <<main, alerts>>
        /\ stage' = IF Degraded(score') THEN "alert" ELSE "commit"
    BY <1>7 DEF PublishScore
  <2>2. ValidRows(main)' = ValidRows(main)
    BY <1>2, <2>1 DEF ValidRows, Corrupt
  <2>3. \A i : Pushed("schema_drift", i)' <=> Pushed("schema_drift", i)
    BY <2>1 DEF Pushed
  <2>4. Degraded(score)' <=> Degraded(score')
    BY DEF Degraded
  <2> QED
    BY <1>1, <1>2, <1>7, <2>1, <2>2, <2>3, <2>4, PublishKeeps
    DEF Batches, CommittedBatchAlerted, Corrupt
<1>8. CASE PushDegradation
  <2>1. /\ alerts' = Append(alerts, DegradationAlert) /\ stage' = "commit" /\ stage = "alert"
        /\ UNCHANGED <<main, cached>>
    BY <1>8 DEF PushDegradation
  <2>2. ASSUME NEW i \in ValidRows(main) PROVE ScoreFollowedUp(i)'
    <3>1. /\ Len(alerts) + 1 \in DOMAIN alerts'
          /\ alerts'[Len(alerts) + 1] = DegradationAlert
      BY <1>4, <2>1, AlertAdded
    <3>2. Covers(DegradationAlert, i) /\ Covers(ScoreRecord(score), i)
      BY <1>1, CoveredByBatch DEF DegradationAlert, ScoreRecord
    <3>3. /\ DegradationAlert.type = "dq_score_degradation"
          /\ DegradationAlert.dq_score = ScoreRecord(score).overall
      BY DEF DegradationAlert, ScoreRecord
    <3>4. cached # <<>> /\ cached[Len(cached)] = ScoreRecord(score)
          /\ cached \in Seq([from : Int, upto : Int, overall : Int])
      BY <2>1 DEF Batches, StreamTypes, StreamTypeOK
    <3>5. Len(cached) \in DOMAIN cached /\ \A m \in DOMAIN cached : m <= Len(cached)
      BY <3>4
    <3> QED
      BY <2>1, <3>1, <3>2, <3>3, <3>4, <3>5 DEF ScoreFollowedUp
  <2>3. ValidRows(main)' = ValidRows(main)
    BY <1>2, <2>1 DEF ValidRows, Corrupt
  <2> QED
    BY <1>2, <1>4, <2>1, <2>2, <2>3, AlertAdded DEF Batches, CommittedBatchAlerted, Corrupt
<1>9. CASE CommitBatch
  <2>1. /\ stage = "commit" /\ stage' = "idle" /\ UNCHANGED <<alerts, cached>>
        /\ main'.start = main.start /\ main'.done = main.planned
    BY <1>1, <1>2, <1>9, CheckpointOps DEF CommitBatch
  <2>2. ASSUME NEW i \in (main.start + 1) .. main.planned, i > gone, ~Corrupt(i)
        PROVE  Pushed("schema_drift", i) /\ ScoreFollowedUp(i)
    <3>1. CASE i \in (main.start + 1) .. main.done
      BY <2>2, <3>1 DEF Batches, CommittedBatchAlerted
    <3>2. CASE i \notin (main.start + 1) .. main.done
      <4>1. i \in ValidRows(main)
        BY <1>3, <2>2, <3>2 DEF ValidRows
      <4> QED
        BY <2>1, <4>1 DEF Batches
    <3> QED
      BY <3>1, <3>2
  <2> QED
    BY <1>2, <2>1, <2>2 DEF Batches, CommittedBatchAlerted, Pushed, ScoreFollowedUp, Corrupt
<1>10. CASE ScoreNothing
  <2>1. /\ stage' = "commit" /\ UNCHANGED <<main, alerts, cached>> /\ ValidRows(main)' = {}
    BY <1>2, <1>10 DEF ScoreNothing, ValidRows, Corrupt
  <2> QED
    BY <1>2, <2>1 DEF Batches, CommittedBatchAlerted, Pushed, ScoreFollowedUp, Corrupt
<1> QED
  BY <1>5, <1>6, <1>7, <1>8, <1>9, <1>10 DEF MainStep

LEMMA NextBatches == StreamTypes /\ Batches /\ [Next]_vars => Batches'
<1> SUFFICES ASSUME StreamTypes, Batches, [Next]_vars PROVE Batches'
  OBVIOUS
<1>1. CASE ProducerStep \/ Foreign
  <2>1. gone \in Nat /\ gone <= gone /\ UNCHANGED <<gone, mainVars>>
    BY <1>1, EventsArrive DEF StreamTypes, StreamTypeOK
  <2> QED
    BY <1>1, <2>1, EventsArrive, MainTopic, MainAlone DEF mainVars
<1>2. CASE SubscribeMain
  <2>1. stage = "idle" /\ main' = Latest /\ Len(topic) \in Nat
    BY <1>2 DEF SubscribeMain, StreamTypes, AtWork, StreamTypeOK
  <2>2. (main'.start + 1) .. main'.done = {}
    BY <2>1 DEF Latest
  <2> QED
    BY <1>2, <2>1, <2>2, MainStopped DEF SubscribeMain, topicVars
<1>3. CASE Die
  BY <1>3, MainStopped DEF Die, topicVars
<1>4. CASE HostLost
  <2>1. (main'.start + 1) .. main'.done = {}
    BY <1>4 DEF HostLost, NoCheckpoint
  <2> QED
    BY <1>4, <2>1, MainStopped DEF HostLost, topicVars
<1>5. CASE DlqStep \/ StartMainQuery \/ StartDlqQuery \/ SubscribeDlq \/ UNCHANGED vars
  <2>1. UNCHANGED <<topic, gone, mainVars>> /\ gone \in Nat /\ gone <= gone
    BY <1>5 DEF DlqStep, BeginDlq, WriteDeadLetter, CommitDlq, StartMainQuery, StartDlqQuery,
       SubscribeDlq, vars, topicVars, StreamTypes, StreamTypeOK
  <2> QED
    BY <2>1, MainAlone DEF mainVars
<1>6. CASE Expire
  <2>1. /\ UNCHANGED <<topic, mainVars>> /\ gone \in Nat
        /\ gone' \in (gone + 1) .. Len(topic) /\ Len(topic) \in Nat
    BY <1>6 DEF Expire, StreamTypes, StreamTypeOK
  <2>2. gone' \in Nat /\ gone <= gone'
    BY <2>1
  <2> QED
    BY <2>1, <2>2, MainAlone DEF mainVars
<1> QED
  BY <1>1, <1>2, <1>3, <1>4, <1>5, <1>6, MainBatches DEF Next, World, ProcessStep

(* However often the process dies and whatever is replayed, no batch is     *)
(* committed whose drift alert, score or degradation alert is missing, for  *)
(* an event that Kafka still has.                                           *)
THEOREM CommitsAreAlerted == Spec => []CommittedBatchAlerted
<1>1. Init => StreamTypes /\ Batches
  BY InitTypes, InitBatches
<1>2. StreamTypes /\ Batches /\ [Next]_vars => (StreamTypes /\ Batches)'
  BY NextTypes, NextBatches
<1> QED
  BY <1>1, <1>2, PTL DEF Spec, Batches

-----------------------------------------------------------------------------
(* The producer.                                                            *)

(* That what leaves the queue is not in it any more, and that the next one  *)
(* to be sent is not in the topic, needs that no event is twice in it.      *)
Accounts ==
    /\ ProducedAccounted
    /\ \A n, m \in DOMAIN queue : queue[n].id = queue[m].id => n = m

LEMMA InitAccounts == Init => Accounts
<1> SUFFICES ASSUME Init PROVE Accounts
  OBVIOUS
<1>1. DOMAIN queue = {} /\ DOMAIN topic = {} /\ failed = {}
  BY DEF Init
<1>2. Ids(queue) = {} /\ Ids(topic) = {} /\ 1 .. made = {}
  BY <1>1 DEF Init, Ids
<1> QED
  BY <1>1, <1>2 DEF Accounts, ProducedAccounted

(* The head leaves the queue: the others move up.                           *)
LEMMA Taken ==
    ASSUME NEW s \in Seq(EventType), s # <<>>
    PROVE  /\ Head(s) = s[1] /\ 1 \in DOMAIN s
           /\ \A i \in DOMAIN Tail(s) : /\ Tail(s)[i] = s[i + 1]
                                        /\ i + 1 \in DOMAIN s /\ i \in Nat /\ i # 0
           /\ \A i \in DOMAIN s : i = 1 \/ (i \in Nat /\ i - 1 \in DOMAIN Tail(s))
OBVIOUS

LEMMA IdsTaken ==
    ASSUME NEW s \in Seq(EventType), s # <<>>
    PROVE  Ids(s) = {Head(s).id} \cup Ids(Tail(s))
<1>1. Ids(s) \subseteq {Head(s).id} \cup Ids(Tail(s))
  <2> SUFFICES ASSUME NEW i \in DOMAIN s, i # 1
               PROVE  s[i].id \in Ids(Tail(s))
    BY Taken DEF Ids
  <2>1. i - 1 \in DOMAIN Tail(s) /\ i \in Nat
    BY Taken
  <2>2. Tail(s)[i - 1] = s[(i - 1) + 1] /\ (i - 1) + 1 = i
    BY <2>1, Taken
  <2> QED
    BY <2>1, <2>2 DEF Ids
<1>2. {Head(s).id} \cup Ids(Tail(s)) \subseteq Ids(s)
  BY Taken DEF Ids
<1> QED
  BY <1>1, <1>2

(* An event new to the topic and not in the queue comes last in the topic.  *)
LEMMA TopicAccounts ==
    ASSUME StreamTypes, Accounts, NEW e \in EventType, topic' = Append(topic, e),
           e.id \notin Ids(topic)
    PROVE  /\ Ids(topic)' = Ids(topic) \cup {e.id}
           /\ \A i, j \in DOMAIN topic' : topic'[i].id = topic'[j].id => i = j
<1>1. topic \in Seq(EventType)
  BY DEF StreamTypes, StreamTypeOK
<1>2. /\ DOMAIN topic' = DOMAIN topic \cup {Len(topic) + 1} /\ topic'[Len(topic) + 1] = e
      /\ \A n \in DOMAIN topic : topic'[n] = topic[n]
  BY <1>1, Appended
<1>3. Ids(topic)' = Ids(topic) \cup {e.id}
  BY <1>2 DEF Ids
<1>4. \A n \in DOMAIN topic : topic[n].id \in Ids(topic)
  BY DEF Ids
<1> QED
  BY <1>2, <1>3, <1>4 DEF Accounts, ProducedAccounted

LEMMA NextAccounts == StreamTypes /\ Accounts /\ [Next]_vars => Accounts'
<1> SUFFICES ASSUME StreamTypes, Accounts, [Next]_vars PROVE Accounts'
  OBVIOUS
<1> DEFINE lost == {e.id : e \in failed}
<1>1. /\ queue \in Seq(EventType) /\ topic \in Seq(EventType) /\ made \in Nat
      /\ Len(queue) \in Nat /\ sent \in 0 .. Len(queue) /\ failed \subseteq EventType
      /\ DOMAIN queue = 1 .. Len(queue)
  BY DEF StreamTypes, StreamTypeOK
<1>2. /\ Ids(queue) \cup lost \cup Ids(topic) = 1 .. made
      /\ \A i, j \in DOMAIN topic : topic[i].id = topic[j].id => i = j
      /\ \A n \in DOMAIN queue : queue[n].id \in Ids(topic) <=> n <= sent
      /\ \A e \in failed : e.id \notin Ids(queue)
      /\ \A n, m \in DOMAIN queue : queue[n].id = queue[m].id => n = m
  BY DEF Accounts, ProducedAccounted
<1>3. made + 1 \notin 1 .. made /\ 1 .. (made + 1) = 1 .. made \cup {made + 1}
  BY <1>1
<1>4. /\ queue' = queue => Ids(queue)' = Ids(queue)
      /\ topic' = topic => Ids(topic)' = Ids(topic)
  BY DEF Ids
<1>5. \A n \in DOMAIN queue : queue[n].id \in Ids(queue) /\ queue[n] \in EventType
  BY <1>1, ListOps DEF Ids
<1>6. CASE \E kind \in Kinds \cap SimulatorKinds : Produce(kind)
  <2>1. PICK kind \in Kinds \cap SimulatorKinds : Produce(kind)
    BY <1>6
  <2> DEFINE e == Event(made + 1, made + 1, kind)
  <2>2. e \in EventType /\ e.id = made + 1
    BY <1>1 DEF Event, EventType, EventKinds
  <2>3. /\ queue' = Append(queue, e) /\ made' = made + 1
        /\ UNCHANGED <<sent, failed, topic>>
    BY <2>1 DEF Produce, topicVars
  <2> HIDE DEF e
  <2>4. /\ DOMAIN queue' = DOMAIN queue \cup {Len(queue) + 1} /\ queue'[Len(queue) + 1] = e
        /\ \A n \in DOMAIN queue : queue'[n] = queue[n] /\ n \in Nat /\ n < Len(queue) + 1
    BY <1>1, <2>2, <2>3, Appended
  <2>5. Ids(queue)' = Ids(queue) \cup {made + 1}
    BY <2>2, <2>4 DEF Ids
  <2>6. \A n, m \in DOMAIN queue' : queue'[n].id = queue'[m].id => n = m
    BY <1>2, <1>3, <1>5, <2>2, <2>4
  <2>7. Ids(queue)' \cup {x.id : x \in failed'} \cup Ids(topic)' = 1 .. made'
    BY <1>2, <1>3, <1>4, <2>3, <2>4, <2>5
  <2>8. \A n \in DOMAIN queue' : queue'[n].id \in Ids(topic)' <=> n <= sent'
    <3>1. made + 1 \notin Ids(topic)
      BY <1>2, <1>3
    <3>2. ~(Len(queue) + 1 <= sent)
      BY <1>1
    <3> QED
      BY <1>2, <1>4, <2>2, <2>3, <2>4, <3>1, <3>2
  <2>9. \A x \in failed' : x.id \notin Ids(queue)'
    <3>1. \A x \in failed : x.id # made + 1
      BY <1>2, <1>3
    <3> QED
      BY <1>2, <2>3, <2>4, <2>5, <3>1
  <2> QED
    BY <1>2, <2>3, <2>6, <2>7, <2>8, <2>9 DEF Accounts, ProducedAccounted
<1>7. CASE Persist
  <2> DEFINE e == queue[sent + 1]
  <2>1. /\ topic' = Append(topic, e) /\ sent' = sent + 1 /\ sent + 1 \in DOMAIN queue
        /\ UNCHANGED <<made, queue, failed>>
    BY <1>1, <1>7 DEF Persist
  <2>2. e \in EventType /\ e.id \notin Ids(topic) /\ e.id \in Ids(queue)
    BY <1>1, <1>2, <1>5, <2>1
  <2> HIDE DEF e
  <2>3. /\ Ids(topic)' = Ids(topic) \cup {e.id}
        /\ \A i, j \in DOMAIN topic' : topic'[i].id = topic'[j].id => i = j
    BY <2>1, <2>2, TopicAccounts
  <2>4. Ids(queue)' \cup {x.id : x \in failed'} \cup Ids(topic)' = 1 .. made'
    BY <1>2, <1>4, <2>1, <2>2, <2>3
  <2>5. ASSUME NEW n \in DOMAIN queue
        PROVE  queue[n].id \in Ids(topic)' <=> n <= sent + 1
    <3>1. queue[n].id = e.id <=> n = sent + 1
      BY <1>2, <2>1 DEF e
    <3>2. n \in Nat /\ sent \in Nat
      BY <1>1
    <3> QED
      BY <1>2, <2>3, <3>1, <3>2
  <2> QED
    BY <1>2, <1>4, <2>1, <2>3, <2>4, <2>5 DEF Accounts, ProducedAccounted
<1>8. CASE Acknowledge \/ DeliveryFails
  <2>1. /\ queue # <<>> /\ queue' = Tail(queue)
        /\ sent' = IF sent > 0 THEN sent - 1 ELSE 0
        /\ UNCHANGED <<made, topic>>
    <3>1. sent > 0 => queue # <<>>
      BY <1>1
    <3> QED
      BY <1>8, <3>1 DEF Acknowledge, DeliveryFails, topicVars
  <2> DEFINE h == Head(queue)
  <2>2. h = queue[1] /\ 1 \in DOMAIN queue
    BY <1>1, <2>1, Taken
  <2>3. Ids(queue) = {h.id} \cup Ids(queue)'
    <3>1. Ids(queue)' = Ids(Tail(queue))
      BY <2>1 DEF Ids
    <3> QED
      BY <1>1, <2>1, <3>1, IdsTaken
  <2>4. \A n \in DOMAIN queue' : /\ queue'[n] = queue[n + 1] /\ n + 1 \in DOMAIN queue
                                 /\ n \in Nat /\ n # 0
    BY <1>1, <2>1, Taken
  <2>5. \A n, m \in DOMAIN queue' : queue'[n].id = queue'[m].id => n = m
    BY <1>2, <2>4
  <2>6. \A n \in DOMAIN queue' : queue'[n].id # h.id
    BY <1>2, <2>2, <2>4
  <2>7. h.id \notin Ids(queue)'
    BY <2>6 DEF Ids
  <2>8. \A n \in DOMAIN queue' : queue'[n].id \in Ids(topic)' <=> n <= sent'
    <3> SUFFICES ASSUME NEW n \in DOMAIN queue'
                 PROVE  queue'[n].id \in Ids(topic)' <=> n <= sent'
      OBVIOUS
    <3>1. queue'[n].id \in Ids(topic) <=> n + 1 <= sent
      BY <1>2, <2>4
    <3>2. n \in Nat /\ n # 0 /\ sent \in Nat
      BY <1>1, <2>4
    <3>3. n + 1 <= sent <=> n <= sent'
      BY <2>1, <3>2
    <3> QED
      BY <1>4, <2>1, <3>1, <3>3
  <2> HIDE DEF h
  <2>9. CASE Acknowledge
    <3>1. failed' = failed /\ sent > 0
      BY <2>9 DEF Acknowledge
    <3>2. h.id \in Ids(topic)
      <4>1. 1 <= sent
        BY <1>1, <3>1
      <4> QED
        BY <1>2, <2>2, <4>1
    <3>3. Ids(queue)' \cup {x.id : x \in failed'} \cup Ids(topic)' = 1 .. made'
      BY <1>2, <1>4, <2>1, <2>3, <3>1, <3>2
    <3> QED
      BY <1>2, <2>1, <2>3, <2>5, <2>8, <3>1, <3>3 DEF Accounts, ProducedAccounted
  <2>10. CASE DeliveryFails
    <3>1. failed' = failed \cup {h}
      BY <2>10 DEF DeliveryFails, h
    <3>2. {x.id : x \in failed'} = lost \cup {h.id}
      BY <3>1
    <3>3. Ids(queue)' \cup {x.id : x \in failed'} \cup Ids(topic)' = 1 .. made'
      BY <1>2, <1>4, <2>1, <2>3, <3>2
    <3>4. \A x \in failed' : x.id \notin Ids(queue)'
      BY <1>2, <2>3, <2>7, <3>1
    <3> QED
      BY <1>2, <2>1, <2>5, <2>8, <3>3, <3>4 DEF Accounts, ProducedAccounted
  <2> QED
    BY <1>8, <2>9, <2>10
<1>9. CASE GiveUpFlush
  <2>1. /\ failed' = failed \cup {queue[n] : n \in DOMAIN queue} /\ queue' = <<>>
        /\ UNCHANGED <<made, topic>>
    BY <1>9 DEF GiveUpFlush, topicVars
  <2>2. {x.id : x \in failed'} = lost \cup Ids(queue)
    BY <2>1 DEF Ids
  <2>3. DOMAIN queue' = {} /\ Ids(queue)' = {}
    BY <2>1 DEF Ids
  <2>4. Ids(queue)' \cup {x.id : x \in failed'} \cup Ids(topic)' = 1 .. made'
    BY <1>2, <1>4, <2>1, <2>2, <2>3
  <2> QED
    BY <1>2, <2>1, <2>3, <2>4 DEF Accounts, ProducedAccounted
<1>10. CASE ArriveLate
  <2>1. PICK e \in failed : e.id \notin Ids(topic) /\ topic' = Append(topic, e)
    BY <1>10 DEF ArriveLate
  <2>2. UNCHANGED <<made, queue, sent, failed>>
    BY <1>10 DEF ArriveLate, producerVars
  <2>3. /\ Ids(topic)' = Ids(topic) \cup {e.id}
        /\ \A i, j \in DOMAIN topic' : topic'[i].id = topic'[j].id => i = j
    BY <1>1, <2>1, TopicAccounts
  <2>4. Ids(queue)' \cup {x.id : x \in failed'} \cup Ids(topic)' = 1 .. made'
    BY <1>2, <1>4, <2>1, <2>2, <2>3
  <2>5. \A n \in DOMAIN queue : queue[n].id \in Ids(topic)' <=> n <= sent
    BY <1>2, <1>5, <2>1, <2>3
  <2> QED
    BY <1>2, <1>4, <2>2, <2>3, <2>4, <2>5 DEF Accounts, ProducedAccounted
<1>11. CASE Foreign
  <2>1. /\ made' = made + 1 /\ UNCHANGED <<queue, sent, failed>>
        /\ \E kind, id : topic' = Append(topic, Event(made + 1, id, kind))
    BY <1>11 DEF Foreign, Upstream
  <2>2. PICK kind, id : topic' = Append(topic, Event(made + 1, id, kind))
    BY <2>1
  <2> DEFINE e == Event(made + 1, id, kind)
  <2>3. e.id = made + 1 /\ topic' = Append(topic, e)
    BY <2>2 DEF Event
  <2>4. e \in EventType
    <3>1. topic' \in Seq(EventType)
      BY <1>11, ProducerTypes DEF StreamTypes, StreamTypeOK
    <3>2. Len(topic) + 1 \in DOMAIN topic' /\ topic'[Len(topic) + 1] = e
      BY <1>1, <2>3
    <3> QED
      BY <3>1, <3>2, ListOps
  <2> HIDE DEF e
  <2>5. e.id \notin Ids(topic) /\ e.id \notin Ids(queue)
    BY <1>2, <1>3, <2>3
  <2>6. /\ Ids(topic)' = Ids(topic) \cup {e.id}
        /\ \A i, j \in DOMAIN topic' : topic'[i].id = topic'[j].id => i = j
    BY <2>3, <2>4, <2>5, TopicAccounts
  <2>7. Ids(queue)' \cup {x.id : x \in failed'} \cup Ids(topic)' = 1 .. made'
    BY <1>2, <1>3, <1>4, <2>1, <2>3, <2>6
  <2>8. \A n \in DOMAIN queue : queue[n].id \in Ids(topic)' <=> n <= sent
    BY <1>2, <1>5, <2>5, <2>6
  <2> QED
    BY <1>2, <1>4, <2>1, <2>6, <2>7, <2>8 DEF Accounts, ProducedAccounted
<1>12. CASE UNCHANGED <<producerVars, topic>> \/ StopSimulator
  <2>1. UNCHANGED <<made, queue, sent, failed, topic>>
    BY <1>12 DEF StopSimulator, producerVars, topicVars
  <2> QED
    BY <2>1 DEF Accounts, ProducedAccounted, Ids
<1>13. CASE MainStep \/ DlqStep \/ ProcessStep \/ Expire \/ Die \/ HostLost \/ UNCHANGED vars
  <2>1. UNCHANGED <<producerVars, topic>>
    BY <1>13 DEF MainStep, BeginBatch, PushDrift, PublishScore, ScoreNothing, PushDegradation,
       CommitBatch, DlqStep, BeginDlq, WriteDeadLetter, CommitDlq, ProcessStep,
       StartMainQuery, StartDlqQuery, SubscribeMain, SubscribeDlq, Expire, Die, HostLost,
       vars, topicVars
  <2> QED
    BY <1>12, <2>1
<1> QED
  BY <1>6, <1>7, <1>8, <1>9, <1>10, <1>11, <1>12, <1>13 DEF Next, World, ProducerStep

(* For every size of the queue, every event made is in the queue, in the    *)
(* topic or given up; the topic has none twice, whatever is sent again and  *)
(* arrives late; and what is in the queue and in the topic is what waits    *)
(* for its acknowledgement.                                                 *)
THEOREM EveryEventAccounted == Spec => []ProducedAccounted
<1>1. Init => StreamTypes /\ Accounts
  BY InitTypes, InitAccounts
<1>2. StreamTypes /\ Accounts /\ [Next]_vars => (StreamTypes /\ Accounts)'
  BY NextTypes, NextAccounts
<1> QED
  BY <1>1, <1>2, PTL DEF Spec, Accounts

-----------------------------------------------------------------------------
(* The severities at both ends of the queue.                                *)

LEMMA SentSeverities ==
    ASSUME NEW a, \/ a = DriftAlert
                  \/ a = DegradationAlert
    PROVE  ComputeSeverity(a) = a.severity
<1>1. CASE a = DriftAlert
  <2>1. a.severity \in Severities /\ a.dq_score = -1
    BY <1>1 DEF DriftAlert, DriftSeverity, Severities, NoScore
  <2> QED
    BY <2>1 DEF ComputeSeverity
<1>2. CASE a = DegradationAlert
  <2>1. /\ a.severity = ScoreSeverity(score) /\ a.dq_score = score
        /\ a.severity \in Severities
    BY <1>2 DEF DegradationAlert, ScoreSeverity, Severities
  <2> QED
    BY <2>1 DEF ComputeSeverity, ScoreSeverity
<1> QED
  BY <1>1, <1>2

LEMMA NextSeverities == StreamTypes /\ SeverityAgrees /\ [Next]_vars => SeverityAgrees'
<1> SUFFICES ASSUME StreamTypes, SeverityAgrees, [Next]_vars PROVE SeverityAgrees'
  OBVIOUS
<1>1. CASE alerts' = alerts
  BY <1>1 DEF SeverityAgrees, ComputeSeverity
<1>2. CASE PushDrift \/ PushDegradation
  <2>1. PICK a \in {DriftAlert, DegradationAlert} : alerts' = Append(alerts, a)
    BY <1>2 DEF PushDrift, PushDegradation
  <2>2. a \in AlertType /\ alerts \in Seq(AlertType)
    BY <1>2, AlertTypes DEF PushDrift, PushDegradation, StreamTypes, StreamTypeOK
  <2>3. /\ DOMAIN alerts' = DOMAIN alerts \cup {Len(alerts) + 1}
        /\ alerts'[Len(alerts) + 1] = a
        /\ \A n \in DOMAIN alerts : alerts'[n] = alerts[n]
    BY <2>1, <2>2, Appended
  <2>4. ComputeSeverity(a) = a.severity
    BY SentSeverities
  <2> QED
    BY <2>3, <2>4 DEF SeverityAgrees
<1>3. CASE ~(PushDrift \/ PushDegradation)
  <2>1. alerts' = alerts
    BY <1>3, EventsArrive DEF Next, World, MainStep, DlqStep, ProcessStep, BeginBatch,
       PublishScore, ScoreNothing, CommitBatch, BeginDlq, WriteDeadLetter, CommitDlq,
       StartMainQuery, StartDlqQuery, SubscribeMain, SubscribeDlq, Expire, Die, HostLost,
       mainVars, vars
  <2> QED
    BY <1>1, <2>1
<1> QED
  BY <1>2, <1>3

(* For every score the alert processor gives an alert of the stream the     *)
(* severity it was sent with.                                               *)
THEOREM SeveritiesAgree == Spec => []SeverityAgrees
<1>1. Init => SeverityAgrees
  <2>1. Init => DOMAIN alerts = {}
    BY DEF Init
  <2> QED
    BY <2>1 DEF SeverityAgrees
<1> QED
  BY <1>1, InitTypes, NextTypes, NextSeverities, PTL DEF Spec

-----------------------------------------------------------------------------
(* Replays.                                                                 *)

Letters(i) == {m \in DOMAIN dead : dead[m] = i}

Alerted(type, upto) ==
    {m \in DOMAIN alerts : alerts[m].type = type /\ alerts[m].upto = upto}

AlertNames == {"schema_drift", "dq_score_degradation"}

(* The stages of a batch that come after its push of an alert.              *)
After(type) == IF type = "schema_drift" THEN {"score", "alert", "commit"} ELSE {"commit"}

(* The query has dealt with an offset since it last began its batch.        *)
LetterPassed(i) ==
    /\ Subscribed(dlq)
    /\ i <= dlq.done \/ (cursor # Idle /\ i <= cursor /\ i <= dlq.planned)

AlertPassed(type, upto) ==
    Subscribed(main) /\ (upto <= main.done \/ (upto = main.planned /\ stage \in After(type)))

(* The copy a query has just made is the one above the number of faults; a  *)
(* fault that makes the query forget it pays for it.                        *)
AtMost(n, passed) == n <= 1 + faults /\ (~passed => n <= faults)

(* For the records of the dead-letter topic, and for alerts.                *)
LetterRepeats == \A i \in Nat : AtMost(Cardinality(Letters(i)), LetterPassed(i))

AlertRepeats ==
    \A type \in AlertNames, upto \in Int :
       AtMost(Cardinality(Alerted(type, upto)), AlertPassed(type, upto))

Repeats == LetterRepeats /\ AlertRepeats

LEMMA CopiesFinite ==
    ASSUME StreamTypes
    PROVE  /\ \A i : IsFiniteSet(Letters(i)) /\ Cardinality(Letters(i)) \in Nat
           /\ \A type, upto : /\ IsFiniteSet(Alerted(type, upto))
                              /\ Cardinality(Alerted(type, upto)) \in Nat
<1>1. dead \in Seq(Nat) /\ alerts \in Seq(AlertType)
  BY DEF StreamTypes, StreamTypeOK
<1>2. IsFiniteSet(DOMAIN dead) /\ IsFiniteSet(DOMAIN alerts)
  BY <1>1, FS_Interval
<1>3. \A i : Letters(i) \subseteq DOMAIN dead
  BY DEF Letters
<1>4. \A type, upto : Alerted(type, upto) \subseteq DOMAIN alerts
  BY DEF Alerted
<1> QED
  BY <1>2, <1>3, <1>4, FS_Subset, FS_CardinalityType

LEMMA InitRepeats == Init => Repeats
<1> SUFFICES ASSUME Init PROVE Repeats
  OBVIOUS
<1>1. \A i : Letters(i) = {}
  BY DEF Init, Letters
<1>2. \A type, upto : Alerted(type, upto) = {}
  BY DEF Init, Alerted
<1>3. faults = 0 /\ Cardinality({}) = 0
  BY FS_EmptySet DEF Init
<1> QED
  BY <1>1, <1>2, <1>3 DEF Repeats, LetterRepeats, AlertRepeats, AtMost

(* Nothing is written; what had been passed still is, or there is a fault.  *)
LEMMA NoLetter ==
    ASSUME StreamTypes, LetterRepeats, dead' = dead, faults' \in Nat,
           \/ faults' >= faults /\ \A i \in Nat : LetterPassed(i) => LetterPassed(i)'
           \/ faults' = faults + 1
    PROVE  LetterRepeats'
<1>1. faults \in Nat
  BY DEF StreamTypes, StreamTypeOK
<1> SUFFICES ASSUME NEW i \in Nat
             PROVE  AtMost(Cardinality(Letters(i)), LetterPassed(i))'
  BY DEF LetterRepeats
<1>2. Letters(i)' = Letters(i) /\ Cardinality(Letters(i)) \in Nat
  BY CopiesFinite DEF Letters
<1>3. AtMost(Cardinality(Letters(i)), LetterPassed(i))
  BY DEF LetterRepeats
<1> QED
  BY <1>1, <1>2, <1>3 DEF AtMost

LEMMA NoAlert ==
    ASSUME StreamTypes, AlertRepeats, alerts' = alerts, faults' \in Nat,
           \/ /\ faults' >= faults
              /\ \A type \in AlertNames, upto \in Int :
                    AlertPassed(type, upto) => AlertPassed(type, upto)'
           \/ faults' = faults + 1
    PROVE  AlertRepeats'
<1>1. faults \in Nat
  BY DEF StreamTypes, StreamTypeOK
<1> SUFFICES ASSUME NEW type \in AlertNames, NEW upto \in Int
             PROVE  AtMost(Cardinality(Alerted(type, upto)), AlertPassed(type, upto))'
  BY DEF AlertRepeats
<1>2. Alerted(type, upto)' = Alerted(type, upto) /\ Cardinality(Alerted(type, upto)) \in Nat
  BY CopiesFinite DEF Alerted
<1>3. AtMost(Cardinality(Alerted(type, upto)), AlertPassed(type, upto))
  BY DEF AlertRepeats
<1> QED
  BY <1>1, <1>2, <1>3 DEF AtMost

LEMMA LetterAdded ==
    ASSUME StreamTypes, LetterRepeats, WriteDeadLetter
    PROVE  LetterRepeats'
<1>1. /\ Subscribed(dlq) /\ Sound(dlq) /\ cursor \in Nat /\ cursor # Idle
      /\ faults \in Nat /\ dead \in Seq(Nat) /\ dlq' = dlq /\ faults' = faults
  BY SoundCheckpoints DEF StreamTypes, StreamTypeOK, AtWork, WriteDeadLetter, envVars
<1>2. PICK i \in LeftToWrite : dead' = Append(dead, i) /\ cursor' = i
  BY DEF WriteDeadLetter
<1>3. i \in Nat /\ i > cursor /\ i > dlq.done /\ i <= dlq.planned
      /\ dlq.done \in Nat /\ dlq.planned \in Nat
  BY <1>1, BatchRows DEF LeftToWrite, Sound
<1>4. /\ DOMAIN dead' = DOMAIN dead \cup {Len(dead) + 1}
      /\ Len(dead) + 1 \notin DOMAIN dead
      /\ dead'[Len(dead) + 1] = i
      /\ \A n \in DOMAIN dead : dead'[n] = dead[n]
  BY <1>1, <1>2, <1>3, Appended
<1> SUFFICES ASSUME NEW j \in Nat
             PROVE  AtMost(Cardinality(Letters(j)), LetterPassed(j))'
  BY DEF LetterRepeats
<1>5. IsFiniteSet(Letters(j)) /\ Cardinality(Letters(j)) \in Nat
  BY CopiesFinite
<1>6. AtMost(Cardinality(Letters(j)), LetterPassed(j))
  BY DEF LetterRepeats
<1>7. LetterPassed(j) => LetterPassed(j)'
  BY <1>1, <1>2, <1>3 DEF LetterPassed, Idle
<1>8. CASE j = i
  <2>1. Letters(j)' = Letters(j) \cup {Len(dead) + 1} /\ Len(dead) + 1 \notin Letters(j)
    BY <1>4, <1>8 DEF Letters
  <2>2. Cardinality(Letters(j))' = Cardinality(Letters(j)) + 1
    BY <1>5, <2>1, FS_AddElement
  <2>3. ~LetterPassed(j) /\ LetterPassed(j)'
    BY <1>1, <1>2, <1>3, <1>8 DEF LetterPassed, Idle
  <2> QED
    BY <1>1, <1>5, <1>6, <2>2, <2>3 DEF AtMost
<1>9. CASE j # i
  <2>1. Letters(j)' = Letters(j)
    BY <1>4, <1>9 DEF Letters
  <2> QED
    BY <1>1, <1>6, <1>7, <2>1 DEF AtMost
<1> QED
  BY <1>8, <1>9

LEMMA AlertRepeated ==
    ASSUME StreamTypes, AlertRepeats, PushDrift \/ PushDegradation
    PROVE  AlertRepeats'
<1>1. /\ Subscribed(main) /\ Sound(main) /\ main.done < main.planned /\ stage # "idle"
      /\ faults \in Nat /\ alerts \in Seq(AlertType) /\ main' = main /\ faults' = faults
  BY SoundCheckpoints DEF StreamTypes, StreamTypeOK, AtWork, PushDrift, PushDegradation, envVars
<1>2. PICK a \in {DriftAlert, DegradationAlert} :
         /\ alerts' = Append(alerts, a)
         /\ stage \notin After(a.type) /\ stage' \in After(a.type)
         /\ stage' \in {"score", "commit"} /\ (stage = "drift" \/ stage = "alert")
         /\ stage = "drift" => stage' = "score"
         /\ stage = "alert" => stage' = "commit"
  <2>1. DriftAlert.type = "schema_drift" /\ DegradationAlert.type = "dq_score_degradation"
    BY DEF DriftAlert, DegradationAlert
  <2> QED
    BY <2>1 DEF PushDrift, PushDegradation, After
<1>3. a \in AlertType /\ a.upto = main.planned
  BY <1>1, AlertTypes DEF DriftAlert, DegradationAlert
<1>4. main.planned > main.done /\ main.planned \in Nat /\ main.done \in Nat
  BY <1>1 DEF Sound
<1>5. /\ DOMAIN alerts' = DOMAIN alerts \cup {Len(alerts) + 1}
      /\ Len(alerts) + 1 \notin DOMAIN alerts
      /\ alerts'[Len(alerts) + 1] = a
      /\ \A n \in DOMAIN alerts : alerts'[n] = alerts[n]
  BY <1>1, <1>2, <1>3, Appended
<1> SUFFICES ASSUME NEW type \in AlertNames, NEW upto \in Int
             PROVE  AtMost(Cardinality(Alerted(type, upto)), AlertPassed(type, upto))'
  BY DEF AlertRepeats
<1>6. IsFiniteSet(Alerted(type, upto)) /\ Cardinality(Alerted(type, upto)) \in Nat
  BY CopiesFinite
<1>7. AtMost(Cardinality(Alerted(type, upto)), AlertPassed(type, upto))
  BY DEF AlertRepeats
<1>8. AlertPassed(type, upto) => AlertPassed(type, upto)'
  BY <1>1, <1>2 DEF AlertPassed, After
<1>9. CASE type = a.type /\ upto = a.upto
  <2>1. /\ Alerted(type, upto)' = Alerted(type, upto) \cup {Len(alerts) + 1}
        /\ Len(alerts) + 1 \notin Alerted(type, upto)
    BY <1>5, <1>9 DEF Alerted
  <2>2. Cardinality(Alerted(type, upto))' = Cardinality(Alerted(type, upto)) + 1
    BY <1>6, <2>1, FS_AddElement
  <2>3. ~AlertPassed(type, upto) /\ AlertPassed(type, upto)'
    BY <1>1, <1>2, <1>3, <1>4, <1>9 DEF AlertPassed
  <2> QED
    BY <1>1, <1>6, <1>7, <2>2, <2>3 DEF AtMost
<1>10. CASE ~(type = a.type /\ upto = a.upto)
  <2>1. Alerted(type, upto)' = Alerted(type, upto)
    BY <1>5, <1>10 DEF Alerted
  <2> QED
    BY <1>1, <1>7, <1>8, <2>1 DEF AtMost
<1> QED
  BY <1>9, <1>10

LEMMA NextLetters == StreamTypes /\ LetterRepeats /\ [Next]_vars => LetterRepeats'
<1> SUFFICES ASSUME StreamTypes, LetterRepeats, [Next]_vars PROVE LetterRepeats'
  OBVIOUS
<1>1. faults \in Nat /\ faults' \in Nat /\ Len(topic) \in Nat
  BY NextTypes DEF StreamTypes, StreamTypeOK
<1>2. CASE UNCHANGED dlqVars /\ faults' >= faults
  BY <1>1, <1>2, NoLetter DEF LetterPassed, Subscribed, dlqVars
<1>3. CASE Die \/ HostLost
  BY <1>1, <1>3, NoLetter DEF Die, HostLost
<1>4. CASE SubscribeDlq
  <2>1. ~Subscribed(dlq) /\ dead' = dead /\ faults' = faults
    BY <1>4 DEF SubscribeDlq, envVars
  <2> QED
    BY <1>1, <2>1, NoLetter DEF LetterPassed
<1>5. CASE BeginDlq \/ CommitDlq
  <2>1. /\ Subscribed(dlq) /\ Sound(dlq) /\ dead' = dead /\ faults' = faults
        /\ cursor \in Int
    BY <1>5, SoundCheckpoints DEF StreamTypes, StreamTypeOK, AtWork, BeginDlq, CommitDlq, envVars
  <2>2. CASE BeginDlq
    <3>1. dlq'.done = dlq.done /\ cursor = Idle /\ Subscribed(dlq')
      BY <1>1, <2>1, <2>2, CheckpointOps DEF BeginDlq
    <3>2. \A i \in Nat : LetterPassed(i) => LetterPassed(i)'
      BY <3>1 DEF LetterPassed, Subscribed
    <3> QED
      BY <1>1, <2>1, <3>2, NoLetter
  <2>3. CASE CommitDlq
    <3>1. dlq'.done = dlq.planned /\ Subscribed(dlq') /\ dlq.done <= dlq.planned
          /\ dlq.done \in Nat /\ dlq.planned \in Nat
      BY <1>1, <2>1, <2>3, CheckpointOps DEF CommitDlq, Sound
    <3>2. \A i \in Nat : LetterPassed(i) => LetterPassed(i)'
      BY <2>1, <3>1 DEF LetterPassed, Subscribed
    <3> QED
      BY <1>1, <2>1, <3>2, NoLetter
  <2> QED
    BY <1>5, <2>2, <2>3
<1> QED
  <2>1. CASE Foreign \/ ProducerStep
    BY <1>1, <1>2, <2>1 DEF Foreign, Upstream, ProducerStep, Produce, Persist, Acknowledge,
       DeliveryFails, StopSimulator, GiveUpFlush, ArriveLate, dlqVars, envVars
  <2>2. CASE MainStep
    BY <1>1, <1>2, <2>2 DEF MainStep, BeginBatch, PushDrift, PublishScore, ScoreNothing,
       PushDegradation, CommitBatch, dlqVars, envVars
  <2>3. CASE StartMainQuery \/ StartDlqQuery \/ SubscribeMain \/ Expire \/ UNCHANGED vars
    BY <1>1, <1>2, <2>3 DEF StartMainQuery, StartDlqQuery, SubscribeMain, Expire, dlqVars,
       envVars, vars
  <2> QED
    BY <1>3, <1>4, <1>5, <2>1, <2>2, <2>3, LetterAdded DEF Next, ProcessStep, DlqStep, World

LEMMA NextAlerts == StreamTypes /\ AlertRepeats /\ [Next]_vars => AlertRepeats'
<1> SUFFICES ASSUME StreamTypes, AlertRepeats, [Next]_vars PROVE AlertRepeats'
  OBVIOUS
<1>1. faults \in Nat /\ faults' \in Nat /\ Len(topic) \in Nat
  BY NextTypes DEF StreamTypes, StreamTypeOK
<1>2. CASE UNCHANGED mainVars /\ faults' >= faults
  BY <1>1, <1>2, NoAlert DEF AlertPassed, Subscribed, mainVars
<1>3. CASE Die \/ HostLost
  BY <1>1, <1>3, NoAlert DEF Die, HostLost
<1>4. CASE SubscribeMain
  <2>1. ~Subscribed(main) /\ alerts' = alerts /\ faults' = faults
    BY <1>4 DEF SubscribeMain, envVars
  <2> QED
    BY <1>1, <2>1, NoAlert DEF AlertPassed
<1>5. CASE BeginBatch \/ PublishScore \/ ScoreNothing \/ CommitBatch
  <2>1. /\ Subscribed(main) /\ Sound(main) /\ alerts' = alerts /\ faults' = faults
    BY <1>5, SoundCheckpoints DEF StreamTypes, StreamTypeOK, AtWork, BeginBatch, PublishScore,
       ScoreNothing, CommitBatch, envVars
  <2>2. CASE BeginBatch
    <3>1. main'.done = main.done /\ stage = "idle" /\ Subscribed(main')
      BY <1>1, <2>1, <2>2, CheckpointOps DEF BeginBatch
    <3>2. \A type \in AlertNames, upto \in Int :
             AlertPassed(type, upto) => AlertPassed(type, upto)'
      BY <3>1 DEF AlertPassed, Subscribed, After
    <3> QED
      BY <1>1, <2>1, <3>2, NoAlert
  <2>3. CASE PublishScore \/ ScoreNothing
    <3>1. main' = main /\ stage = "score" /\ stage' \in {"alert", "commit"}
      BY <2>3 DEF PublishScore, ScoreNothing
    <3>2. \A type \in AlertNames, upto \in Int :
             AlertPassed(type, upto) => AlertPassed(type, upto)'
      BY <3>1 DEF AlertPassed, Subscribed, After
    <3> QED
      BY <1>1, <2>1, <3>2, NoAlert
  <2>4. CASE CommitBatch
    <3>1. /\ main'.done = main.planned /\ Subscribed(main') /\ main.done <= main.planned
          /\ main.done \in Nat /\ main.planned \in Nat
      BY <1>1, <2>1, <2>4, CheckpointOps DEF CommitBatch, Sound
    <3>2. \A type \in AlertNames, upto \in Int :
             AlertPassed(type, upto) => AlertPassed(type, upto)'
      BY <3>1 DEF AlertPassed, Subscribed
    <3> QED
      BY <1>1, <2>1, <3>2, NoAlert
  <2> QED
    BY <1>5, <2>2, <2>3, <2>4
<1> QED
  <2>1. CASE Foreign \/ ProducerStep
    BY <1>1, <1>2, <2>1 DEF Foreign, Upstream, ProducerStep, Produce, Persist, Acknowledge,
       DeliveryFails, StopSimulator, GiveUpFlush, ArriveLate, mainVars, envVars
  <2>2. CASE DlqStep
    BY <1>1, <1>2, <2>2 DEF DlqStep, BeginDlq, WriteDeadLetter, CommitDlq, mainVars, envVars
  <2>3. CASE StartMainQuery \/ StartDlqQuery \/ SubscribeDlq \/ Expire \/ UNCHANGED vars
    BY <1>1, <1>2, <2>3 DEF StartMainQuery, StartDlqQuery, SubscribeDlq, Expire, mainVars,
       envVars, vars
  <2> QED
    BY <1>3, <1>4, <1>5, <2>1, <2>2, <2>3, AlertRepeated DEF Next, ProcessStep, MainStep, World

(* For any number of faults, an alert of one batch or a dead letter of one  *)
(* event is written at most once more than there were faults.               *)
THEOREM RepeatsAreReplays == Spec => []ReplaysBounded
<1>1. StreamTypes /\ Repeats /\ [Next]_vars => Repeats'
  BY NextLetters, NextAlerts DEF Repeats
<1>2. StreamTypes /\ Repeats => ReplaysBounded
  <2> SUFFICES ASSUME StreamTypes, Repeats PROVE ReplaysBounded
    OBVIOUS
  <2>1. faults \in Nat /\ dead \in Seq(Nat) /\ alerts \in Seq(AlertType)
    BY DEF StreamTypes, StreamTypeOK
  <2>2. ASSUME NEW n \in DOMAIN dead
        PROVE  Cardinality({m \in DOMAIN dead : dead[m] = dead[n]}) <= 1 + faults
    <3>1. dead[n] \in Nat
      BY <2>1, ListOps
    <3> QED
      BY <3>1 DEF Repeats, LetterRepeats, AtMost, Letters
  <2>3. ASSUME NEW n \in DOMAIN alerts
        PROVE  Cardinality({m \in DOMAIN alerts : /\ alerts[m].type = alerts[n].type
                                                  /\ alerts[m].upto = alerts[n].upto})
                  <= 1 + faults
    <3>1. alerts[n] \in AlertType
      BY <2>1, ListOps
    <3>2. alerts[n].type \in AlertNames /\ alerts[n].upto \in Int
      BY <3>1 DEF AlertType, AlertNames
    <3> QED
      BY <3>2 DEF Repeats, AlertRepeats, AtMost, Alerted
  <2> QED
    BY <2>2, <2>3 DEF ReplaysBounded
<1> QED
  BY <1>1, <1>2, InitTypes, InitRepeats, NextTypes, PTL DEF Spec

-----------------------------------------------------------------------------
(* The cached score moves on.                                               *)

LEMMA DivMonotone ==
    ASSUME NEW x \in Int, NEW y \in Int, NEW k \in Nat \ {0}, x <= y
    PROVE  x \div k <= y \div k
<1>1. /\ x = k * (x \div k) + (x % k) /\ 0 <= x % k /\ x % k < k
      /\ x \div k \in Int /\ x % k \in Int
  OBVIOUS
<1>2. /\ y = k * (y \div k) + (y % k) /\ 0 <= y % k /\ y % k < k
      /\ y \div k \in Int /\ y % k \in Int
  OBVIOUS
<1>3. ASSUME NEW p \in Int, NEW q \in Int, NEW r \in Int, NEW s \in Int,
             k * p + r <= k * q + s, r >= 0, s < k
      PROVE  p <= q
  <2>1. k * (p - q) < k
    BY <1>3
  <2>2. CASE p - q >= 1
    <3>1. k * (p - q) >= k
      BY <2>2
    <3> QED
      BY <2>1, <3>1
  <2> QED
    BY <2>2
<1> QED
  BY <1>1, <1>2, <1>3

LEMMA PercentMonotone ==
    ASSUME NEW m \in Nat, NEW n \in Nat, NEW d \in Nat \ {0}, m <= n
    PROVE  Percent(m, d) <= Percent(n, d)
<1>1. /\ 20000 * m + d \in Int /\ 20000 * n + d \in Int /\ 2 * d \in Nat \ {0}
      /\ 20000 * m + d <= 20000 * n + d
  OBVIOUS
<1> QED
  BY <1>1, DivMonotone DEF Percent

(* With more of the events too old a score is no higher.                    *)
LEMMA OverallFalls ==
    ASSUME NEW rows \in SUBSET Nat, IsFiniteSet(rows), rows # {}, NEW events,
           NEW old \in Int, NEW older \in Int, old <= older
    PROVE  Overall(rows, events, older) <= Overall(rows, events, old)
<1> DEFINE fresh(o) == {i \in rows : i > o /\ PassesFreshness(events[i].kind)}
<1>1. fresh(older) \subseteq fresh(old) /\ fresh(old) \subseteq rows
  <2>1. ASSUME NEW i \in rows, i > older
        PROVE  i > old
    BY <2>1
  <2> QED
    BY <2>1, Zenon
<1>2. IsFiniteSet(fresh(old)) /\ IsFiniteSet(fresh(older))
  BY <1>1, FS_Subset
<1>3. /\ Cardinality(fresh(older)) \in Nat /\ Cardinality(fresh(old)) \in Nat
      /\ Cardinality(fresh(older)) <= Cardinality(fresh(old))
      /\ Cardinality(rows) \in Nat \ {0}
  BY <1>1, <1>2, FS_Subset, FS_CardinalityType, FS_EmptySet
<1>4. Freshness(rows, events, older) <= Freshness(rows, events, old)
  BY <1>3, PercentMonotone DEF Freshness, Share
<1> HIDE DEF fresh
<1> DEFINE c == Completeness(rows, events)
           v == Validity(rows, events)
           u == Uniqueness(rows, events)
           f == Freshness(rows, events, old)
           g == Freshness(rows, events, older)
           k == Consistency(rows, events)
<1>5. c \in Int /\ v \in Int /\ u \in Int /\ f \in Int /\ g \in Int /\ k \in Int /\ g <= f
  BY <1>4, PartsInt
<1> HIDE DEF c, v, u, f, g, k
<1> DEFINE x == 25 * c + 25 * v + 20 * u + 20 * g + 10 * k + 50
           y == 25 * c + 25 * v + 20 * u + 20 * f + 10 * k + 50
<1>6. x \in Int /\ y \in Int /\ x <= y
  BY <1>5
<1> HIDE DEF x, y
<1>7. x \div 100 <= y \div 100
  BY <1>6, DivMonotone
<1> QED
  BY <1>7 DEF Overall, x, y, c, v, u, f, g, k

LEMMA OverallKept ==
    ASSUME NEW rows, NEW events, NEW later, NEW old,
           \A i \in rows : later[i] = events[i]
    PROVE  Overall(rows, later, old) = Overall(rows, events, old)
<1>1. Completeness(rows, later) = Completeness(rows, events)
  <2>1. {i \in rows : NullFields(later[i].kind) > 0} = {i \in rows : NullFields(events[i].kind) > 0}
    OBVIOUS
  <2> QED
    BY <2>1 DEF Completeness
<1>2. Validity(rows, later) = Validity(rows, events)
  <2>1. {i \in rows : PassesValidity(later[i].kind)} = {i \in rows : PassesValidity(events[i].kind)}
    OBVIOUS
  <2> QED
    BY <2>1 DEF Validity
<1>3. Uniqueness(rows, later) = Uniqueness(rows, events)
  <2>1. {later[i].event_id : i \in rows} = {events[i].event_id : i \in rows}
    OBVIOUS
  <2> QED
    BY <2>1 DEF Uniqueness
<1>4. Freshness(rows, later, old) = Freshness(rows, events, old)
  <2>1. {i \in rows : i > old /\ PassesFreshness(later[i].kind)}
           = {i \in rows : i > old /\ PassesFreshness(events[i].kind)}
    OBVIOUS
  <2> QED
    BY <2>1 DEF Freshness
<1>5. Consistency(rows, later) = Consistency(rows, events)
  <2>1. {i \in rows : PassesConsistency(later[i].kind)}
           = {i \in rows : PassesConsistency(events[i].kind)}
    OBVIOUS
  <2> QED
    BY <2>1 DEF Consistency
<1> QED
  BY <1>1, <1>2, <1>3, <1>4, <1>5 DEF Overall

ScoreRecords == [from : Int, upto : Int, overall : Int]

(* A record belongs to a committed batch, or to the one under way and its   *)
(* score is at least what the batch would get now, if it has all its rows.  *)
Settled(r) == r.upto <= main.done

UnderWay(r) ==
    /\ r.from = main.done /\ r.upto = main.planned
    /\ \/ main.done < gone
       \/ ValidRows(main) # {} /\ Overall(ValidRows(main), topic, aged) <= r.overall

ScoreOrder ==
    /\ ScoresMoveOn
    /\ \A n \in DOMAIN cached :
          /\ cached[n].upto <= Len(topic)
          /\ Subscribed(main) => Settled(cached[n]) \/ UnderWay(cached[n])

(* Nothing is cached, and what was settled or under way still is.           *)
LEMMA ScoreAlone ==
    ASSUME ScoreOrder, cached' = cached, Len(topic) <= Len(topic'),
           Len(topic) \in Nat, Len(topic') \in Nat, cached \in Seq(ScoreRecords),
           gone \in Nat, gone' \in Nat, gone <= gone',
           Subscribed(main') => \A n \in DOMAIN cached :
              Settled(cached[n])' \/ UnderWay(cached[n])'
    PROVE  ScoreOrder'
<1>2. \A n \in DOMAIN cached : cached[n] \in ScoreRecords
  BY ListOps
<1>3. \A n \in DOMAIN cached : cached[n].upto \in Int /\ cached[n].from \in Int
  BY <1>2 DEF ScoreRecords
<1>5. \A n \in DOMAIN cached : cached[n].from < gone => cached[n].from < gone'
  BY <1>3
<1>1. ScoresMoveOn'
  BY <1>5 DEF ScoreOrder, ScoresMoveOn
<1>4. \A n \in DOMAIN cached : cached'[n].upto <= Len(topic')
  BY <1>3 DEF ScoreOrder
<1> QED
  BY <1>1, <1>4 DEF ScoreOrder, Subscribed

LEMMA ScorePublished ==
    ASSUME StreamTypes, ScoreOrder, PublishScore
    PROVE  ScoreOrder'
<1> DEFINE r == [from |-> main.done, upto |-> main.planned, overall |-> score']
           last == Len(cached) + 1
<1>1. /\ Sound(main) /\ Subscribed(main) /\ ValidRows(main) # {}
      /\ main' = main /\ topic' = topic /\ gone' = gone /\ gone \in Nat
      /\ aged \in Int /\ aged' \in Int /\ aged <= aged' /\ Len(topic) \in Nat
      /\ cached \in Seq(ScoreRecords) /\ cached' = Append(cached, r)
      /\ score' = Overall(ValidRows(main), topic, aged')
  BY SoundCheckpoints DEF StreamTypes, StreamTypeOK, AtWork, PublishScore, ScoreRecord, ScoreRecords
<1>2. /\ IsFiniteSet(ValidRows(main)) /\ ValidRows(main) \subseteq Nat
      /\ main.done \in Nat /\ main.planned \in Nat /\ main.done < main.planned
      /\ main.planned <= Len(topic)
  <2>1. \A i \in ValidRows(main) : i \in Nat /\ main.done < i /\ i <= main.planned
    BY <1>1, BatchRows
  <2>2. IsFiniteSet(ValidRows(main))
    BY <1>1, BatchRows
  <2> QED
    BY <1>1, <2>1, <2>2 DEF Sound
<1>3. score' \in Int /\ score' <= Overall(ValidRows(main), topic, aged)
  BY <1>1, <1>2, OverallInt, OverallFalls
<1>4. Overall(ValidRows(main), topic, aged) \in Int
  BY <1>1, <1>2, OverallInt
<1>5. r \in ScoreRecords /\ cached' = Append(cached, r)
  BY <1>1, <1>2, <1>3 DEF ScoreRecords
<1>6. /\ DOMAIN cached' = DOMAIN cached \cup {last} /\ last \notin DOMAIN cached
      /\ cached'[last] = r
      /\ \A n \in DOMAIN cached : cached'[n] = cached[n] /\ n < last /\ n \in Nat
  BY <1>1, <1>5, Appended
<1>7. \A n \in DOMAIN cached : cached[n] \in ScoreRecords
  BY <1>1, ListOps
<1>8. \A n \in DOMAIN cached : Settled(cached[n]) \/ UnderWay(cached[n])
  BY <1>1 DEF ScoreOrder
<1>9. ScoresMoveOn'
  <2> SUFFICES ASSUME NEW m \in DOMAIN cached', NEW n \in DOMAIN cached', m < n
               PROVE  \/ cached'[m].upto <= cached'[n].from
                      \/ /\ cached'[m].from = cached'[n].from
                         /\ cached'[m].upto = cached'[n].upto
                         /\ cached'[n].overall <= cached'[m].overall \/ cached'[n].from < gone'
    BY DEF ScoresMoveOn
  <2>1. CASE n \in DOMAIN cached
    <3>1. m \in DOMAIN cached
      BY <1>1, <1>6, <2>1
    <3> QED
      BY <1>1, <1>6, <2>1, <3>1 DEF ScoreOrder, ScoresMoveOn
  <2>2. CASE n = last
    <3>1. m \in DOMAIN cached /\ cached'[m] = cached[m] /\ cached'[n] = r
      BY <1>1, <1>6, <2>2
    <3>2. cached[m].overall \in Int
      BY <1>7, <3>1 DEF ScoreRecords
    <3>3. CASE Settled(cached[m])
      BY <3>1, <3>3 DEF Settled
    <3>4. CASE UnderWay(cached[m])
      BY <1>1, <1>3, <1>4, <3>1, <3>2, <3>4 DEF UnderWay
    <3> QED
      BY <1>8, <3>1, <3>3, <3>4
  <2> QED
    BY <1>6, <2>1, <2>2
<1>10. ValidRows(main)' = ValidRows(main)
  BY <1>1 DEF ValidRows, Corrupt
<1>11. ASSUME NEW n \in DOMAIN cached'
       PROVE  cached'[n].upto <= Len(topic') /\ (Settled(cached[n])' \/ UnderWay(cached[n])')
  <2>1. CASE n \in DOMAIN cached
    <3>1. cached'[n] = cached[n] /\ cached[n].overall \in Int
      BY <1>6, <1>7, <2>1 DEF ScoreRecords
    <3>2. cached[n].upto <= Len(topic')
      BY <1>1, <2>1 DEF ScoreOrder
    <3>3. CASE Settled(cached[n])
      BY <1>1, <3>1, <3>2, <3>3 DEF Settled
    <3>4. CASE UnderWay(cached[n])
      BY <1>1, <1>3, <1>4, <1>10, <3>1, <3>2, <3>4 DEF UnderWay
    <3> QED
      BY <1>8, <2>1, <3>3, <3>4
  <2>2. CASE n = last
    BY <1>1, <1>2, <1>3, <1>6, <1>10, <2>2 DEF UnderWay
  <2> QED
    BY <1>6, <2>1, <2>2
<1> QED
  BY <1>9, <1>11 DEF ScoreOrder

LEMMA NextScoreOrder == StreamTypes /\ ScoreOrder /\ [Next]_vars => ScoreOrder'
<1> SUFFICES ASSUME StreamTypes, ScoreOrder, [Next]_vars PROVE ScoreOrder'
  OBVIOUS
<1>1. /\ StreamTypeOK /\ Len(topic) \in Nat /\ gone \in Nat /\ gone <= gone
      /\ cached \in Seq(ScoreRecords)
  BY DEF StreamTypes, StreamTypeOK, ScoreRecords
<1>2. \A n \in DOMAIN cached : /\ cached[n].upto <= Len(topic)
                               /\ cached[n].upto \in Int
                               /\ Subscribed(main) => Settled(cached[n]) \/ UnderWay(cached[n])
  <2>1. \A n \in DOMAIN cached : cached[n] \in ScoreRecords
    BY <1>1, ListOps
  <2> QED
    BY <2>1 DEF ScoreOrder, ScoreRecords
<1>3. CASE UNCHANGED <<cached, main, topic, gone, aged>>
  <2>1. \A n \in DOMAIN cached : /\ Settled(cached[n]) => Settled(cached[n])'
                                 /\ UnderWay(cached[n]) => UnderWay(cached[n])'
    BY <1>3 DEF Settled, UnderWay, ValidRows, Corrupt
  <2> QED
    BY <1>1, <1>2, <1>3, <2>1, ScoreAlone
<1>4. CASE ProducerStep \/ Foreign
  <2>1. UNCHANGED <<cached, main, gone>>
    BY <1>4, EventsArrive DEF mainVars
  <2>4. aged' = aged
    BY <1>4 DEF ProducerStep, Foreign, Produce, Persist, Acknowledge, DeliveryFails,
       StopSimulator, GiveUpFlush, ArriveLate, Upstream, topicVars
  <2>2. CASE topic' = topic
    BY <1>3, <2>1, <2>2, <2>4
  <2>3. CASE topic' # topic
    <3>1. PICK e \in EventType : topic' = Append(topic, e)
      BY <1>4, <2>3, EventsArrive
    <3>2. /\ Len(topic') = Len(topic) + 1
          /\ \A i \in 1 .. Len(topic) : topic'[i] = topic[i]
          /\ Subscribed(main) => ValidRows(main)' = ValidRows(main)
      BY <1>1, <2>1, <3>1, TopicGrows
    <3>3. ASSUME Subscribed(main), NEW n \in DOMAIN cached
          PROVE  Settled(cached[n])' \/ UnderWay(cached[n])'
      <4>1. CASE Settled(cached[n])
        BY <2>1, <4>1 DEF Settled
      <4>2. CASE UnderWay(cached[n])
        <5>1. \A i \in ValidRows(main) : topic'[i] = topic[i]
          BY <1>1, <3>2, <3>3, BatchRows, SoundCheckpoints
        <5>2. Overall(ValidRows(main), topic', aged) = Overall(ValidRows(main), topic, aged)
          BY <5>1, OverallKept
        <5> QED
          BY <2>1, <2>4, <3>2, <3>3, <4>2, <5>2 DEF UnderWay
      <4> QED
        BY <1>2, <3>3, <4>1, <4>2
    <3> QED
      BY <1>1, <2>1, <3>2, <3>3, ScoreAlone
  <2> QED
    BY <2>2, <2>3
<1>5. CASE PublishScore
  BY <1>5, ScorePublished
<1>6. CASE SubscribeMain
  <2>1. UNCHANGED <<cached, topic, gone>> /\ main'.done = Len(topic)
    BY <1>6 DEF SubscribeMain, Latest, topicVars
  <2> QED
    BY <1>1, <1>2, <2>1, ScoreAlone DEF Settled
<1>7. CASE HostLost
  BY <1>1, <1>7, ScoreAlone DEF HostLost, Subscribed, NoCheckpoint, topicVars
<1>8. CASE BeginBatch
  <2>1. UNCHANGED <<cached, topic, gone, aged>> /\ main' = Planned(main) /\ Sound(main)
    BY <1>1, <1>8, SoundCheckpoints DEF BeginBatch, topicVars
  <2>2. CASE main.planned > main.done
    BY <1>3, <2>1, <2>2 DEF Planned
  <2>3. CASE ~(main.planned > main.done)
    <3>1. main'.done = main.done /\ main.planned = main.done
      BY <1>1, <2>1, <2>3, CheckpointOps DEF Sound
    <3>2. \A n \in DOMAIN cached : Settled(cached[n])
      BY <1>2, <1>8, <2>1, <3>1 DEF BeginBatch, Settled, UnderWay, Sound
    <3> QED
      BY <1>1, <2>1, <3>1, <3>2, ScoreAlone DEF Settled
  <2> QED
    BY <2>2, <2>3
<1>9. CASE CommitBatch
  <2>1. /\ Subscribed(main) /\ Sound(main) /\ UNCHANGED <<cached, topic, gone>>
        /\ main'.done = main.planned
    BY <1>1, <1>9, SoundCheckpoints, CheckpointOps
    DEF CommitBatch, StreamTypes, AtWork, topicVars
  <2>2. \A n \in DOMAIN cached : Settled(cached[n])'
    BY <1>2, <2>1 DEF Settled, UnderWay, Sound
  <2> QED
    BY <1>1, <2>1, <2>2, ScoreAlone
<1>10. CASE Expire
  <2>1. /\ UNCHANGED <<cached, main, topic, aged>>
        /\ gone' \in (gone + 1) .. Len(topic)
    BY <1>10 DEF Expire, mainVars
  <2>2. gone' \in Nat /\ gone < gone'
    BY <1>1, <2>1
  <2>3. ASSUME Subscribed(main), NEW n \in DOMAIN cached
        PROVE  Settled(cached[n])' \/ UnderWay(cached[n])'
    <3>1. CASE Settled(cached[n])
      BY <2>1, <3>1 DEF Settled
    <3>2. CASE UnderWay(cached[n]) /\ main.done < gone'
      BY <2>1, <3>2 DEF UnderWay
    <3>3. CASE UnderWay(cached[n]) /\ ~(main.done < gone')
      <4>1. main.done \in Nat /\ main.planned \in Nat
        BY <1>1, <2>3, SoundCheckpoints DEF Sound
      <4>2. \A i \in (main.done + 1) .. main.planned : i > gone /\ i > gone'
        BY <1>1, <2>2, <3>3, <4>1
      <4>3. ValidRows(main)' = ValidRows(main)
        BY <2>1, <4>2 DEF ValidRows, Corrupt
      <4>4. ~(main.done < gone)
        BY <1>1, <2>2, <3>3, <4>1
      <4> QED
        BY <2>1, <3>3, <4>3, <4>4 DEF UnderWay
    <3> QED
      BY <1>2, <2>3, <3>1, <3>2, <3>3
  <2> QED
    BY <1>1, <2>1, <2>2, <2>3, ScoreAlone DEF Subscribed
<1> QED
  <2>1. CASE \/ DlqStep \/ ProcessStep \/ Die
             \/ PushDrift \/ ScoreNothing \/ PushDegradation \/ UNCHANGED vars
    BY <1>3, <1>6, <2>1 DEF DlqStep, ProcessStep, BeginDlq, WriteDeadLetter, CommitDlq,
       StartMainQuery, StartDlqQuery, SubscribeDlq, Die, PushDrift, ScoreNothing,
       PushDegradation, mainVars, topicVars, vars
  <2> QED
    BY <1>4, <1>5, <1>7, <1>8, <1>9, <1>10, <2>1 DEF Next, World, MainStep

(* Replays, deaths and lost checkpoints never put the score of an earlier   *)
(* batch into the cache again, nor raise the score of a replayed batch as   *)
(* long as Kafka has deleted none of its events.                            *)
THEOREM CachedScoresMoveOn == Spec => []ScoresMoveOn
<1>1. Init => ScoreOrder
  <2>1. Init => DOMAIN cached = {}
    BY DEF Init
  <2> QED
    BY <2>1 DEF ScoreOrder, ScoresMoveOn
<1> QED
  BY <1>1, InitTypes, NextTypes, NextScoreOrder, PTL DEF Spec, ScoreOrder
-----------------------------------------------------------------------------
(* Without _corrupt_record in the schema.                                   *)

(* Neither query ever runs, and nothing reaches Redis or the dead-letter    *)
(* topic.                                                                   *)
NothingStreams ==
    /\ spark = "down" /\ stage = "idle" /\ cursor = Idle
    /\ ~Subscribed(main) /\ ~Subscribed(dlq)
    /\ alerts = <<>> /\ cached = <<>> /\ dead = <<>>

(* With the schema of spark_consumer.py, which does not name the column     *)
(* _corrupt_record, no event is ever alerted, scored or routed, however     *)
(* many arrive and however often the process is started: what               *)
(* InvalidEventsRouted asks for fails whatever the bounds.                  *)
THEOREM ShippedSchemaStreamsNothing ==
    ASSUME ~CorruptColumn
    PROVE  Spec => []NothingStreams
<1>1. Init => NothingStreams
  BY DEF Init, NothingStreams, Subscribed, NoCheckpoint
<1>2. NothingStreams /\ [Next]_vars => NothingStreams'
  <2> SUFFICES ASSUME NothingStreams, [Next]_vars
               PROVE  NothingStreams'
    OBVIOUS
  <2>1. CASE ProducerStep \/ Foreign \/ Expire \/ UNCHANGED vars
    BY <2>1 DEF NothingStreams, ProducerStep, Produce, Persist, Acknowledge, DeliveryFails,
       StopSimulator, GiveUpFlush, ArriveLate, Foreign, Expire, Upstream, Subscribed,
       mainVars, dlqVars, vars
  <2>2. ~(ProcessStep \/ MainStep \/ DlqStep \/ Die \/ HostLost)
    BY DEF NothingStreams, ProcessStep, StartMainQuery, StartDlqQuery, SubscribeMain,
       SubscribeDlq, MainStep, BeginBatch, PushDrift, PublishScore, ScoreNothing,
       PushDegradation, CommitBatch, DlqStep, BeginDlq, WriteDeadLetter, CommitDlq, Die,
       HostLost
  <2> QED
    BY <2>1, <2>2 DEF Next, World
<1> QED
  BY <1>1, <1>2, PTL DEF Spec
-----------------------------------------------------------------------------
(* Delivery.  Each query implements AtLeastOnce with its own checkpoint.    *)

(* An event joins the topic: one of the two queries has one record more.    *)
LEMMA EventAppended ==
    ASSUME StreamTypeOK, NEW e \in EventType, topic' = Append(topic, e), gone' = gone
    PROVE  /\ Len(topic) \in Nat /\ Len(topic') = Len(topic) + 1
           /\ OrderEvents \subseteq 1 .. Len(topic) /\ CorruptEvents \subseteq 1 .. Len(topic)
           /\ OrderEvents' = OrderEvents \cup (IF e.kind = "corrupt" THEN {} ELSE {Len(topic) + 1})
           /\ CorruptEvents' = CorruptEvents
                 \cup (IF e.kind = "corrupt" THEN {Len(topic) + 1} ELSE {})
<1>1. topic \in Seq(EventType)
  BY DEF StreamTypeOK
<1>2. /\ DOMAIN topic' = DOMAIN topic \cup {Len(topic) + 1} /\ Len(topic) + 1 \notin DOMAIN topic
      /\ Len(topic') = Len(topic) + 1 /\ topic'[Len(topic) + 1] = e
      /\ \A n \in DOMAIN topic : topic'[n] = topic[n]
  BY <1>1, Appended
<1>3. Len(topic) \in Nat /\ DOMAIN topic = 1 .. Len(topic)
  BY <1>1
<1>4. Len(topic) + 1 > gone
  BY <1>3 DEF StreamTypeOK
<1>5. OrderEvents' = OrderEvents \cup (IF e.kind = "corrupt" THEN {} ELSE {Len(topic) + 1})
  BY <1>2, <1>4 DEF OrderEvents, Corrupt
<1>6. CorruptEvents' = CorruptEvents
         \cup (IF e.kind = "corrupt" THEN {Len(topic) + 1} ELSE {})
  BY <1>2, <1>4 DEF CorruptEvents, Corrupt
<1> QED
  BY <1>2, <1>3, <1>5, <1>6 DEF OrderEvents, CorruptEvents

(* No alert speaks of events that have not arrived.                         *)
AlertsWithin == \A n \in DOMAIN alerts : alerts[n].upto <= Len(topic)

LEMMA NextAlertsWithin == StreamTypes /\ AlertsWithin /\ [Next]_vars => AlertsWithin'
<1> SUFFICES ASSUME StreamTypes, AlertsWithin, [Next]_vars
             PROVE  AlertsWithin'
  OBVIOUS
<1>1. /\ StreamTypeOK /\ Len(topic) \in Nat /\ alerts \in Seq(AlertType)
      /\ \A n \in DOMAIN alerts : alerts[n].upto \in Int
  <2>1. StreamTypeOK
    BY DEF StreamTypes
  <2>2. alerts \in Seq(AlertType) /\ topic \in Seq(EventType)
    BY <2>1 DEF StreamTypeOK
  <2>3. \A n \in DOMAIN alerts : alerts[n] \in AlertType
    BY <2>2, ListOps
  <2>4. ASSUME NEW n \in DOMAIN alerts PROVE alerts[n].upto \in Int
    BY <2>3 DEF AlertType
  <2>5. Len(topic) \in Nat
    BY <2>2
  <2> QED
    BY <2>1, <2>2, <2>4, <2>5
<1>2. CASE ProducerStep \/ Foreign
  <2>1. /\ UNCHANGED <<gone, alerts>>
        /\ topic' = topic \/ \E e \in EventType : topic' = Append(topic, e)
    BY <1>2, EventsArrive DEF mainVars
  <2>2. Len(topic') \in Nat /\ Len(topic) <= Len(topic')
    BY <1>1, <2>1, EventAppended
  <2> QED
    BY <1>1, <2>1, <2>2 DEF AlertsWithin
<1>3. ASSUME NEW a \in {DriftAlert, DegradationAlert}, stage # "idle", alerts' = Append(alerts, a),
             topic' = topic
      PROVE  AlertsWithin'
  <2>1. a \in AlertType /\ a.upto = main.planned
    BY <1>3, AlertTypes DEF DriftAlert, DegradationAlert
  <2>2. main.planned <= Len(topic)
    BY <1>1, <1>3, SoundCheckpoints DEF StreamTypes, AtWork, Sound
  <2>3. /\ DOMAIN alerts' = DOMAIN alerts \cup {Len(alerts) + 1}
        /\ alerts'[Len(alerts) + 1] = a
        /\ \A n \in DOMAIN alerts : alerts'[n] = alerts[n]
    BY <1>1, <1>3, <2>1, Appended
  <2> QED
    BY <1>3, <2>1, <2>2, <2>3 DEF AlertsWithin
<1>4. CASE PushDrift \/ PushDegradation
  BY <1>3, <1>4 DEF PushDrift, PushDegradation, topicVars
<1>5. CASE \/ BeginBatch \/ PublishScore \/ ScoreNothing \/ CommitBatch \/ DlqStep
           \/ ProcessStep \/ Expire \/ Die \/ HostLost \/ UNCHANGED vars
  <2>1. UNCHANGED <<topic, alerts>>
    BY <1>5 DEF BeginBatch, PublishScore, ScoreNothing, CommitBatch, DlqStep, BeginDlq,
       WriteDeadLetter, CommitDlq, ProcessStep, StartMainQuery, StartDlqQuery, SubscribeMain,
       SubscribeDlq, Expire, Die, HostLost, topicVars, mainVars, vars
  <2> QED
    BY <2>1 DEF AlertsWithin
<1> QED
  BY <1>2, <1>4, <1>5 DEF Next, MainStep, World

(* The records whose effect has taken place, for each query.                *)
MainHandled == {i \in OrderEvents : Pushed("schema_drift", i)}
DlqHandled  == {i \in CorruptEvents : Written(i)}

LEMMA DlqStutters ==
    ASSUME UNCHANGED <<topic, gone, dead>>, dlq'.start = dlq.start, dlq'.done = dlq.done
    PROVE  UNCHANGED DlqDelivery!vars
<1>1. CorruptEvents' = CorruptEvents /\ DlqHandled' = DlqHandled
  BY DEF CorruptEvents, Corrupt, DlqHandled, Written
<1> QED
  BY <1>1 DEF DlqDelivery!vars, DlqHandled, Written

LEMMA MainStutters ==
    ASSUME UNCHANGED <<topic, gone, alerts>>, main'.start = main.start, main'.done = main.done
    PROVE  UNCHANGED MainDelivery!vars
<1>1. OrderEvents' = OrderEvents /\ MainHandled' = MainHandled
  BY DEF OrderEvents, Corrupt, MainHandled, Pushed
<1> QED
  BY <1>1 DEF MainDelivery!vars, MainHandled

LEMMA EventsDelivered ==
    ASSUME StreamTypes, AlertsWithin, DeadLetters, NEW e \in EventType,
           topic' = Append(topic, e), UNCHANGED <<gone, mainVars, dlqVars>>
    PROVE  MainDelivery!Arrive /\ DlqDelivery!Arrive
<1>1. /\ Len(topic) \in Nat /\ Len(topic') = Len(topic) + 1
      /\ OrderEvents \subseteq 1 .. Len(topic) /\ CorruptEvents \subseteq 1 .. Len(topic)
      /\ OrderEvents' = OrderEvents \cup (IF e.kind = "corrupt" THEN {} ELSE {Len(topic) + 1})
      /\ CorruptEvents' = CorruptEvents
            \cup (IF e.kind = "corrupt" THEN {Len(topic) + 1} ELSE {})
  BY EventAppended DEF StreamTypes
<1>2. ~Written(Len(topic) + 1)
  <2>1. DOMAIN topic = 1 .. Len(topic)
    BY DEF StreamTypes, StreamTypeOK
  <2>2. Len(topic) + 1 \notin DOMAIN topic
    BY <1>1, <2>1
  <2> QED
    BY <2>2 DEF Written, DeadLetters, DeadLettersComplete
<1>3. \A i : Written(i)' <=> Written(i)
  BY DEF Written, dlqVars
<1>4. DlqHandled' = DlqHandled
  BY <1>1, <1>2, <1>3 DEF DlqHandled
<1>5. DlqDelivery!Arrive
  BY <1>1, <1>4 DEF DlqDelivery!Arrive, DlqHandled, Written, dlqVars
<1>6. ~Pushed("schema_drift", Len(topic) + 1)
  <2>1. \A n \in DOMAIN alerts : alerts[n] \in AlertType
    BY ListOps DEF StreamTypes, StreamTypeOK
  <2>2. \A n \in DOMAIN alerts : alerts[n].upto \in Int /\ alerts[n].upto <= Len(topic)
    BY <2>1 DEF AlertType, AlertsWithin
  <2> QED
    BY <1>1, <2>2 DEF Pushed, Covers
<1>7. \A i : Pushed("schema_drift", i)' <=> Pushed("schema_drift", i)
  BY DEF Pushed, mainVars
<1>8. MainHandled' = MainHandled
  BY <1>1, <1>6, <1>7 DEF MainHandled
<1>9. MainDelivery!Arrive
  BY <1>1, <1>8 DEF MainDelivery!Arrive, MainHandled, mainVars
<1> QED
  BY <1>5, <1>9

(* What Kafka deletes is taken out of what was promised and of what is done.*)
LEMMA ExpiryDelivered ==
    ASSUME StreamTypes, Expire
    PROVE  MainDelivery!Expire /\ DlqDelivery!Expire
<1>1. /\ UNCHANGED <<topic, main, alerts, dlq, dead>> /\ gone \in Nat /\ Len(topic) \in Nat
      /\ gone' \in (gone + 1) .. Len(topic) /\ DOMAIN topic = 1 .. Len(topic)
  BY DEF Expire, mainVars, dlqVars, StreamTypes, StreamTypeOK
<1>2. \A i \in DOMAIN topic : i > gone' => i > gone
  BY <1>1
<1>3. OrderEvents' \subseteq OrderEvents /\ CorruptEvents' \subseteq CorruptEvents
  BY <1>1, <1>2 DEF OrderEvents, CorruptEvents, Corrupt
<1>4. \A i : /\ Pushed("schema_drift", i)' <=> Pushed("schema_drift", i)
             /\ Written(i)' <=> Written(i)
  BY <1>1 DEF Pushed, Written
<1>5. MainHandled' = MainHandled \cap OrderEvents' /\ DlqHandled' = DlqHandled \cap CorruptEvents'
  BY <1>3, <1>4 DEF MainHandled, DlqHandled
<1>6. MainDelivery!Expire
  BY <1>1, <1>3, <1>5 DEF MainDelivery!Expire, MainHandled
<1>7. DlqDelivery!Expire
  BY <1>1, <1>3, <1>5 DEF DlqDelivery!Expire, DlqHandled, Written
<1> QED
  BY <1>6, <1>7

LEMMA DriftDelivered ==
    ASSUME StreamTypes, PushDrift
    PROVE  MainDelivery!Handle
<1>1. Subscribed(main) /\ Sound(main) /\ stage # "idle"
  BY SoundCheckpoints DEF StreamTypes, AtWork, PushDrift
<1>2. /\ alerts \in Seq(AlertType) /\ DriftAlert \in AlertType /\ alerts' = Append(alerts, DriftAlert)
      /\ UNCHANGED <<topic, gone, main>> /\ DOMAIN topic = 1 .. Len(topic)
  BY <1>1, AlertTypes DEF StreamTypes, StreamTypeOK, PushDrift, topicVars
<1>3. /\ DOMAIN alerts' = DOMAIN alerts \cup {Len(alerts) + 1}
      /\ alerts'[Len(alerts) + 1] = DriftAlert
      /\ \A n \in DOMAIN alerts : alerts'[n] = alerts[n]
  BY <1>2, Appended
<1>4. \A i : Pushed("schema_drift", i)' <=> Pushed("schema_drift", i) \/ Covers(DriftAlert, i)
  BY <1>3 DEF Pushed, DriftAlert
<1>5. ValidRows(main) \subseteq {i \in OrderEvents : main.done < i}
  BY <1>1, <1>2, BatchRows DEF ValidRows, OrderEvents
<1>6. \A i \in OrderEvents : Covers(DriftAlert, i) <=> i \in ValidRows(main)
  BY <1>1, <1>2 DEF Covers, DriftAlert, OrderEvents, ValidRows, Sound
<1>7. OrderEvents' = OrderEvents
  BY <1>2 DEF OrderEvents, Corrupt
<1>8. MainHandled' = MainHandled \cup ValidRows(main)
  BY <1>4, <1>5, <1>6, <1>7 DEF MainHandled
<1>9. main.start # NoCheckpoint.done
  BY <1>1 DEF Subscribed, NoCheckpoint
<1>10. \E some \in SUBSET {i \in OrderEvents : main.done < i} : MainHandled' = MainHandled \cup some
  BY <1>5, <1>8
<1> QED
  BY <1>2, <1>7, <1>9, <1>10 DEF MainDelivery!Handle, MainHandled

LEMMA CommitDelivered ==
    ASSUME StreamTypes, Batches, CommitBatch
    PROVE  MainDelivery!Commit
<1>1. Subscribed(main) /\ Sound(main) /\ stage = "commit"
  BY SoundCheckpoints DEF StreamTypes, AtWork, CommitBatch
<1>2. /\ main'.start = main.start /\ main'.done = main.planned
      /\ UNCHANGED <<topic, gone, alerts>>
      /\ Len(topic) \in Nat /\ DOMAIN topic = 1 .. Len(topic)
  <2>1. topic \in Seq(EventType)
    BY DEF StreamTypes, StreamTypeOK
  <2>2. Len(topic) \in Nat /\ DOMAIN topic = 1 .. Len(topic)
    BY <2>1
  <2>3. main' = Committed(main) /\ UNCHANGED <<topic, gone, alerts>>
    BY DEF CommitBatch, topicVars
  <2> QED
    BY <1>1, <2>2, <2>3, CheckpointOps
<1>3. main.planned \in main.done .. Len(topic)
  BY <1>1, <1>2 DEF Sound
<1>4. {i \in OrderEvents : main.done < i /\ i <= main.planned} \subseteq MainHandled
  <2>1. \A i \in OrderEvents : main.done < i /\ i <= main.planned => i \in ValidRows(main)
    BY <1>1, <1>2 DEF OrderEvents, ValidRows, Sound
  <2> QED
    BY <1>1, <2>1 DEF Batches, MainHandled
<1>5. OrderEvents' = OrderEvents /\ MainHandled' = MainHandled
  BY <1>2 DEF OrderEvents, Corrupt, MainHandled, Pushed
<1>6. main.start # NoCheckpoint.done
  BY <1>1 DEF Subscribed, NoCheckpoint
<1> QED
  BY <1>2, <1>3, <1>4, <1>5, <1>6 DEF MainDelivery!Commit, MainHandled

LEMMA LetterDelivered ==
    ASSUME StreamTypes, WriteDeadLetter
    PROVE  DlqDelivery!Handle
<1>1. Subscribed(dlq) /\ Sound(dlq)
  BY SoundCheckpoints DEF StreamTypes, AtWork, WriteDeadLetter
<1>2. PICK i \in LeftToWrite : dead' = Append(dead, i)
  BY DEF WriteDeadLetter
<1>3. /\ dead \in Seq(Nat) /\ DOMAIN topic = 1 .. Len(topic) /\ UNCHANGED <<topic, gone, dlq>>
  BY DEF StreamTypes, StreamTypeOK, WriteDeadLetter, topicVars
<1>4. i \in Nat /\ i \in DOMAIN topic /\ i > gone /\ Corrupt(i) /\ dlq.done < i
  BY <1>1, <1>2, <1>3, BatchRows DEF LeftToWrite, CorruptRows
<1>5. /\ DOMAIN dead' = DOMAIN dead \cup {Len(dead) + 1} /\ dead'[Len(dead) + 1] = i
      /\ \A n \in DOMAIN dead : dead'[n] = dead[n]
  BY <1>2, <1>3, <1>4, Appended
<1>6. \A j : Written(j)' <=> Written(j) \/ j = i
  BY <1>5 DEF Written
<1>7. {i} \in SUBSET {j \in CorruptEvents : dlq.done < j}
  BY <1>4 DEF CorruptEvents
<1>8. CorruptEvents' = CorruptEvents
  BY <1>3 DEF CorruptEvents, Corrupt
<1>11. DlqHandled' = DlqHandled \cup {i}
  BY <1>6, <1>7, <1>8 DEF DlqHandled
<1>9. dlq.start # NoCheckpoint.done
  BY <1>1 DEF Subscribed, NoCheckpoint
<1>10. \E some \in SUBSET {j \in CorruptEvents : dlq.done < j} :
          DlqHandled' = DlqHandled \cup some
  BY <1>7, <1>11
<1> QED
  BY <1>3, <1>8, <1>9, <1>10 DEF DlqDelivery!Handle, DlqHandled, Written

LEMMA DlqCommitDelivered ==
    ASSUME StreamTypes, DeadLetters, CommitDlq
    PROVE  DlqDelivery!Commit
<1>1. Subscribed(dlq) /\ Sound(dlq) /\ cursor # Idle /\ cursor \in Int /\ LeftToWrite = {}
  BY SoundCheckpoints DEF StreamTypes, StreamTypeOK, AtWork, CommitDlq
<1>2. /\ dlq'.start = dlq.start /\ dlq'.done = dlq.planned
      /\ UNCHANGED <<topic, gone, dead>>
      /\ Len(topic) \in Nat /\ DOMAIN topic = 1 .. Len(topic)
  <2>1. topic \in Seq(EventType)
    BY DEF StreamTypes, StreamTypeOK
  <2>2. Len(topic) \in Nat /\ DOMAIN topic = 1 .. Len(topic)
    BY <2>1
  <2>3. dlq' = Committed(dlq) /\ UNCHANGED <<topic, gone, dead>>
    BY DEF CommitDlq, topicVars
  <2> QED
    BY <1>1, <2>2, <2>3, CheckpointOps
<1>3. dlq.planned \in dlq.done .. Len(topic)
  BY <1>1, <1>2 DEF Sound
<1>4. {i \in CorruptEvents : dlq.done < i /\ i <= dlq.planned} \subseteq DlqHandled
  <2>1. ASSUME NEW i \in CorruptEvents, dlq.done < i, i <= dlq.planned
        PROVE  Written(i)
    <3>1. i \in CorruptRows(dlq) /\ i \in Nat
      BY <1>1, <1>2, <2>1 DEF CorruptEvents, CorruptRows, Sound
    <3>2. i <= cursor
      BY <1>1, <3>1 DEF LeftToWrite
    <3> QED
      BY <1>1, <3>1, <3>2 DEF DeadLetters
  <2> QED
    BY <2>1 DEF DlqHandled
<1>5. CorruptEvents' = CorruptEvents /\ DlqHandled' = DlqHandled
  BY <1>2 DEF CorruptEvents, Corrupt, DlqHandled, Written
<1>6. dlq.start # NoCheckpoint.done
  BY <1>1 DEF Subscribed, NoCheckpoint
<1> QED
  BY <1>2, <1>3, <1>4, <1>5, <1>6 DEF DlqDelivery!Commit, DlqHandled, Written

LEMMA MainDelivered ==
    ASSUME StreamTypes, Batches, DeadLetters, AlertsWithin, [Next]_vars
    PROVE  [MainDelivery!Next]_(MainDelivery!vars)
<1> USE DEF MainDelivery!Next
<1>1. CASE ProducerStep \/ Foreign
  BY <1>1, EventsArrive, EventsDelivered, MainStutters DEF mainVars
<1>2. CASE BeginBatch
  <2>1. main'.start = main.start /\ main'.done = main.done
    BY <1>2, SoundCheckpoints, CheckpointOps DEF BeginBatch, StreamTypes
  <2> QED
    BY <1>2, <2>1, MainStutters DEF BeginBatch, topicVars
<1>3. CASE PushDegradation
  <2>1. alerts \in Seq(AlertType) /\ DegradationAlert \in AlertType
    BY <1>3, AlertTypes DEF StreamTypes, StreamTypeOK, PushDegradation
  <2>2. /\ DOMAIN alerts' = DOMAIN alerts \cup {Len(alerts) + 1}
        /\ alerts'[Len(alerts) + 1] = DegradationAlert
        /\ \A n \in DOMAIN alerts : alerts'[n] = alerts[n]
    BY <1>3, <2>1, Appended DEF PushDegradation
  <2>3. \A i : Pushed("schema_drift", i)' <=> Pushed("schema_drift", i)
    BY <2>2 DEF Pushed, DegradationAlert
  <2>4. OrderEvents' = OrderEvents /\ MainHandled' = MainHandled
    BY <1>3, <2>3 DEF PushDegradation, OrderEvents, Corrupt, MainHandled, topicVars
  <2> QED
    BY <1>3, <2>4 DEF PushDegradation, MainDelivery!vars, MainHandled, topicVars
<1>4. CASE SubscribeMain
  <2>1. OrderEvents' = OrderEvents /\ MainHandled' = MainHandled
    BY <1>4 DEF SubscribeMain, OrderEvents, Corrupt, MainHandled, Pushed, topicVars
  <2> QED
    BY <1>4, <2>1 DEF SubscribeMain, Subscribed, Latest, NoCheckpoint, MainDelivery!Subscribe,
       MainHandled, topicVars
<1>5. CASE HostLost
  <2>1. OrderEvents' = OrderEvents /\ MainHandled' = MainHandled
    BY <1>5 DEF HostLost, OrderEvents, Corrupt, MainHandled, Pushed, topicVars
  <2> QED
    BY <1>5, <2>1 DEF HostLost, NoCheckpoint, MainDelivery!Forget, MainHandled, topicVars
<1>6. CASE \/ PublishScore \/ ScoreNothing \/ DlqStep \/ StartMainQuery \/ StartDlqQuery
           \/ SubscribeDlq \/ Die \/ UNCHANGED vars
  <2>1. UNCHANGED <<topic, gone, alerts, main>>
    BY <1>6 DEF PublishScore, ScoreNothing, DlqStep, BeginDlq, WriteDeadLetter, CommitDlq,
       StartMainQuery, StartDlqQuery, SubscribeDlq, Die, mainVars, topicVars, vars
  <2> QED
    BY <2>1, MainStutters
<1> QED
  BY <1>1, <1>2, <1>3, <1>4, <1>5, <1>6, DriftDelivered, CommitDelivered, ExpiryDelivered
  DEF Next, MainStep, ProcessStep, World

LEMMA DlqDelivered ==
    ASSUME StreamTypes, DeadLetters, AlertsWithin, [Next]_vars
    PROVE  [DlqDelivery!Next]_(DlqDelivery!vars)
<1> USE DEF DlqDelivery!Next
<1>1. CASE ProducerStep \/ Foreign
  BY <1>1, EventsArrive, EventsDelivered, DlqStutters DEF dlqVars
<1>2. CASE BeginDlq
  <2>1. dlq'.start = dlq.start /\ dlq'.done = dlq.done /\ UNCHANGED <<topic, gone, dead>>
    BY <1>2, SoundCheckpoints, CheckpointOps DEF BeginDlq, StreamTypes, topicVars
  <2> QED
    BY <2>1, DlqStutters
<1>3. CASE SubscribeDlq
  <2>1. CorruptEvents' = CorruptEvents /\ DlqHandled' = DlqHandled
    BY <1>3 DEF SubscribeDlq, CorruptEvents, Corrupt, DlqHandled, Written, topicVars
  <2> QED
    BY <1>3, <2>1 DEF SubscribeDlq, Subscribed, Latest, NoCheckpoint, DlqDelivery!Subscribe,
       DlqHandled, Written, topicVars
<1>4. CASE HostLost
  <2>1. CorruptEvents' = CorruptEvents /\ DlqHandled' = DlqHandled
    BY <1>4 DEF HostLost, CorruptEvents, Corrupt, DlqHandled, Written, topicVars
  <2> QED
    BY <1>4, <2>1 DEF HostLost, NoCheckpoint, DlqDelivery!Forget, DlqHandled, Written, topicVars
<1>5. CASE MainStep \/ StartMainQuery \/ StartDlqQuery \/ SubscribeMain \/ Die \/ UNCHANGED vars
  <2>1. UNCHANGED <<topic, gone, dlq, dead>>
    BY <1>5 DEF MainStep, BeginBatch, PushDrift, PublishScore, ScoreNothing, PushDegradation,
       CommitBatch, StartMainQuery, StartDlqQuery, SubscribeMain, Die, dlqVars, topicVars, vars
  <2> QED
    BY <2>1, DlqStutters
<1> QED
  BY <1>1, <1>2, <1>3, <1>4, <1>5, LetterDelivered, DlqCommitDelivered, ExpiryDelivered
  DEF Next, DlqStep, ProcessStep, World

(* Both queries implement AtLeastOnce: whatever dies, is replayed or loses  *)
(* its checkpoint, nothing that Kafka still has is committed before its     *)
(* effect has taken place and nothing committed is worked on again.         *)
THEOREM StreamDeliversAtLeastOnce == Spec => StreamDelivers
<1> DEFINE Known == StreamTypes /\ Batches /\ DeadLetters /\ AlertsWithin
<1>1. Init => MainDelivery!Init /\ DlqDelivery!Init
  BY DEF Init, MainDelivery!Init, DlqDelivery!Init, NoCheckpoint, OrderEvents, CorruptEvents
<1>2. Init => Known
  <2>1. Init => AlertsWithin
    BY DEF Init, AlertsWithin
  <2> QED
    BY <2>1, InitTypes, InitBatches, InitDeadLetters
<1>3. Known /\ [Next]_vars => Known'
  BY NextTypes, NextBatches, NextDeadLetters, NextAlertsWithin
<1>4. Known /\ [Next]_vars
         => [MainDelivery!Next]_(MainDelivery!vars) /\ [DlqDelivery!Next]_(DlqDelivery!vars)
  BY MainDelivered, DlqDelivered
<1> QED
  BY <1>1, <1>2, <1>3, <1>4, PTL DEF Spec, StreamDelivers, MainDelivery!Spec, DlqDelivery!Spec
=============================================================================
