--------------------------- MODULE AlertFeedProofs ---------------------------
(***************************************************************************)
(* Theorems about AlertFeed, for every number of workers, alerts, tenants   *)
(* and dashboards.                                                          *)
(*                                                                         *)
(* To the workers an alert a dashboard popped is a lost one.  Bar is the    *)
(* worker with that outcome in place of the true one, and what              *)
(* AlertWorkerProofs shows of the worker holds of it.                       *)
(***************************************************************************)
EXTENDS AlertFeed, AlertWorkerProofs

(* The alerts the dashboards have or had.                                   *)
Gone ==
    {a \in Alerts : a \in discarded \/ \E f \in Feeds : a = parcel[f] \/ a \in shown[f]}

SeenOutcome == [a \in Alerts |-> IF a \in Gone THEN "lost" ELSE outcome[a]]

Bar == INSTANCE AlertWorkerProofs WITH outcome <- SeenOutcome

LEMMA BarConserved ==
    ASSUME Bar!TypeOK, Bar!Conserved, [Bar!Next]_Bar!vars
    PROVE  Bar!Conserved'
BY Bar!NextConserved, AlertWorkerAssumption
DEF AlertWorkerAssumption, EventKinds, Bar!EventKinds

LEMMA BarTypeOK == TypeOK => Bar!TypeOK
BY DEF TypeOK, Bar!TypeOK, SeenOutcome, Outcomes, Bar!Outcomes, Lists, Bar!Lists,
       Breakers, Bar!Breakers, BreakerAges, Bar!BreakerAges, SeenAges, Bar!SeenAges

LEMMA SameCustody ==
    /\ \A s : Bar!ToSet(s) = ToSet(s)
    /\ \A w : Bar!Custody(w) = Custody(w)
<1>1. \A s : Bar!ToSet(s) = ToSet(s)
  BY DEF Bar!ToSet, ToSet
<1> QED
  BY <1>1 DEF Bar!Custody, Custody

(* The dashboards' alerts are not on the list and with no worker.           *)
LEMMA GoneIsGone ==
    ASSUME Bar!Conserved, NEW a \in Gone
    PROVE  a \in published /\ a \notin ToSet(queue) /\ \A w \in Workers : a \notin Custody(w)
<1>1. a \in Alerts /\ SeenOutcome[a] = "lost"
  BY DEF Gone, SeenOutcome
<1> QED
  BY <1>1, SameCustody DEF Bar!Conserved, Bar!CustodyExclusive, Bar!CustodyComplete

-----------------------------------------------------------------------------
(* A step of a worker is one of Bar.                                        *)

(* What a worker step leaves to the dashboards.                             *)
Theirs == Gone' = Gone /\ \A a \in Gone : outcome'[a] = outcome[a]

LEMMA SettledSeen ==
    ASSUME TypeOK, Gone' = Gone, NEW h \in Alerts \ Gone, NEW result,
           outcome' = [outcome EXCEPT ![h] = result]
    PROVE  Theirs /\ SeenOutcome' = [SeenOutcome EXCEPT ![h] = result]
<1>1. \A a \in Alerts : outcome'[a] = IF a = h THEN result ELSE outcome[a]
  BY DEF TypeOK
<1>2. SeenOutcome' = [a \in Alerts |-> IF a \in Gone THEN "lost" ELSE outcome'[a]]
  BY DEF SeenOutcome
<1>3. [SeenOutcome EXCEPT ![h] = result]
        = [a \in Alerts |-> IF a = h THEN result ELSE IF a \in Gone THEN "lost" ELSE outcome[a]]
  BY DEF SeenOutcome
<1>4. Gone \subseteq Alerts
  BY DEF Gone
<1> QED
  BY <1>1, <1>2, <1>3, <1>4 DEF Theirs

LEMMA StoppedSeen ==
    ASSUME TypeOK, Bar!Conserved, Gone' = Gone, NEW w \in Workers, StopProcess(w)
    PROVE  Theirs /\ Bar!StopProcess(w)
<1>1. PICK delivered \in SUBSET (failing[w] \cup
                                 {a \in Alerts : a = hand[w] /\ pc[w] = "degrading"}) :
        outcome' = [a \in Alerts |->
            IF a \notin Custody(w) THEN outcome[a]
            ELSE IF a \notin delivered THEN "lost"
            ELSE IF a \in failing[w] THEN "failed" ELSE "degraded"]
  BY DEF StopProcess
<1>2. \A a \in Gone : a \in Alerts /\ a \notin Custody(w)
  BY GoneIsGone DEF Gone
<1>3. SeenOutcome' = [a \in Alerts |-> IF a \in Gone THEN "lost" ELSE outcome'[a]]
  BY DEF SeenOutcome
<1>4. SeenOutcome' = [a \in Alerts |->
            IF a \notin Custody(w) THEN SeenOutcome[a]
            ELSE IF a \notin delivered THEN "lost"
            ELSE IF a \in failing[w] THEN "failed" ELSE "degraded"]
  BY <1>1, <1>2, <1>3 DEF SeenOutcome
<1>5. Theirs
  BY <1>1, <1>2 DEF Theirs
<1>6. \E d \in SUBSET (failing[w] \cup
                          {a \in Alerts : a = hand[w] /\ pc[w] = "degrading"}) :
          SeenOutcome' = [a \in Alerts |->
              IF a \notin Bar!Custody(w) THEN SeenOutcome[a]
              ELSE IF a \notin d THEN "lost"
              ELSE IF a \in failing[w] THEN "failed" ELSE "degraded"]
  BY <1>4, SameCustody
<1>7. Bar!StopProcess(w)
  BY <1>6 DEF StopProcess, Bar!StopProcess, NewBreaker, Bar!NewBreaker, queueVars,
              Bar!queueVars
<1> QED
  BY <1>5, <1>7

LEMMA PutDownSeen ==
    ASSUME TypeOK, Bar!Conserved, Gone' = Gone, NEW w \in Workers, NEW result, NEW next,
           hand[w] # NoAlert, PutDown(w, result, next)
    PROVE  Theirs /\ Bar!PutDown(w, result, next)
<1>1. hand[w] \in Alerts /\ hand[w] \in Custody(w)
  BY DEF TypeOK, Custody
<1>2. hand[w] \notin Gone
  BY <1>1, GoneIsGone
<1> QED
  BY <1>1, <1>2, SettledSeen DEF PutDown, Bar!PutDown

LEMMA QuietSeen ==
    ASSUME Gone' = Gone, UNCHANGED outcome
    PROVE  Theirs /\ UNCHANGED SeenOutcome
BY DEF Theirs, SeenOutcome

LEMMA LoopBar ==
    ASSUME TypeOK, Bar!Conserved, Gone' = Gone, NEW w \in Workers, Loop(w)
    PROVE  Theirs /\ Bar!Loop(w)
<1> USE DEF queueVars, taskVars, dedupVars, loopVars,
            Bar!queueVars, Bar!taskVars, Bar!dedupVars, Bar!loopVars
<1>1. CASE LoopTop(w)
  BY <1>1, QuietSeen DEF LoopTop, Bar!LoopTop, CleanupExpired, Bar!CleanupExpired, Bar!Loop
<1>2. CASE PollTimeout(w) \/ Pop(w) \/ Wake(w)
  BY <1>2, QuietSeen DEF PollTimeout, Bar!PollTimeout, Pop, Bar!Pop, Wake, Bar!Wake, Bar!Loop
<1>3. CASE Discard(w) \/ DropDuplicate(w) \/ DegradedPush(w)
  <2>1. hand[w] # NoAlert
    BY <1>3 DEF Discard, DropDuplicate, DegradedPush, Wellformed, TypeOK
  <2>2. CASE Discard(w)
    BY <2>1, <2>2, PutDownSeen DEF Discard, Bar!Discard, Bar!Loop
  <2>3. CASE DropDuplicate(w)
    BY <2>1, <2>3, PutDownSeen DEF DropDuplicate, Bar!DropDuplicate, Wellformed,
       Bar!Wellformed, IsDuplicate, Bar!IsDuplicate, Bar!Loop
  <2>4. CASE DegradedPush(w)
    BY <2>1, <2>4, PutDownSeen DEF DegradedPush, Bar!DegradedPush, Bar!Loop
  <2> QED
    BY <1>3, <2>2, <2>3, <2>4
<1>4. CASE Degrade(w)
  BY <1>4, QuietSeen DEF Degrade, Bar!Degrade, Wellformed, Bar!Wellformed, IsDuplicate,
     Bar!IsDuplicate, MarkSeen, Bar!MarkSeen, Refuses, Bar!Refuses, Bar!Loop
<1>5. CASE Dispatch(w)
  BY <1>5, QuietSeen DEF Dispatch, Bar!Dispatch, Wellformed, Bar!Wellformed, IsDuplicate,
     Bar!IsDuplicate, MarkSeen, Bar!MarkSeen, Refuses, Bar!Refuses, AfterIsOpen,
     Bar!AfterIsOpen, Bar!Loop
<1>6. CASE Exit(w)
  BY <1>6, StoppedSeen DEF Exit, Bar!Exit, Bar!Loop
<1> QED
  BY <1>1, <1>2, <1>3, <1>4, <1>5, <1>6 DEF Loop

LEMMA TaskSeen ==
    ASSUME TypeOK, Bar!Conserved, Gone' = Gone, NEW w \in Workers,
           NEW a \in running[w] \cup failing[w], NEW result,
           outcome' = [outcome EXCEPT ![a] = result]
    PROVE  Theirs /\ SeenOutcome' = [SeenOutcome EXCEPT ![a] = result]
<1>1. a \in Alerts /\ a \in Custody(w)
  BY DEF TypeOK, Custody
<1>2. a \notin Gone
  BY <1>1, GoneIsGone
<1> QED
  BY <1>1, <1>2, SettledSeen

LEMMA TaskBar ==
    ASSUME TypeOK, Bar!Conserved, Gone' = Gone, NEW w \in Workers, NEW a \in Alerts, Task(w, a)
    PROVE  Theirs /\ Bar!Task(w, a)
<1> USE DEF queueVars, taskVars, dedupVars, loopVars,
            Bar!queueVars, Bar!taskVars, Bar!dedupVars, Bar!loopVars, Bar!Task
<1>1. CASE ProcessOk(w, a)
  <2>1. Theirs /\ SeenOutcome' = [SeenOutcome EXCEPT ![a] = "processed"]
    BY <1>1, TaskSeen DEF ProcessOk
  <2> QED
    BY <1>1, <2>1 DEF ProcessOk, Bar!ProcessOk, RecordSuccess, Bar!RecordSuccess
<1>2. CASE ProcessError(w, a)
  BY <1>2, QuietSeen DEF ProcessError, Bar!ProcessError, RecordFailure, Bar!RecordFailure
<1>3. CASE FailedPush(w, a)
  <2>1. Theirs /\ SeenOutcome' = [SeenOutcome EXCEPT ![a] = "failed"]
    BY <1>3, TaskSeen DEF FailedPush, EndFailed
  <2> QED
    BY <1>3, <2>1 DEF FailedPush, Bar!FailedPush, EndFailed, Bar!EndFailed
<1> QED
  BY <1>1, <1>2, <1>3 DEF Task

LEMMA EnvironmentBar ==
    ASSUME TypeOK, Bar!Conserved, Gone' = Gone, NEW w \in Workers, Environment(w)
    PROVE  Theirs /\ Bar!Environment(w)
<1> USE DEF queueVars, taskVars, dedupVars, loopVars,
            Bar!queueVars, Bar!taskVars, Bar!dedupVars, Bar!loopVars, Bar!Environment
<1>1. CASE PopError(w)
  <2>1. CASE UNCHANGED <<queue, outcome>>
    BY <1>1, <2>1, QuietSeen DEF PopError, Bar!PopError
  <2>2. CASE /\ queue # <<>>
             /\ queue' = Tail(queue)
             /\ outcome' = [outcome EXCEPT ![Head(queue)] = "lost"]
    <3>1. Head(queue) \in Alerts /\ Head(queue) \in ToSet(queue)
      BY <2>2 DEF TypeOK, Lists, ToSet
    <3>2. Head(queue) \notin Gone
      BY <3>1, GoneIsGone
    <3>3. Theirs /\ SeenOutcome' = [SeenOutcome EXCEPT ![Head(queue)] = "lost"]
      BY <2>2, <3>1, <3>2, SettledSeen
    <3> QED
      BY <1>1, <2>2, <3>3 DEF PopError, Bar!PopError
  <2> QED
    BY <1>1, <2>1, <2>2 DEF PopError
<1>2. CASE DegradedPushError(w)
  <2>1. hand[w] # NoAlert
    BY <1>2 DEF DegradedPushError, TypeOK
  <2> QED
    BY <1>2, <2>1, PutDownSeen DEF DegradedPushError, Bar!DegradedPushError
<1>3. ASSUME NEW a \in Alerts, FailedPushError(w, a)
      PROVE  Theirs /\ Bar!Environment(w)
  <2>1. PICK result \in {"failed", "lost"} : EndFailed(w, a, result)
    BY <1>3 DEF FailedPushError
  <2>2. Theirs /\ SeenOutcome' = [SeenOutcome EXCEPT ![a] = result]
    BY <2>1, TaskSeen DEF EndFailed
  <2>3. Bar!EndFailed(w, a, result)
    BY <2>1, <2>2 DEF EndFailed, Bar!EndFailed
  <2> QED
    BY <1>3, <2>2, <2>3 DEF FailedPushError, Bar!FailedPushError
<1>4. CASE Signal(w) \/ Restart(w)
  BY <1>4, QuietSeen DEF Signal, Bar!Signal, Restart, Bar!Restart
<1>5. CASE Crash(w)
  BY <1>5, StoppedSeen DEF Crash, Bar!Crash
<1> QED
  BY <1>1, <1>2, <1>3, <1>4, <1>5 DEF Environment

LEMMA NextBar ==
    ASSUME TypeOK, Bar!Conserved, Gone' = Gone, Next
    PROVE  Theirs /\ Bar!Next
<1> USE DEF queueVars, taskVars, dedupVars, loopVars,
            Bar!queueVars, Bar!taskVars, Bar!dedupVars, Bar!loopVars, Bar!Next
<1>1. ASSUME NEW a \in Alerts, Publish(a) PROVE Theirs /\ Bar!Next
  BY <1>1, QuietSeen DEF Publish, Bar!Publish
<1>2. ASSUME NEW w \in Workers, Acquire(w) PROVE Theirs /\ Bar!Next
  BY <1>2, QuietSeen DEF Acquire, Bar!Acquire
<1>3. CASE Tick
  BY <1>3, QuietSeen DEF Tick, Bar!Tick, Older, Bar!Older
<1> QED
  BY <1>1, <1>2, <1>3, LoopBar, TaskBar, EnvironmentBar DEF Next

-----------------------------------------------------------------------------
(* The dashboards.                                                         *)

(* Each of their alerts is in one place and has no outcome.                 *)
Apart ==
    /\ \A a \in Gone : outcome[a] = "pending"
    /\ \A f, g \in Feeds :
          /\ parcel[f] \notin shown[g]
          /\ f # g => /\ parcel[f] \in Alerts => parcel[f] # parcel[g]
                      /\ shown[f] \cap shown[g] = {}
    /\ \A f \in Feeds : parcel[f] \notin discarded /\ shown[f] \cap discarded = {}

(* A connection sends alerts of its tenant.                                *)
Own == \A f \in Feeds : parcel[f] \in Alerts => TenantOf[parcel[f]] = SubscribedTo[f]

FeedInv == TypeOK /\ FeedTypeOK /\ Bar!Conserved /\ Apart

LEMMA FeedInitInv == FeedInit => FeedInv /\ Own /\ TenantIsolation
<1> SUFFICES ASSUME FeedInit PROVE FeedInv /\ Own /\ TenantIsolation
  OBVIOUS
<1>1. NoAlert \notin Alerts /\ Init
  BY AlertWorkerAssumption DEF FeedInit
<1>2. FeedTypeOK /\ Own /\ TenantIsolation
  BY <1>1 DEF FeedInit, FeedTypeOK, Own, TenantIsolation
<1>3. Gone = {}
  BY <1>1 DEF FeedInit, Gone
<1>4. Apart
  BY <1>1, <1>3 DEF FeedInit, Apart
<1>5. SeenOutcome = outcome
  BY <1>1, <1>3 DEF SeenOutcome, Init
<1>6. Bar!Init
  BY <1>1, <1>5 DEF Init, Bar!Init, NewBreaker, Bar!NewBreaker
<1>7. Bar!Conserved
  BY <1>6, Bar!InitConserved, AlertWorkerAssumption
  DEF AlertWorkerAssumption, EventKinds, Bar!EventKinds
<1> QED
  BY <1>1, <1>2, <1>4, <1>7, InitTypeOK DEF FeedInv

LEMMA WorkerStepInv ==
    ASSUME FeedInv, Own, TenantIsolation, [Next]_vars, UNCHANGED feedVars
    PROVE  FeedInv' /\ Own' /\ TenantIsolation'
<1> USE DEF FeedInv
<1>1. Gone' = Gone
  BY DEF Gone, feedVars
<1>2. FeedTypeOK' /\ Own' /\ TenantIsolation'
  BY DEF FeedTypeOK, Own, TenantIsolation, feedVars
<1>3. TypeOK'
  BY NextTypeOK
<1>4. Theirs /\ [Bar!Next]_(Bar!vars)
  <2>1. CASE Next
    BY <1>1, <2>1, NextBar
  <2>2. CASE UNCHANGED vars
    BY <1>1, <2>2, QuietSeen
    DEF vars, queueVars, loopVars, taskVars, dedupVars, Bar!vars, Bar!queueVars,
        Bar!loopVars, Bar!taskVars, Bar!dedupVars
  <2> QED
    BY <2>1, <2>2
<1>5. Bar!Conserved'
  BY <1>4, BarTypeOK, BarConserved
<1>6. Apart'
  BY <1>1, <1>4 DEF Apart, Theirs, feedVars
<1> QED
  BY <1>2, <1>3, <1>5, <1>6

LEMMA QuietFeed ==
    ASSUME FeedInv, Gone' = Gone, UNCHANGED vars
    PROVE  TypeOK' /\ Bar!Conserved' /\ UNCHANGED outcome
<1> USE DEF FeedInv
<1>1. TypeOK'
  BY NextTypeOK
<1>2. UNCHANGED <<queue, published, SeenOutcome, hand, backlog, running, failing>>
  BY QuietSeen DEF vars, queueVars, loopVars, taskVars
<1>3. Bar!Conserved'
  BY <1>2, Bar!NoMoveConserved, AlertWorkerAssumption
  DEF AlertWorkerAssumption, EventKinds, Bar!EventKinds
<1> QED
  BY <1>1, <1>3 DEF vars

(* RPOP takes an alert away from the workers.                              *)
LEMMA TakesFeed ==
    ASSUME FeedInv, NEW f \in Feeds, NEW a \in Alerts, Takes(f, a), Gone' = Gone \cup {a}
    PROVE  /\ TypeOK' /\ Bar!Conserved' /\ UNCHANGED outcome
           /\ a \notin Gone /\ outcome[a] = "pending"
<1> USE DEF FeedInv
<1>1. a = Head(queue) /\ queue # <<>> /\ queue' = Tail(queue)
  BY DEF Takes
<1>2. UNCHANGED <<published, outcome, loopVars, taskVars, breaker, dedupVars>>
  BY DEF Takes, workerVars
<1>3. TypeOK'
  BY <1>1, <1>2, ListOps DEF TypeOK, loopVars, taskVars, dedupVars
<1>4. a \in ToSet(queue)
  BY <1>1 DEF TypeOK, Lists, ToSet
<1>5. a \notin Gone
  BY <1>4, GoneIsGone
<1>6. outcome[a] = "pending"
  BY <1>4, <1>5, SameCustody DEF Bar!Conserved, Bar!CustodyExclusive, SeenOutcome
<1>7. SeenOutcome' = [SeenOutcome EXCEPT ![a] = "lost"]
  BY <1>2 DEF SeenOutcome
<1>8. Bar!Conserved'
  BY <1>1, <1>2, <1>7, BarTypeOK, Bar!LostConserved, AlertWorkerAssumption
  DEF AlertWorkerAssumption, EventKinds, Bar!EventKinds, loopVars, taskVars
<1> QED
  BY <1>2, <1>3, <1>5, <1>6, <1>8

LEMMA RpopInv ==
    ASSUME FeedInv, Own, TenantIsolation, NEW f \in Feeds, NEW a \in Alerts,
           RpopOwn(f, a) \/ RpopOther(f, a) \/ RpopMalformed(f, a) \/ RpopLost(f, a)
    PROVE  FeedInv' /\ Own' /\ TenantIsolation'
<1> USE AlertWorkerAssumption DEF FeedInv
<1>1. FeedTypeOK' /\ TenantIsolation' /\ Own'
  BY DEF RpopOwn, RpopOther, RpopMalformed, RpopLost, Takes, FeedTypeOK, TenantIsolation, Own
<1>2. Gone' = Gone \cup {a}
  <2>1. CASE RpopOwn(f, a)
    <3>1. parcel[f] \notin Alerts
      BY <2>1 DEF RpopOwn, Takes, FeedTypeOK
    <3>2. \A g \in Feeds : parcel'[g] = IF g = f THEN a ELSE parcel[g]
      BY <2>1 DEF RpopOwn, FeedTypeOK
    <3> QED
      BY <2>1, <3>1, <3>2 DEF RpopOwn, Takes, Gone
  <2>2. CASE RpopOther(f, a) \/ RpopMalformed(f, a) \/ RpopLost(f, a)
    BY <2>2 DEF RpopOther, RpopMalformed, RpopLost, Takes, Gone
  <2> QED
    BY <2>1, <2>2
<1>3. /\ TypeOK' /\ Bar!Conserved' /\ UNCHANGED outcome
      /\ a \notin Gone /\ outcome[a] = "pending"
  BY <1>2, TakesFeed DEF RpopOwn, RpopOther, RpopMalformed, RpopLost
<1>4. a \notin discarded /\ \A g \in Feeds : a # parcel[g] /\ a \notin shown[g]
  BY <1>3 DEF Gone
<1>5. \A b \in Gone' : outcome'[b] = "pending"
  BY <1>2, <1>3 DEF Apart
<1>6. Apart'
  <2>1. CASE RpopOwn(f, a)
    <3>1. \A g \in Feeds : parcel'[g] = IF g = f THEN a ELSE parcel[g]
      BY <2>1 DEF RpopOwn, FeedTypeOK
    <3> QED
      BY <1>4, <1>5, <2>1, <3>1 DEF RpopOwn, Takes, Apart
  <2>2. CASE RpopOther(f, a) \/ RpopMalformed(f, a) \/ RpopLost(f, a)
    BY <1>4, <1>5, <2>2 DEF RpopOther, RpopMalformed, RpopLost, Takes, Apart
  <2> QED
    BY <2>1, <2>2
<1> QED
  BY <1>1, <1>3, <1>6

(* The alert of a coroutine ends on its connection, or nowhere.             *)
LEMMA SendInv ==
    ASSUME FeedInv, Own, TenantIsolation, NEW f \in Feeds,
           Send(f) \/ SendUnread(f) \/ SendError(f)
    PROVE  FeedInv' /\ Own' /\ TenantIsolation'
<1> USE AlertWorkerAssumption DEF FeedInv
<1>1. parcel[f] \in Alerts
  BY DEF Send, SendUnread, SendError, FeedTypeOK
<1>2. \A g \in Feeds : parcel'[g] = IF g = f THEN NoAlert ELSE parcel[g]
  BY DEF Send, SendUnread, SendError, FeedTypeOK
<1>3. \/ /\ \A g \in Feeds : \A b :
               b \in shown'[g] <=> b \in shown[g] \/ (g = f /\ b = parcel[f])
         /\ discarded' = discarded
      \/ shown' = shown /\ discarded' = discarded \cup {parcel[f]}
  BY DEF Send, SendUnread, SendError, FeedTypeOK
<1>4. FeedTypeOK'
  BY <1>1 DEF Send, SendUnread, SendError, FeedTypeOK
<1>5. Own' /\ TenantIsolation'
  <2>1. Own'
    BY <1>2 DEF Own
  <2>2. CASE \A g \in Feeds : \A b :
                b \in shown'[g] <=> b \in shown[g] \/ (g = f /\ b = parcel[f])
    BY <1>1, <2>1, <2>2 DEF Own, TenantIsolation
  <2>3. CASE shown' = shown
    BY <2>1, <2>3 DEF TenantIsolation
  <2> QED
    BY <1>3, <2>1, <2>2, <2>3
<1>6. Gone' = Gone
  BY <1>1, <1>2, <1>3 DEF Gone
<1>7. TypeOK' /\ Bar!Conserved' /\ UNCHANGED outcome
  BY <1>6, QuietFeed DEF Send, SendUnread, SendError
<1>8. NoAlert \notin discarded' /\ \A g \in Feeds : NoAlert \notin shown'[g]
  BY <1>4 DEF FeedTypeOK
<1>9. Apart'
  <2>1. \A a \in Gone' : outcome'[a] = "pending"
    BY <1>6, <1>7 DEF Apart
  <2>2. CASE /\ \A g \in Feeds : \A b :
                   b \in shown'[g] <=> b \in shown[g] \/ (g = f /\ b = parcel[f])
             /\ discarded' = discarded
    <3>1. \A g, h \in Feeds :
             /\ parcel'[g] \notin shown'[h]
             /\ g # h => /\ parcel'[g] \in Alerts => parcel'[g] # parcel'[h]
                         /\ shown'[g] \cap shown'[h] = {}
      <4> TAKE g, h \in Feeds
      <4>1. parcel'[g] \notin shown'[h]
        BY <1>1, <1>2, <1>8, <2>2 DEF Apart
      <4>2. ASSUME g # h
            PROVE  /\ parcel'[g] \in Alerts => parcel'[g] # parcel'[h]
                   /\ shown'[g] \cap shown'[h] = {}
        BY <1>1, <1>2, <2>2, <4>2 DEF Apart
      <4> QED
        BY <4>1, <4>2
    <3>2. \A g \in Feeds : parcel'[g] \notin discarded' /\ shown'[g] \cap discarded' = {}
      BY <1>1, <1>2, <1>8, <2>2 DEF Apart
    <3> QED
      BY <2>1, <3>1, <3>2 DEF Apart
  <2>3. CASE shown' = shown /\ discarded' = discarded \cup {parcel[f]}
    <3>1. \A g \in Feeds : parcel'[g] \notin discarded' /\ shown'[g] \cap discarded' = {}
      BY <1>1, <1>2, <1>8, <2>3 DEF Apart
    <3>2. \A g, h \in Feeds :
             /\ parcel'[g] \notin shown'[h]
             /\ g # h => /\ parcel'[g] \in Alerts => parcel'[g] # parcel'[h]
                         /\ shown'[g] \cap shown'[h] = {}
      BY <1>1, <1>2, <1>8, <2>3 DEF Apart
    <3> QED
      BY <2>1, <3>1, <3>2 DEF Apart
  <2> QED
    BY <1>3, <2>2, <2>3
<1> QED
  BY <1>4, <1>5, <1>7, <1>9

(* A dead replica of the API leaves what it had to nobody.                  *)
LEMMA DiesInv ==
    ASSUME FeedInv, Own, TenantIsolation, NEW some \in SUBSET Feeds, ApiDies(some)
    PROVE  FeedInv' /\ Own' /\ TenantIsolation'
<1> USE AlertWorkerAssumption DEF FeedInv
<1>1. \A g \in Feeds : parcel'[g] = IF g \in some THEN NoAlert ELSE parcel[g]
  BY DEF ApiDies
<1>2. /\ shown' = shown
      /\ \A a : a \in discarded'
                <=> (a \in discarded \/ (a \in Alerts /\ \E f \in some : a = parcel[f]))
  BY DEF ApiDies
<1>3. FeedTypeOK'
  <2>1. \A g \in Feeds : feed'[g] = IF g \in some THEN "ended" ELSE feed[g]
    BY DEF ApiDies
  <2>2. /\ feed' \in [Feeds -> {"new", "popping", "asleep", "sending", "ended"}]
        /\ parcel' \in [Feeds -> Alerts \cup {NoAlert}]
    BY DEF ApiDies, FeedTypeOK
  <2> QED
    BY <1>1, <2>1, <2>2 DEF ApiDies, FeedTypeOK
<1>4. Own' /\ TenantIsolation'
  BY <1>1, <1>2 DEF Own, TenantIsolation
<1>5. Gone' = Gone
  <2>1. \A a \in Alerts : a \in Gone' <=> a \in Gone
    BY <1>1, <1>2 DEF Gone
  <2> QED
    BY <2>1 DEF Gone
<1>6. TypeOK' /\ Bar!Conserved' /\ UNCHANGED outcome
  BY <1>5, QuietFeed DEF ApiDies
<1>7. Apart'
  <2>1. \A a \in Gone' : outcome'[a] = "pending"
    BY <1>5, <1>6 DEF Apart
  <2>2. \A f, g \in Feeds :
           /\ parcel'[f] \notin shown'[g]
           /\ f # g => /\ parcel'[f] \in Alerts => parcel'[f] # parcel'[g]
                       /\ shown'[f] \cap shown'[g] = {}
    BY <1>1, <1>2, <1>3 DEF Apart, FeedTypeOK
  <2>3. \A f \in Feeds : parcel'[f] \notin discarded' /\ shown'[f] \cap discarded' = {}
    BY <1>1, <1>2, <1>3 DEF Apart, FeedTypeOK
  <2> QED
    BY <2>1, <2>2, <2>3 DEF Apart
<1> QED
  BY <1>3, <1>4, <1>6, <1>7

LEMMA FeedNextInv ==
    FeedInv /\ Own /\ TenantIsolation /\ [FeedNext]_allVars
        => FeedInv' /\ Own' /\ TenantIsolation'
<1> SUFFICES ASSUME FeedInv, Own, TenantIsolation, [FeedNext]_allVars
             PROVE  FeedInv' /\ Own' /\ TenantIsolation'
  OBVIOUS
<1>1. CASE WorkerStep \/ UNCHANGED allVars
  BY <1>1, WorkerStepInv DEF WorkerStep, allVars
<1>2. ASSUME NEW f \in Feeds,
             Connect(f) \/ Leave(f) \/ RpopNothing(f) \/ RpopError(f) \/ WakeFeed(f)
      PROVE  FeedInv' /\ Own' /\ TenantIsolation'
  <2>1. UNCHANGED <<vars, parcel, shown, discarded>>
    BY <1>2 DEF Connect, Leave, RpopNothing, RpopError, WakeFeed
  <2>2. Gone' = Gone
    BY <2>1 DEF Gone
  <2>3. FeedTypeOK' /\ Own' /\ TenantIsolation'
    BY <1>2, <2>1
    DEF FeedInv, FeedTypeOK, Own, TenantIsolation, Connect, Leave, RpopNothing, RpopError,
        WakeFeed
  <2>4. TypeOK' /\ Bar!Conserved' /\ UNCHANGED outcome
    BY <2>1, <2>2, QuietFeed
  <2>5. Apart'
    BY <2>1, <2>2, <2>4 DEF FeedInv, Apart
  <2> QED
    BY <2>3, <2>4, <2>5 DEF FeedInv
<1> QED
  BY <1>1, <1>2, RpopInv, SendInv, DiesInv DEF FeedNext, FeedStep

-----------------------------------------------------------------------------
(* An alert a dashboard has or had is there and nowhere else.               *)

LEMMA GonePlaces ==
    ASSUME FeedInv, NEW a \in Gone
    PROVE  \E p \in FeedPlaces(a) : FeedPlaces(a) = {p}
<1> USE DEF FeedInv
<1>1. a \in Alerts /\ outcome[a] = "pending"
  BY DEF Gone, Apart
<1>2. a \notin ToSet(queue) /\ \A w \in Workers : a \notin Custody(w)
  BY GoneIsGone
<1>3. Places(a) = {}
  <2>1. \A j \in DOMAIN queue : queue[j] # a
    BY <1>2 DEF ToSet
  <2>2. \A w \in Workers : /\ hand[w] # a /\ a \notin ToSet(backlog[w])
                           /\ a \notin running[w] /\ a \notin failing[w]
    BY <1>1, <1>2 DEF Custody
  <2> QED
    BY <1>1, <2>1, <2>2 DEF Places
<1> DEFINE senders == {g \in Feeds : parcel[g] = a}
           showers == {g \in Feeds : a \in shown[g]}
<1>4. FeedPlaces(a) = {<<"parcel", f>> : f \in senders} \cup {<<"shown", f>> : f \in showers}
                      \cup (IF a \in discarded THEN {<<"discarded">>} ELSE {})
  BY <1>3 DEF FeedPlaces
<1>5. CASE a \in discarded
  <2>1. senders = {} /\ showers = {}
    BY <1>5 DEF Apart
  <2> HIDE DEF senders, showers
  <2> QED
    BY <1>4, <1>5, <2>1
<1>6. ASSUME NEW f \in Feeds, a = parcel[f]
      PROVE  \E p \in FeedPlaces(a) : FeedPlaces(a) = {p}
  <2>1. senders = {f} /\ showers = {} /\ a \notin discarded
    BY <1>1, <1>6 DEF Apart
  <2> HIDE DEF senders, showers
  <2>2. FeedPlaces(a) = {<<"parcel", f>>}
    BY <1>4, <2>1
  <2> QED
    BY <2>2
<1>7. ASSUME NEW f \in Feeds, a \in shown[f]
      PROVE  \E p \in FeedPlaces(a) : FeedPlaces(a) = {p}
  <2>1. senders = {} /\ showers = {f} /\ a \notin discarded
    BY <1>1, <1>7 DEF Apart
  <2> HIDE DEF senders, showers
  <2>2. FeedPlaces(a) = {<<"shown", f>>}
    BY <1>4, <2>1
  <2> QED
    BY <2>2
<1> QED
  BY <1>5, <1>6, <1>7 DEF Gone

(* The other alerts are where the workers have them.                       *)
LEMMA OtherPlaces ==
    ASSUME FeedInv, NEW a \in Alerts \ Gone
    PROVE  IF a \in published THEN \E p \in FeedPlaces(a) : FeedPlaces(a) = {p}
                              ELSE FeedPlaces(a) = {}
<1> USE DEF FeedInv
<1>1. Bar!AlertConserved
  BY BarTypeOK, Bar!ConservedPlaces, AlertWorkerAssumption
  DEF AlertWorkerAssumption, EventKinds, Bar!EventKinds
<1>2. Bar!Places(a) = Places(a)
  BY SameCustody DEF Bar!Places, Places, SeenOutcome
<1>3. FeedPlaces(a) = Places(a)
  <2>1. a \notin discarded /\ \A f \in Feeds : parcel[f] # a /\ a \notin shown[f]
    BY DEF Gone
  <2> QED
    BY <2>1 DEF FeedPlaces
<1> QED
  BY <1>1, <1>2, <1>3 DEF Bar!AlertConserved

LEMMA FeedInvConserved == FeedInv => FeedConserved
<1> SUFFICES ASSUME FeedInv, NEW a \in Alerts
             PROVE  IF a \in published THEN \E p \in FeedPlaces(a) : FeedPlaces(a) = {p}
                                       ELSE FeedPlaces(a) = {}
  BY DEF FeedConserved
<1>1. CASE a \in Gone
  BY <1>1, GonePlaces, GoneIsGone DEF FeedInv
<1> QED
  BY <1>1, OtherPlaces

LEMMA FeedInvariant == FeedSpec => [](FeedInv /\ Own /\ TenantIsolation)
BY FeedInitInv, FeedNextInv, PTL DEF FeedSpec

(* Whatever the dashboards do, the state of the coroutines of               *)
(* alerts_websocket is the one their code gives it.                        *)
THEOREM FeedTypeCorrect == FeedSpec => []FeedTypeOK
BY FeedInvariant, PTL DEF FeedInv

(* An alert is popped once, by a worker or by a dashboard, and is then in   *)
(* one place: RPOP and BRPOP on one list never hand it out twice, though a  *)
(* reply may be lost, a client leave unseen and a replica of the API die.   *)
(* What is lost in these ways is in "discarded" and comes up nowhere else.  *)
THEOREM EachAlertPoppedOnce == FeedSpec => []FeedConserved
BY FeedInvariant, FeedInvConserved, PTL

(* A connection is sent alerts of the tenant in its path only.             *)
THEOREM TenantsIsolated == FeedSpec => []TenantIsolation
BY FeedInvariant, PTL

-----------------------------------------------------------------------------
(* Delivery.                                                               *)

LEMMA FeedOrderly == FeedInv => Orderly
<1> SUFFICES ASSUME FeedInv PROVE Orderly
  OBVIOUS
<1> USE DEF FeedInv
<1>1. ListsDistinct
  BY DEF Bar!Conserved, Bar!ListsDistinct, ListsDistinct, Bar!IsInjective, IsInjective
<1>2. \A a \in Alerts \ Gone : SeenOutcome[a] = outcome[a]
  BY DEF SeenOutcome
<1>3. CustodyExclusive
  <2>1. /\ ToSet(queue) \subseteq Alerts \ Gone
        /\ \A w \in Workers : Custody(w) \subseteq Alerts \ Gone
    <3>1. \A s \in Lists : ToSet(s) \subseteq Alerts
      BY DEF Lists, ToSet
    <3>2. /\ ToSet(queue) \subseteq Alerts
          /\ \A w \in Workers : Custody(w) \subseteq Alerts
      BY <3>1 DEF TypeOK, Custody
    <3> QED
      BY <3>2, GoneIsGone
  <2>2. /\ \A a \in ToSet(queue) : /\ a \in published /\ SeenOutcome[a] = "pending"
                                  /\ \A w \in Workers : a \notin Custody(w)
        /\ \A w \in Workers : \A a \in Custody(w) :
              a \in published /\ SeenOutcome[a] = "pending"
        /\ \A v, w \in Workers : v # w => Custody(v) \cap Custody(w) = {}
    BY SameCustody DEF Bar!Conserved, Bar!CustodyExclusive
  <2> QED
    BY <1>2, <2>1, <2>2 DEF CustodyExclusive
<1>4. \A a \in Alerts : a \notin published => outcome[a] = "pending"
  BY <1>2, GoneIsGone DEF Bar!Conserved, Bar!CustodyComplete
<1> QED
  BY <1>1, <1>3, <1>4 DEF Orderly

LEMMA FeedShape ==
    ASSUME TypeOK, [FeedNext]_allVars
    PROVE  (\E a \in Alerts : Arrival(a)) \/ Departure \/ Settlement
<1>1. CASE [Next]_vars
  BY <1>1, NextShape
<1>2. ASSUME NEW f \in Feeds, NEW a \in Alerts, Takes(f, a)
      PROVE  Departure
  BY <1>2 DEF Takes, workerVars, Departure
<1>3. CASE UNCHANGED vars
  BY <1>1, <1>3
<1> QED
  BY <1>1, <1>2, <1>3
  DEF FeedNext, WorkerStep, FeedStep, ApiDies, allVars, Connect, Leave, RpopNothing, RpopOwn,
      RpopOther, RpopMalformed, RpopLost, RpopError, Send, SendUnread, SendError, WakeFeed

(* Workers and dashboards together implement AlertDelivery: alerts leave    *)
(* the list in arrival order, and each is taken once, by either.            *)
THEOREM FeedDelivers == FeedSpec => DeliverySpec
<1>1. FeedInit => Delivery!Init
  BY InitDelivery DEF FeedInit
<1>2. FeedInv /\ [FeedNext]_allVars => [Delivery!Next]_(Delivery!vars)
  BY FeedOrderly, FeedShape, ArrivalDelivers, DepartureDelivers, SettlementDelivers
  DEF FeedInv, Delivery!Next
<1> QED
  BY <1>1, <1>2, FeedInvariant, PTL DEF FeedSpec, DeliverySpec, Delivery!Spec

-----------------------------------------------------------------------------
(* What a dashboard takes.                                                 *)

LEMMA GoneForever == FeedInv /\ [FeedNext]_allVars => Gone \subseteq Gone'
<1> SUFFICES ASSUME FeedInv, [FeedNext]_allVars, NEW a \in Gone PROVE a \in Gone'
  OBVIOUS
<1>1. a \in Alerts /\ a # NoAlert
  BY AlertWorkerAssumption DEF Gone
<1>2. ASSUME UNCHANGED <<parcel, shown, discarded>> PROVE a \in Gone'
  BY <1>2 DEF Gone
<1>3. ASSUME NEW f \in Feeds, NEW b \in Alerts,
             RpopOwn(f, b) \/ RpopOther(f, b) \/ RpopMalformed(f, b) \/ RpopLost(f, b)
      PROVE  a \in Gone'
  <2>1. parcel[f] = NoAlert
    BY <1>3 DEF RpopOwn, RpopOther, RpopMalformed, RpopLost, Takes, FeedInv, FeedTypeOK
  <2> QED
    BY <1>1, <1>3, <2>1
    DEF RpopOwn, RpopOther, RpopMalformed, RpopLost, Takes, Gone, FeedInv, FeedTypeOK
<1>4. ASSUME NEW f \in Feeds, Send(f) \/ SendUnread(f) \/ SendError(f) PROVE a \in Gone'
  BY <1>1, <1>4 DEF Send, SendUnread, SendError, Gone, FeedInv, FeedTypeOK
<1>5. ASSUME NEW some \in SUBSET Feeds, ApiDies(some) PROVE a \in Gone'
  BY <1>1, <1>5 DEF ApiDies, Gone
<1> QED
  BY <1>2, <1>3, <1>4, <1>5
  DEF FeedNext, FeedStep, WorkerStep, allVars, feedVars, Connect, Leave, RpopNothing,
      RpopError, WakeFeed

(* What a dashboard popped never comes back: not to the list, not to a      *)
(* worker, not to another outcome; alerts_websocket has no path that pushes *)
(* it again, whether it sends the alert, drops it or fails.                 *)
TakenForGood ==
    /\ [](\A a \in Gone : /\ a \notin ToSet(queue)
                          /\ \A w \in Workers : a \notin Custody(w)
                          /\ outcome[a] = "pending")
    /\ [][Gone \subseteq Gone']_allVars

(* An alert that a dashboard popped is never handled, whatever the workers  *)
(* do, for every number of workers and dashboards.                          *)
THEOREM DashboardsTakeForGood == FeedSpec => TakenForGood
<1>1. FeedInv => \A a \in Gone : /\ a \notin ToSet(queue)
                                 /\ \A w \in Workers : a \notin Custody(w)
                                 /\ outcome[a] = "pending"
  BY GoneIsGone DEF FeedInv, Apart
<1>2. FeedInv /\ [FeedNext]_allVars => [Gone \subseteq Gone']_allVars
  BY GoneForever
<1> QED
  BY <1>1, <1>2, FeedInvariant, PTL DEF FeedSpec, TakenForGood

-----------------------------------------------------------------------------
(* The promises of the workers next to dashboards.                          *)

LEMMA FeedFrame ==
    [FeedNext]_allVars => ([Next]_vars /\ UNCHANGED feedVars) \/ UNCHANGED workerVars
<1>1. ASSUME NEW f \in Feeds, FeedStep(f) PROVE UNCHANGED vars \/ UNCHANGED workerVars
  BY <1>1 DEF FeedStep, Takes, Connect, Leave, RpopNothing, RpopOwn, RpopOther,
              RpopMalformed, RpopLost, RpopError, Send, SendUnread, SendError, WakeFeed
<1>2. UNCHANGED vars => UNCHANGED workerVars
  BY DEF vars, queueVars, workerVars
<1> QED
  BY <1>1, <1>2 DEF FeedNext, WorkerStep, ApiDies, allVars

WorkerPromises == PermitsBalance /\ BreakerConsistent /\ CacheFaithful

LEMMA FeedNextPromises ==
    FeedInv /\ WorkerPromises /\ [FeedNext]_allVars => WorkerPromises'
<1> SUFFICES ASSUME FeedInv, WorkerPromises, [FeedNext]_allVars PROVE WorkerPromises'
  OBVIOUS
<1> USE DEF FeedInv, WorkerPromises
<1>1. CASE [Next]_vars /\ UNCHANGED feedVars
  <2>1. BreakerConsistent' /\ CacheFaithful'
    BY <1>1, NextBreakers, NextCache
  <2>2. Separate
    <3>1. /\ Bar!ListsDistinct => ListsDistinct
          /\ \A w \in Workers : Bar!PlacesDisjoint(w) => PlacesDisjoint(w)
      BY SameCustody
      DEF Bar!ListsDistinct, ListsDistinct, Bar!IsInjective, IsInjective,
          Bar!PlacesDisjoint, PlacesDisjoint, Bar!Hand, Hand
    <3> QED
      BY <3>1 DEF Bar!Conserved, Separate
  <2>3. PermitsBalance'
    BY <1>1, <2>2, NextPermits
  <2> QED
    BY <2>1, <2>3
<1>2. CASE UNCHANGED workerVars
  BY <1>2 DEF workerVars, taskVars, dedupVars, PermitsBalance, Holders, BreakerConsistent,
              CacheFaithful
<1> QED
  BY <1>1, <1>2, FeedFrame

LEMMA FeedPromises == FeedSpec => [](FeedInv /\ WorkerPromises)
<1>1. FeedInit => WorkerPromises
  BY FS_EmptySet, AlertWorkerAssumption
  DEF FeedInit, Init, WorkerPromises, PermitsBalance, Holders, BreakerConsistent, NewBreaker,
      CacheFaithful
<1> QED
  BY <1>1, FeedNextPromises, FeedInvariant, PTL DEF FeedSpec

(* Dashboards take alerts from the workers, but nothing else: permits,      *)
(* breakers and deduplication of every worker keep what                    *)
(* alert_processor.py promises of them, however many dashboards pop.        *)
THEOREM DashboardsDisturbNoWorker ==
    FeedSpec => /\ [](SemaphoreConserved /\ BreakerConsistent)
                /\ DedupExact /\ BreakerGate
<1>1. WorkerPromises => SemaphoreConserved /\ BreakerConsistent
  BY DEF WorkerPromises, PermitsBalance, SemaphoreConserved, Holders
<1>2. ASSUME FeedInv, UNCHANGED workerVars, NEW w \in Workers
      PROVE  /\ ~Accepts(w)
             /\ Len(backlog'[w]) = Len(backlog[w])
             /\ ~(Len(backlog'[w]) > Len(backlog[w]))
             /\ UNCHANGED <<outcome, breaker>>
  <2>1. Len(backlog[w]) \in Nat
    BY <1>2 DEF FeedInv, TypeOK, Lists
  <2> QED
    BY <1>2, <2>1 DEF workerVars, loopVars, taskVars, Accepts
<1>3. FeedInv /\ WorkerPromises /\ [FeedNext]_allVars
         => [\A w \in Workers :
                /\ Accepts(w) => sinceAccept[w][KeyOf[hand[w]]] >= Window
                /\ \A a \in Alerts :
                    hand[w] = a /\ outcome[a] = "pending" /\ outcome'[a] = "duplicate"
                        => sinceAccept[w][KeyOf[a]] < Window]_vars
  BY <1>2, FeedFrame, DedupSteps, FeedOrderly DEF FeedInv, WorkerPromises, Orderly
<1>4. FeedInv /\ WorkerPromises /\ [FeedNext]_allVars
         => [\A w \in Workers :
                /\ Refuses(breaker[w]) /\ pc'[w] # "stopped" =>
                      \/ Refuses(breaker'[w])
                      \/ breaker'[w].age > ResetTimeout
                      \/ \E a \in running[w] : outcome'[a] = "processed"
                /\ Len(backlog'[w]) > Len(backlog[w]) => ~Refuses(breaker[w])]_vars
  BY <1>2, FeedFrame, GateSteps DEF FeedInv, WorkerPromises
<1> QED
  BY <1>1, <1>3, <1>4, FeedPromises, PTL DEF FeedSpec, DedupExact, BreakerGate
=============================================================================
