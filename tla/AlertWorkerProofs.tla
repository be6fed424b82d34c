-------------------------- MODULE AlertWorkerProofs --------------------------
(***************************************************************************)
(* Theorems about AlertWorker, for every value of its constants.           *)
(***************************************************************************)
EXTENDS AlertWorker, FiniteSetTheorems, TLAPS

-----------------------------------------------------------------------------
(* Facts about the breaker's operators.                                    *)

LEMMA BreakerOps ==
    ASSUME NEW b \in Breakers
    PROVE  /\ NewBreaker \in Breakers
           /\ AfterIsOpen(b) \in Breakers
           /\ RecordSuccess(b) \in Breakers
           /\ RecordFailure(b) \in Breakers
           /\ [b EXCEPT !.age = Older(@, ResetTimeout)] \in Breakers
<1> USE AlertWorkerAssumption
<1>1. NewBreaker \in Breakers
  BY DEF NewBreaker, Breakers, BreakerAges
<1>2. AfterIsOpen(b) \in Breakers
  BY DEF AfterIsOpen, Breakers
<1>3. RecordSuccess(b) \in Breakers
  BY DEF RecordSuccess, Breakers
<1>4. RecordFailure(b) \in Breakers
  BY DEF RecordFailure, Breakers, BreakerAges
<1>5. [b EXCEPT !.age = Older(@, ResetTimeout)] \in Breakers
  BY DEF Breakers, BreakerAges, Older
<1> QED BY <1>1, <1>2, <1>3, <1>4, <1>5

LEMMA ListOps ==
    ASSUME NEW s \in Lists
    PROVE  /\ \A a \in Alerts : Append(s, a) \in Lists
           /\ s # <<>> => Head(s) \in Alerts /\ Tail(s) \in Lists
BY DEF Lists

LEMMA InitTypeOK == Init => TypeOK
<1> USE AlertWorkerAssumption
<1> SUFFICES ASSUME Init PROVE TypeOK
  OBVIOUS
<1>1. NewBreaker \in Breakers
  BY DEF NewBreaker, Breakers, BreakerAges
<1>2. <<>> \in Lists
  BY DEF Lists
<1> QED BY <1>1, <1>2 DEF Init, TypeOK, SeenAges, Outcomes

-----------------------------------------------------------------------------
(* Type correctness, one lemma for the loop, one for the tasks and one for  *)
(* stops.                                                                  *)

LEMMA MarkSeenType ==
    ASSUME TypeOK, NEW w \in Workers, NEW k \in Keys, MarkSeen(w, k)
    PROVE  /\ seen' \in [Workers -> SUBSET Keys]
           /\ seenAge' \in [Workers -> [Keys -> SeenAges]]
           /\ sinceAccept' \in [Workers -> [Keys -> SeenAges]]
<1>1. 0 \in SeenAges
  BY AlertWorkerAssumption DEF SeenAges
<1> QED BY <1>1 DEF TypeOK, MarkSeen

LEMMA LoopTypeOK ==
    ASSUME TypeOK, NEW w \in Workers, Loop(w), ~Exit(w)
    PROVE  TypeOK'
<1> USE DEF TypeOK
<1>1. CASE LoopTop(w)
  <2>1. seen' \in [Workers -> SUBSET Keys]
    BY <1>1 DEF LoopTop, CleanupExpired
  <2>2. sinceCleanup' \in [Workers -> 0..(CleanupInterval + 1)]
    <3>1. 0 \in 0..(CleanupInterval + 1)
      BY AlertWorkerAssumption
    <3> QED BY <1>1, <3>1 DEF LoopTop
  <2> QED BY <1>1, <2>1, <2>2 DEF LoopTop, queueVars, taskVars
<1>2. CASE PollTimeout(w)
  BY <1>2 DEF PollTimeout, queueVars, taskVars, dedupVars
<1>3. CASE Pop(w)
  <2>1. Head(queue) \in Alerts /\ Tail(queue) \in Lists
    BY <1>3, ListOps DEF Pop
  <2>2. Head(queue) # NoAlert
    BY <2>1, AlertWorkerAssumption
  <2> QED BY <1>3, <2>1, <2>2 DEF Pop, taskVars, dedupVars
<1>4. CASE Discard(w)
  BY <1>4 DEF Discard, PutDown, Outcomes, queueVars, taskVars, dedupVars
<1>5. CASE DropDuplicate(w)
  BY <1>5 DEF DropDuplicate, PutDown, Outcomes, queueVars, taskVars, dedupVars
<1>6. CASE Degrade(w)
  <2>1. KeyOf[hand[w]] \in Keys
    BY <1>6, AlertWorkerAssumption DEF Degrade, Wellformed
  <2>2. MarkSeen(w, KeyOf[hand[w]])
    BY <1>6 DEF Degrade
  <2> QED BY <1>6, <2>1, <2>2, MarkSeenType DEF Degrade, Wellformed, queueVars, taskVars
<1>7. CASE Dispatch(w)
  <2>1. KeyOf[hand[w]] \in Keys /\ hand[w] \in Alerts
    BY <1>7, AlertWorkerAssumption DEF Dispatch, Wellformed
  <2>2. MarkSeen(w, KeyOf[hand[w]])
    BY <1>7 DEF Dispatch
  <2>3. breaker' \in [Workers -> Breakers]
    BY <1>7, BreakerOps DEF Dispatch
  <2>4. backlog' \in [Workers -> Lists]
    <3>1. Append(backlog[w], hand[w]) \in Lists
      BY <2>1, ListOps
    <3> QED BY <1>7, <3>1 DEF Dispatch
  <2> QED BY <1>7, <2>1, <2>2, <2>3, <2>4, MarkSeenType
          DEF Dispatch, Wellformed, queueVars
<1>8. CASE DegradedPush(w)
  BY <1>8 DEF DegradedPush, PutDown, Outcomes, queueVars, taskVars, dedupVars
<1>9. CASE Wake(w)
  BY <1>9 DEF Wake, queueVars, taskVars, dedupVars
<1> QED BY <1>1, <1>2, <1>3, <1>4, <1>5, <1>6, <1>7, <1>8, <1>9 DEF Loop

LEMMA TaskTypeOK ==
    ASSUME TypeOK, NEW w \in Workers, NEW a \in Alerts,
           \/ ProcessOk(w, a) \/ ProcessError(w, a)
           \/ \E result \in Outcomes : EndFailed(w, a, result)
    PROVE  TypeOK'
<1> USE DEF TypeOK
<1>1. permits[w] + 1 \in Nat
  OBVIOUS
<1>2. CASE ProcessOk(w, a)
  <2>1. breaker' \in [Workers -> Breakers]
    BY <1>2, BreakerOps DEF ProcessOk
  <2> QED BY <1>1, <1>2, <2>1 DEF ProcessOk, Outcomes, queueVars, loopVars, dedupVars
<1>3. CASE ProcessError(w, a)
  <2>1. breaker' \in [Workers -> Breakers]
    BY <1>3, BreakerOps DEF ProcessError
  <2> QED BY <1>3, <2>1 DEF ProcessError, queueVars, loopVars, dedupVars
<1>4. ASSUME NEW result \in Outcomes, EndFailed(w, a, result)
      PROVE  TypeOK'
  BY <1>1, <1>4 DEF EndFailed, queueVars, loopVars, dedupVars
<1> QED BY <1>2, <1>3, <1>4

LEMMA AcquireTypeOK ==
    ASSUME TypeOK, NEW w \in Workers, Acquire(w)
    PROVE  TypeOK'
<1> USE DEF TypeOK
<1>1. Head(backlog[w]) \in Alerts /\ Tail(backlog[w]) \in Lists
  BY ListOps DEF Acquire
<1>2. permits[w] - 1 \in Nat
  BY DEF Acquire
<1> QED BY <1>1, <1>2 DEF Acquire, queueVars, loopVars, dedupVars

LEMMA StopTypeOK ==
    ASSUME TypeOK, NEW w \in Workers, StopProcess(w), UNCHANGED shutdown
    PROVE  TypeOK'
<1> USE DEF TypeOK
<1>1. outcome' \in [Alerts -> {"pending"} \cup Outcomes]
  BY DEF StopProcess, Outcomes
<1>2. NewBreaker \in Breakers
  BY AlertWorkerAssumption DEF NewBreaker, Breakers, BreakerAges
<1>3. <<>> \in Lists
  BY DEF Lists
<1>4. Window + 1 \in SeenAges /\ 0 \in 0..(CleanupInterval + 1) /\ MaxConcurrent \in Nat
  BY AlertWorkerAssumption DEF SeenAges
<1> QED BY <1>1, <1>2, <1>3, <1>4 DEF StopProcess, queueVars

LEMMA EnvironmentTypeOK ==
    ASSUME TypeOK, NEW w \in Workers, Environment(w)
    PROVE  TypeOK'
<1> USE DEF TypeOK
<1>1. CASE PopError(w)
  <2>1. queue' \in Lists /\ outcome' \in [Alerts -> {"pending"} \cup Outcomes]
    BY <1>1, ListOps DEF PopError, Outcomes
  <2> QED BY <1>1, <2>1 DEF PopError, taskVars, dedupVars
<1>2. CASE DegradedPushError(w)
  BY <1>2 DEF DegradedPushError, PutDown, Outcomes, queueVars, taskVars, dedupVars
<1>3. ASSUME NEW a \in Alerts, FailedPushError(w, a)
      PROVE  TypeOK'
  BY <1>3, TaskTypeOK DEF FailedPushError, Outcomes
<1>4. CASE Signal(w)
  BY <1>4 DEF Signal, queueVars, taskVars, dedupVars
<1>5. CASE Crash(w)
  BY <1>5, StopTypeOK DEF Crash
<1>6. CASE Restart(w)
  BY <1>6 DEF Restart, queueVars, taskVars, dedupVars
<1> QED BY <1>1, <1>2, <1>3, <1>4, <1>5, <1>6 DEF Environment

LEMMA TickTypeOK == TypeOK /\ Tick => TypeOK'
<1> SUFFICES ASSUME TypeOK, Tick PROVE TypeOK'
  OBVIOUS
<1> USE DEF TypeOK
<1>1. \A age, bound : age \in 0..(bound + 1) /\ bound \in Nat => Older(age, bound) \in 0..(bound + 1)
  BY DEF Older
<1>2. breaker' \in [Workers -> Breakers]
  BY BreakerOps DEF Tick
<1>3. /\ seenAge' \in [Workers -> [Keys -> SeenAges]]
      /\ sinceAccept' \in [Workers -> [Keys -> SeenAges]]
  BY <1>1, AlertWorkerAssumption DEF Tick, SeenAges
<1>4. sinceCleanup' \in [Workers -> 0..(CleanupInterval + 1)]
  BY <1>1, AlertWorkerAssumption DEF Tick
<1> QED BY <1>2, <1>3, <1>4 DEF Tick, queueVars, taskVars

LEMMA NextTypeOK == TypeOK /\ [Next]_vars => TypeOK'
<1> SUFFICES ASSUME TypeOK, [Next]_vars PROVE TypeOK'
  OBVIOUS
<1>1. ASSUME NEW a \in Alerts, Publish(a)
      PROVE  TypeOK'
  BY <1>1, ListOps DEF Publish, TypeOK, loopVars, taskVars, dedupVars
<1>2. ASSUME NEW w \in Workers, Loop(w)
      PROVE  TypeOK'
  <2>1. CASE Exit(w)
    BY <2>1, StopTypeOK DEF Exit
  <2> QED BY <1>2, <2>1, LoopTypeOK
<1>3. ASSUME NEW w \in Workers, Acquire(w) \/ Environment(w)
      PROVE  TypeOK'
  BY <1>3, AcquireTypeOK, EnvironmentTypeOK
<1>4. ASSUME NEW w \in Workers, NEW a \in Alerts, Task(w, a)
      PROVE  TypeOK'
  BY <1>4, TaskTypeOK DEF Task, FailedPush, Outcomes
<1>5. CASE UNCHANGED vars
  BY <1>5 DEF TypeOK, vars, queueVars, loopVars, taskVars, dedupVars
<1> QED BY <1>1, <1>2, <1>3, <1>4, <1>5, TickTypeOK DEF Next

(* Every variable keeps the type the code gives it, and the loop of a       *)
(* worker holds an alert exactly while it handles one.                     *)
THEOREM TypeCorrect == Spec => []TypeOK
BY InitTypeOK, NextTypeOK, PTL DEF Spec

-----------------------------------------------------------------------------
(* Conservation.  The invariant names the set of alerts in each place, so   *)
(* that a step is a change of a few sets.                                  *)

Hand(w) == {a \in Alerts : a = hand[w]}

(* No list holds an alert twice.                                           *)
ListsDistinct ==
    /\ IsInjective(queue)
    /\ \A w \in Workers : IsInjective(backlog[w])

(* The places of one worker share no alert.                                *)
PlacesDisjoint(w) ==
    /\ Hand(w) \cap (ToSet(backlog[w]) \cup running[w] \cup failing[w]) = {}
    /\ ToSet(backlog[w]) \cap (running[w] \cup failing[w]) = {}
    /\ running[w] \cap failing[w] = {}

(* An alert in the list or with a worker is there only, has been published  *)
(* and has no outcome yet.                                                 *)
CustodyExclusive ==
    /\ \A a \in ToSet(queue) : 
          a \in published /\ outcome[a] = "pending" /\ \A w \in Workers : a \notin Custody(w)
    /\ \A w \in Workers : \A a \in Custody(w) :
          a \in published /\ outcome[a] = "pending"
    /\ \A v, w \in Workers : v # w => Custody(v) \cap Custody(w) = {}

(* A published alert without an outcome is in the list or with a worker.    *)
CustodyComplete ==
    \A a \in Alerts :
        IF a \in published
        THEN outcome[a] # "pending" \/ a \in ToSet(queue) \/ \E w \in Workers : a \in Custody(w)
        ELSE outcome[a] = "pending"

Conserved ==
    /\ ListsDistinct
    /\ \A w \in Workers : PlacesDisjoint(w)
    /\ CustodyExclusive
    /\ CustodyComplete

LEMMA ListSets ==
    ASSUME NEW s \in Lists, IsInjective(s)
    PROVE  /\ ToSet(s) \subseteq Alerts
           /\ \A a \in Alerts \ ToSet(s) :
                 ToSet(Append(s, a)) = ToSet(s) \cup {a} /\ IsInjective(Append(s, a))
           /\ s # <<>> => /\ Head(s) \in ToSet(s)
                          /\ ToSet(Tail(s)) = ToSet(s) \ {Head(s)}
                          /\ IsInjective(Tail(s))
<1> USE DEF ToSet, IsInjective, Lists
<1>1. ToSet(s) \subseteq Alerts
  OBVIOUS
<1>2. ASSUME NEW a \in Alerts \ ToSet(s)
      PROVE  ToSet(Append(s, a)) = ToSet(s) \cup {a} /\ IsInjective(Append(s, a))
  <2>1. /\ DOMAIN Append(s, a) = 1..(Len(s) + 1)
        /\ \A i \in 1..Len(s) : Append(s, a)[i] = s[i]
        /\ Append(s, a)[Len(s) + 1] = a
        /\ DOMAIN s = 1..Len(s) /\ Len(s) \in Nat
    OBVIOUS
  <2> QED BY <1>2, <2>1
<1>3. ASSUME s # <<>>
      PROVE  /\ Head(s) \in ToSet(s)
             /\ ToSet(Tail(s)) = ToSet(s) \ {Head(s)}
             /\ IsInjective(Tail(s))
  <2>1. /\ DOMAIN Tail(s) = 1..(Len(s) - 1)
        /\ \A i \in 1..(Len(s) - 1) : Tail(s)[i] = s[i + 1]
        /\ Head(s) = s[1]
        /\ DOMAIN s = 1..Len(s) /\ Len(s) \in Nat \ {0}
    BY <1>3
  <2>2. ToSet(Tail(s)) = ToSet(s) \ {Head(s)}
    <3>1. ASSUME NEW x \in ToSet(Tail(s)) PROVE x \in ToSet(s) \ {Head(s)}
      BY <2>1, <3>1
    <3>2. ASSUME NEW x \in ToSet(s) \ {Head(s)} PROVE x \in ToSet(Tail(s))
      <4>1. PICK i \in 1..Len(s) : s[i] = x /\ i # 1
        BY <2>1, <3>2
      <4>2. i - 1 \in 1..(Len(s) - 1) /\ Tail(s)[i - 1] = x
        BY <2>1, <4>1
      <4> QED BY <2>1, <4>2
    <3> QED BY <3>1, <3>2
  <2>3. Head(s) \in ToSet(s)
    BY <2>1
  <2>4. IsInjective(Tail(s))
    <3> SUFFICES ASSUME NEW i \in 1..(Len(s) - 1), NEW j \in 1..(Len(s) - 1),
                        Tail(s)[i] = Tail(s)[j]
                 PROVE  i = j
      BY <2>1
    <3>1. s[i + 1] = s[j + 1] /\ i + 1 \in DOMAIN s /\ j + 1 \in DOMAIN s
      BY <2>1
    <3>2. i + 1 = j + 1
      BY <3>1
    <3> QED BY <3>2
  <2> QED BY <2>2, <2>3, <2>4
<1> QED BY <1>1, <1>2, <1>3

LEMMA EmptyList == ToSet(<<>>) = {} /\ IsInjective(<<>>)
BY DEF ToSet, IsInjective

(* A step that moves no alert.                                             *)
LEMMA NoMoveConserved ==
    ASSUME Conserved,
           UNCHANGED <<queue, published, outcome, hand, backlog, running, failing>>
    PROVE  Conserved'
BY DEF Conserved, ListsDistinct, PlacesDisjoint, Hand, CustodyExclusive, CustodyComplete,
       Custody

(* The alert in the hand of a loop ends.                                   *)
LEMMA PutDownConserved ==
    ASSUME TypeOK, Conserved, NEW w \in Workers, NEW result \in Outcomes, NEW next,
           hand[w] # NoAlert, PutDown(w, result, next),
           UNCHANGED <<queue, published, backlog, running, failing>>
    PROVE  Conserved'
<1> USE DEF Conserved
<1>1. hand[w] \in Alerts /\ hand[w] \in Custody(w)
  BY DEF TypeOK, Custody
<1>2. \A v \in Workers : Custody(v)' = IF v = w THEN Custody(w) \ {hand[w]} ELSE Custody(v)
  BY <1>1, AlertWorkerAssumption DEF PutDown, TypeOK, Custody, PlacesDisjoint, Hand
<1> DEFINE h == hand[w]
<1>3. /\ outcome'[h] # "pending"
      /\ \A a \in Alerts : a # h => outcome'[a] = outcome[a]
  BY <1>1 DEF PutDown, Outcomes, TypeOK
<1> HIDE DEF h
<1>8. /\ h \in Alerts /\ h \in Custody(w) /\ h \notin ToSet(queue) /\ h \in published
      /\ \A v \in Workers : v # w => h \notin Custody(v)
      /\ \A v \in Workers : Custody(v)' = IF v = w THEN Custody(w) \ {h} ELSE Custody(v)
  BY <1>1, <1>2 DEF CustodyExclusive, h
<1>9. /\ ToSet(queue) \subseteq Alerts
      /\ \A v \in Workers : Custody(v) \subseteq Alerts
  <2>1. \A v \in Workers : ToSet(backlog[v]) \subseteq Alerts
    BY ListSets DEF ListsDistinct, TypeOK
  <2> QED BY <2>1, ListSets DEF ListsDistinct, TypeOK, Custody
<1>4. ListsDistinct'
  BY DEF ListsDistinct
<1>5. \A v \in Workers : PlacesDisjoint(v)'
  BY AlertWorkerAssumption DEF PlacesDisjoint, Hand, PutDown, TypeOK
<1>6. CustodyExclusive'
  BY <1>3, <1>8, <1>9 DEF CustodyExclusive
<1>7. CustodyComplete'
  BY <1>3, <1>8 DEF CustodyComplete
<1> QED BY <1>4, <1>5, <1>6, <1>7

LEMMA PublishConserved ==
    ASSUME TypeOK, Conserved, NEW a \in Alerts, Publish(a)
    PROVE  Conserved'
<1> USE DEF Conserved
<1>1. a \notin ToSet(queue) /\ \A w \in Workers : a \notin Custody(w)
  BY DEF Publish, CustodyExclusive
<1>2. ToSet(queue') = ToSet(queue) \cup {a} /\ IsInjective(queue')
  BY <1>1, ListSets DEF Publish, ListsDistinct, TypeOK
<1>3. \A w \in Workers : Custody(w)' = Custody(w)
  BY DEF Publish, Custody, loopVars, taskVars
<1>4. ListsDistinct'
  BY <1>2 DEF ListsDistinct, Publish, taskVars
<1>5. \A w \in Workers : PlacesDisjoint(w)'
  BY DEF PlacesDisjoint, Hand, Publish, loopVars, taskVars
<1>6. CustodyExclusive'
  BY <1>1, <1>2, <1>3 DEF CustodyExclusive, CustodyComplete, Publish
<1>7. CustodyComplete'
  BY <1>1, <1>2, <1>3 DEF CustodyComplete, Publish
<1> QED BY <1>4, <1>5, <1>6, <1>7

(* The oldest alert leaves the list into the hand of a loop.                *)
LEMMA LeaveConserved ==
    ASSUME TypeOK, Conserved, NEW w \in Workers, queue # <<>>, queue' = Tail(queue),
           UNCHANGED <<published, backlog, running, failing>>,
           hand[w] = NoAlert, hand' = [hand EXCEPT ![w] = Head(queue)], UNCHANGED outcome
    PROVE  Conserved'
<1> USE DEF Conserved
<1> DEFINE h == Head(queue)
<1>1. /\ h \in ToSet(queue) /\ h \in Alerts
      /\ ToSet(queue') = ToSet(queue) \ {h} /\ IsInjective(queue')
  BY ListSets DEF ListsDistinct, TypeOK
<1>2. h \in published /\ outcome[h] = "pending" /\ \A v \in Workers : h \notin Custody(v)
  BY <1>1 DEF CustodyExclusive
<1>3. hand' = [hand EXCEPT ![w] = h]
  OBVIOUS
<1> HIDE DEF h
<1>4. ListsDistinct'
  BY <1>1 DEF ListsDistinct
<1>5. \A v \in Workers : Custody(v)' = IF v = w THEN Custody(w) \cup {h} ELSE Custody(v)
  BY <1>1, <1>3, AlertWorkerAssumption DEF Custody, TypeOK
<1>6. \A v \in Workers : PlacesDisjoint(v)'
  BY <1>2, <1>3 DEF PlacesDisjoint, Hand, Custody, TypeOK
<1>7. CustodyExclusive'
  BY <1>1, <1>2, <1>3, <1>5 DEF CustodyExclusive
<1>8. CustodyComplete'
  BY <1>1, <1>2, <1>3, <1>5 DEF CustodyComplete
<1> QED BY <1>4, <1>6, <1>7, <1>8

(* The oldest alert leaves the list for good.                               *)
LEMMA LostConserved ==
    ASSUME TypeOK, Conserved, queue # <<>>, queue' = Tail(queue),
           UNCHANGED <<published, backlog, running, failing, hand>>,
           outcome' = [outcome EXCEPT ![Head(queue)] = "lost"]
    PROVE  Conserved'
<1> USE DEF Conserved
<1> DEFINE h == Head(queue)
<1>1. /\ h \in ToSet(queue) /\ h \in Alerts
      /\ ToSet(queue') = ToSet(queue) \ {h} /\ IsInjective(queue')
  BY ListSets DEF ListsDistinct, TypeOK
<1>2. h \in published /\ outcome[h] = "pending" /\ \A v \in Workers : h \notin Custody(v)
  BY <1>1 DEF CustodyExclusive
<1>3. \A a \in Alerts : outcome'[a] = IF a = h THEN "lost" ELSE outcome[a]
  BY DEF TypeOK
<1> HIDE DEF h
<1>4. ListsDistinct'
  BY <1>1 DEF ListsDistinct
<1>5. \A v \in Workers : Custody(v)' = Custody(v)
  BY DEF Custody
<1>6. \A v \in Workers : PlacesDisjoint(v)'
  BY DEF PlacesDisjoint, Hand
<1>7. CustodyExclusive'
  BY <1>1, <1>2, <1>3, <1>5 DEF CustodyExclusive
<1>8. CustodyComplete'
  BY <1>1, <1>2, <1>3, <1>5 DEF CustodyComplete
<1> QED BY <1>4, <1>6, <1>7, <1>8

LEMMA CustodyAlerts ==
    ASSUME TypeOK, Conserved
    PROVE  /\ ToSet(queue) \subseteq Alerts
           /\ \A w \in Workers : ToSet(backlog[w]) \subseteq Alerts
           /\ \A w \in Workers : Custody(w) \subseteq Alerts
<1>1. \A w \in Workers : ToSet(backlog[w]) \subseteq Alerts
  BY ListSets DEF Conserved, ListsDistinct, TypeOK
<1> QED BY <1>1, ListSets DEF Conserved, ListsDistinct, TypeOK, Custody

(* The alert moves between two places of one worker.                       *)
LEMMA DispatchConserved ==
    ASSUME TypeOK, Conserved, NEW w \in Workers, Dispatch(w)
    PROVE  Conserved'
<1> USE DEF Conserved
<1> DEFINE h == hand[w]
<1>1. h \in Alerts /\ h \in Hand(w) /\ h \notin ToSet(backlog[w])
  BY DEF Dispatch, Wellformed, TypeOK, Hand, PlacesDisjoint
<1>2. ToSet(backlog[w]') = ToSet(backlog[w]) \cup {h} /\ IsInjective(backlog[w]')
  BY <1>1, ListSets DEF Dispatch, ListsDistinct, TypeOK
<1>3. \A v \in Workers : v # w => backlog[v]' = backlog[v]
  BY DEF Dispatch, TypeOK
<1>4. \A v \in Workers : Hand(v)' = IF v = w THEN {} ELSE Hand(v)
  BY AlertWorkerAssumption DEF Dispatch, Hand, TypeOK
<1>5. UNCHANGED <<queue, published, outcome, running, failing>>
  BY DEF Dispatch, queueVars
<1>6. Hand(w) = {h}
  BY <1>1 DEF Hand
<1> HIDE DEF h
<1>7. \A v \in Workers : Custody(v)' = Custody(v)
  BY <1>2, <1>3, <1>4, <1>5, <1>6 DEF Custody, Hand
<1>8. ListsDistinct'
  BY <1>2, <1>3, <1>5 DEF ListsDistinct
<1>9. \A v \in Workers : PlacesDisjoint(v)'
  BY <1>1, <1>2, <1>3, <1>4, <1>5 DEF PlacesDisjoint
<1> QED BY <1>5, <1>7, <1>8, <1>9 DEF CustodyExclusive, CustodyComplete

LEMMA AcquireConserved ==
    ASSUME TypeOK, Conserved, NEW w \in Workers, Acquire(w)
    PROVE  Conserved'
<1> USE DEF Conserved
<1> DEFINE h == Head(backlog[w])
<1>1. /\ h \in ToSet(backlog[w])
      /\ ToSet(backlog[w]') = ToSet(backlog[w]) \ {h}
      /\ IsInjective(backlog[w]')
  BY ListSets DEF Acquire, ListsDistinct, TypeOK
<1>2. \A v \in Workers :
         /\ v # w => backlog[v]' = backlog[v]
         /\ running[v]' = IF v = w THEN running[w] \cup {h} ELSE running[v]
         /\ Hand(v)' = Hand(v)
  BY DEF Acquire, TypeOK, Hand, loopVars
<1>3. UNCHANGED <<queue, published, outcome, failing, hand>>
  BY DEF Acquire, queueVars, loopVars
<1> HIDE DEF h
<1>4. \A v \in Workers : Custody(v)' = Custody(v)
  BY <1>1, <1>2, <1>3 DEF Custody, Hand
<1>5. ListsDistinct'
  BY <1>1, <1>2, <1>3 DEF ListsDistinct
<1>6. \A v \in Workers : PlacesDisjoint(v)'
  BY <1>1, <1>2, <1>3 DEF PlacesDisjoint
<1> QED BY <1>3, <1>4, <1>5, <1>6 DEF CustodyExclusive, CustodyComplete

LEMMA ProcessErrorConserved ==
    ASSUME TypeOK, Conserved, NEW w \in Workers, NEW a \in Alerts, ProcessError(w, a)
    PROVE  Conserved'
<1> USE DEF Conserved
<1>1. \A v \in Workers :
         /\ running[v]' = IF v = w THEN running[w] \ {a} ELSE running[v]
         /\ failing[v]' = IF v = w THEN failing[w] \cup {a} ELSE failing[v]
         /\ Hand(v)' = Hand(v)
  BY DEF ProcessError, TypeOK, Hand, loopVars
<1>2. UNCHANGED <<queue, published, outcome, backlog, hand>> /\ a \in running[w]
  BY DEF ProcessError, queueVars, loopVars
<1>3. \A v \in Workers : Custody(v)' = Custody(v)
  BY <1>1, <1>2 DEF Custody, Hand
<1>4. ListsDistinct'
  BY <1>2 DEF ListsDistinct
<1>5. \A v \in Workers : PlacesDisjoint(v)'
  BY <1>1, <1>2 DEF PlacesDisjoint
<1> QED BY <1>2, <1>3, <1>4, <1>5 DEF CustodyExclusive, CustodyComplete

(* A task ends.                                                            *)
LEMMA TaskEndConserved ==
    ASSUME TypeOK, Conserved, NEW w \in Workers, NEW a \in running[w] \cup failing[w],
           NEW result \in Outcomes, outcome' = [outcome EXCEPT ![a] = result],
           \A v \in Workers :
              /\ running[v]' = IF v = w THEN running[w] \ {a} ELSE running[v]
              /\ failing[v]' = IF v = w THEN failing[w] \ {a} ELSE failing[v],
           UNCHANGED <<queue, published, backlog, hand>>
    PROVE  Conserved'
<1> USE DEF Conserved
<1>1. a \in Alerts /\ a \in Custody(w) /\ a \notin Hand(w) /\ a \notin ToSet(backlog[w])
  BY DEF TypeOK, Custody, PlacesDisjoint
<1>2. \A v \in Workers : Custody(v)' = IF v = w THEN Custody(w) \ {a} ELSE Custody(v)
  BY <1>1 DEF Custody, Hand
<1>3. /\ outcome'[a] # "pending"
      /\ \A b \in Alerts : b # a => outcome'[b] = outcome[b]
  BY <1>1 DEF Outcomes, TypeOK
<1>4. /\ a \notin ToSet(queue) /\ a \in published
      /\ \A v \in Workers : v # w => a \notin Custody(v)
  BY <1>1 DEF CustodyExclusive
<1>5. /\ ToSet(queue) \subseteq Alerts
      /\ \A v \in Workers : Custody(v) \subseteq Alerts
  BY CustodyAlerts
<1>6. ListsDistinct'
  BY DEF ListsDistinct
<1>7. \A v \in Workers : PlacesDisjoint(v)'
  BY DEF PlacesDisjoint, Hand
<1>8. CustodyExclusive'
  BY <1>2, <1>3, <1>4, <1>5 DEF CustodyExclusive
<1>9. CustodyComplete'
  BY <1>2, <1>3, <1>4 DEF CustodyComplete
<1> QED BY <1>6, <1>7, <1>8, <1>9

LEMMA StopConserved ==
    ASSUME TypeOK, Conserved, NEW w \in Workers, StopProcess(w)
    PROVE  Conserved'
<1> USE DEF Conserved
<1>1. \A v \in Workers :
         /\ Hand(v)' = IF v = w THEN {} ELSE Hand(v)
         /\ backlog[v]' = IF v = w THEN <<>> ELSE backlog[v]
         /\ running[v]' = IF v = w THEN {} ELSE running[v]
         /\ failing[v]' = IF v = w THEN {} ELSE failing[v]
  BY AlertWorkerAssumption DEF StopProcess, TypeOK, Hand
<1>2. \A v \in Workers : Custody(v)' = IF v = w THEN {} ELSE Custody(v)
  BY <1>1, EmptyList DEF Custody, Hand
<1>3. UNCHANGED <<queue, published>>
  BY DEF StopProcess, queueVars
<1>4. \A a \in Alerts : IF a \in Custody(w) THEN outcome'[a] # "pending"
                                            ELSE outcome'[a] = outcome[a]
  BY DEF StopProcess
<1>5. /\ ToSet(queue) \subseteq Alerts
      /\ \A v \in Workers : Custody(v) \subseteq Alerts
  BY CustodyAlerts
<1>6. ListsDistinct'
  BY <1>1, <1>3, EmptyList DEF ListsDistinct
<1>7. \A v \in Workers : PlacesDisjoint(v)'
  BY <1>1, EmptyList DEF PlacesDisjoint
<1>8. CustodyExclusive'
  BY <1>2, <1>3, <1>4, <1>5 DEF CustodyExclusive
<1>9. CustodyComplete'
  BY <1>2, <1>3, <1>4 DEF CustodyComplete, CustodyExclusive
<1> QED BY <1>6, <1>7, <1>8, <1>9

LEMMA InitConserved == Init => Conserved
<1> SUFFICES ASSUME Init PROVE Conserved
  OBVIOUS
<1>1. \A w \in Workers : Custody(w) = {} /\ Hand(w) = {}
  BY EmptyList, AlertWorkerAssumption DEF Init, Custody, Hand
<1> QED BY <1>1, EmptyList
        DEF Init, Conserved, ListsDistinct, PlacesDisjoint, CustodyExclusive,
            CustodyComplete

LEMMA LoopConserved ==
    ASSUME TypeOK, Conserved, NEW w \in Workers, Loop(w)
    PROVE  Conserved'
<1>1. CASE LoopTop(w)
  BY <1>1, NoMoveConserved DEF LoopTop, queueVars, taskVars
<1>2. CASE PollTimeout(w)
  BY <1>2, NoMoveConserved DEF PollTimeout, queueVars, taskVars
<1>3. CASE Pop(w)
  <2>1. hand[w] = NoAlert
    BY <1>3 DEF Pop, TypeOK
  <2> QED BY <1>3, <2>1, LeaveConserved DEF Pop, taskVars
<1>4. ASSUME Discard(w) \/ DropDuplicate(w) \/ DegradedPush(w)
      PROVE  Conserved'
  <2>1. hand[w] # NoAlert
    BY <1>4 DEF Discard, DropDuplicate, DegradedPush, Wellformed, TypeOK
  <2>2. PICK result \in Outcomes : PutDown(w, result, "top")
    BY <1>4 DEF Discard, DropDuplicate, DegradedPush, Outcomes
  <2> QED BY <1>4, <2>1, <2>2, PutDownConserved
          DEF Discard, DropDuplicate, DegradedPush, queueVars, taskVars
<1>5. CASE Degrade(w)
  BY <1>5, NoMoveConserved DEF Degrade, queueVars, taskVars
<1>6. CASE Wake(w)
  BY <1>6, NoMoveConserved DEF Wake, queueVars, taskVars
<1> QED BY <1>1, <1>2, <1>3, <1>4, <1>5, <1>6, DispatchConserved, StopConserved
        DEF Loop, Exit

LEMMA TaskConserved ==
    ASSUME TypeOK, Conserved, NEW w \in Workers, NEW a \in Alerts,
           \/ ProcessOk(w, a) \/ ProcessError(w, a)
           \/ \E result \in Outcomes : EndFailed(w, a, result)
    PROVE  Conserved'
<1>1. CASE ProcessOk(w, a)
  <2>1. /\ a \in running[w] \cup failing[w]
        /\ "processed" \in Outcomes
        /\ outcome' = [outcome EXCEPT ![a] = "processed"]
        /\ UNCHANGED <<queue, published, backlog, hand>>
    BY <1>1 DEF ProcessOk, Outcomes, queueVars, loopVars
  <2>2. \A v \in Workers :
          /\ running[v]' = IF v = w THEN running[w] \ {a} ELSE running[v]
          /\ failing[v]' = IF v = w THEN failing[w] \ {a} ELSE failing[v]
    BY <1>1 DEF ProcessOk, TypeOK, Conserved, PlacesDisjoint
  <2> QED BY <2>1, <2>2, TaskEndConserved
<1>2. ASSUME NEW result \in Outcomes, EndFailed(w, a, result)
      PROVE  Conserved'
  <2>1. /\ a \in running[w] \cup failing[w]
        /\ outcome' = [outcome EXCEPT ![a] = result]
        /\ UNCHANGED <<queue, published, backlog, hand>>
    BY <1>2 DEF EndFailed, queueVars, loopVars
  <2>2. \A v \in Workers :
          /\ running[v]' = IF v = w THEN running[w] \ {a} ELSE running[v]
          /\ failing[v]' = IF v = w THEN failing[w] \ {a} ELSE failing[v]
    BY <1>2 DEF EndFailed, TypeOK, Conserved, PlacesDisjoint
  <2> QED BY <2>1, <2>2, TaskEndConserved
<1> QED BY <1>1, <1>2, ProcessErrorConserved

LEMMA EnvironmentConserved ==
    ASSUME TypeOK, Conserved, NEW w \in Workers, Environment(w)
    PROVE  Conserved'
<1>1. CASE PopError(w)
  <2>1. CASE UNCHANGED <<queue, outcome>>
    BY <1>1, <2>1, NoMoveConserved DEF PopError, taskVars
  <2>2. CASE /\ queue # <<>>
             /\ queue' = Tail(queue)
             /\ outcome' = [outcome EXCEPT ![Head(queue)] = "lost"]
    BY <1>1, <2>2, LostConserved DEF PopError, taskVars
  <2> QED BY <1>1, <2>1, <2>2 DEF PopError
<1>2. CASE DegradedPushError(w)
  <2>1. hand[w] # NoAlert
    BY <1>2 DEF DegradedPushError, TypeOK
  <2>2. PICK result \in Outcomes : PutDown(w, result, "sleeping")
    BY <1>2 DEF DegradedPushError, Outcomes
  <2> QED BY <1>2, <2>1, <2>2, PutDownConserved DEF DegradedPushError, queueVars, taskVars
<1>3. ASSUME NEW a \in Alerts, FailedPushError(w, a)
      PROVE  Conserved'
  BY <1>3, TaskConserved DEF FailedPushError, Outcomes
<1>4. CASE Signal(w)
  BY <1>4, NoMoveConserved DEF Signal, queueVars, taskVars
<1>5. CASE Crash(w)
  BY <1>5, StopConserved DEF Crash
<1>6. CASE Restart(w)
  BY <1>6, NoMoveConserved DEF Restart, queueVars, taskVars
<1> QED BY <1>1, <1>2, <1>3, <1>4, <1>5, <1>6 DEF Environment

LEMMA NextConserved == TypeOK /\ Conserved /\ [Next]_vars => Conserved'
<1> SUFFICES ASSUME TypeOK, Conserved, [Next]_vars PROVE Conserved'
  OBVIOUS
<1>1. ASSUME NEW w \in Workers, NEW a \in Alerts, Task(w, a)
      PROVE  Conserved'
  BY <1>1, TaskConserved DEF Task, FailedPush, Outcomes
<1>2. CASE Tick
  BY <1>2, NoMoveConserved DEF Tick, queueVars, taskVars
<1>3. CASE UNCHANGED vars
  BY <1>3, NoMoveConserved DEF vars, queueVars, loopVars, taskVars
<1> QED BY <1>1, <1>2, <1>3, PublishConserved, LoopConserved, AcquireConserved,
           EnvironmentConserved DEF Next

LEMMA ConservedPlaces == TypeOK /\ Conserved => AlertConserved
<1> SUFFICES ASSUME TypeOK, Conserved, NEW a \in Alerts
             PROVE  IF a \in published THEN \E p \in Places(a) : Places(a) = {p}
                                       ELSE Places(a) = {}
  BY DEF AlertConserved
<1> DEFINE indices    == {j \in DOMAIN queue : queue[j] = a}
           holders    == {v \in Workers : hand[v] = a}
           queuers    == {v \in Workers : a \in ToSet(backlog[v])}
           processors == {v \in Workers : a \in running[v]}
           pushers    == {v \in Workers : a \in failing[v]}
<1>1. Places(a) = {<<"queue", i>> : i \in indices}
                  \cup {<<"hand", w>> : w \in holders}
                  \cup {<<"backlog", w>> : w \in queuers}
                  \cup {<<"running", w>> : w \in processors}
                  \cup {<<"failing", w>> : w \in pushers}
                  \cup (IF outcome[a] = "pending" THEN {} ELSE {<<"outcome">>})
  BY DEF Places
<1>2. IF a \in ToSet(queue) THEN \E i : indices = {i} ELSE indices = {}
  <2>1. CASE a \in ToSet(queue)
    <3>1. PICK i \in DOMAIN queue : queue[i] = a
      BY <2>1 DEF ToSet
    <3>2. \A j \in DOMAIN queue : queue[j] = a => j = i
      BY <3>1 DEF Conserved, ListsDistinct, IsInjective
    <3>3. indices = {i}
      BY <3>1, <3>2
    <3> QED BY <2>1, <3>3
  <2>2. CASE a \notin ToSet(queue)
    BY <2>2 DEF ToSet
  <2> QED BY <2>1, <2>2
<1>3. \A w \in Workers :
         a \in Custody(w) <=> w \in holders \cup queuers \cup processors \cup pushers
  BY DEF Custody
<1>4. \A w \in Workers :
         /\ ~(w \in holders /\ w \in queuers \cup processors \cup pushers)
         /\ ~(w \in queuers /\ w \in processors \cup pushers)
         /\ ~(w \in processors /\ w \in pushers)
  BY DEF Conserved, PlacesDisjoint, Hand
<1>5. /\ holders \subseteq Workers /\ queuers \subseteq Workers
      /\ processors \subseteq Workers /\ pushers \subseteq Workers
  OBVIOUS
<1> HIDE DEF indices, holders, queuers, processors, pushers
<1>6. ASSUME \A w \in Workers : a \notin Custody(w)
      PROVE  holders = {} /\ queuers = {} /\ processors = {} /\ pushers = {}
  BY <1>3, <1>5, <1>6
<1>7. CASE a \notin published
  BY <1>1, <1>2, <1>6, <1>7 DEF Conserved, CustodyExclusive, CustodyComplete
<1>8. CASE a \in published /\ outcome[a] # "pending"
  <2>1. indices = {} /\ \A w \in Workers : a \notin Custody(w)
    BY <1>2, <1>8 DEF Conserved, CustodyExclusive
  <2>2. Places(a) = {<<"outcome">>}
    BY <1>1, <1>6, <1>8, <2>1
  <2> QED BY <1>8, <2>2
<1>9. CASE a \in published /\ outcome[a] = "pending" /\ a \in ToSet(queue)
  <2>1. PICK i : indices = {i}
    BY <1>2, <1>9
  <2>2. \A w \in Workers : a \notin Custody(w)
    BY <1>9 DEF Conserved, CustodyExclusive
  <2>3. Places(a) = {<<"queue", i>>}
    BY <1>1, <1>6, <1>9, <2>1, <2>2
  <2> QED BY <1>9, <2>3
<1>10. CASE a \in published /\ outcome[a] = "pending" /\ a \notin ToSet(queue)
  <2>1. PICK w \in Workers : a \in Custody(w)
    BY <1>10 DEF Conserved, CustodyComplete
  <2>2. \A v \in Workers : v # w => a \notin Custody(v)
    BY <2>1 DEF Conserved, CustodyExclusive
  <2>3. /\ holders \subseteq {w} /\ queuers \subseteq {w}
        /\ processors \subseteq {w} /\ pushers \subseteq {w}
    BY <1>3, <1>5, <2>2
  <2>4. indices = {}
    BY <1>2, <1>10
  <2>5. CASE w \in holders
    <3>1. holders = {w} /\ queuers = {} /\ processors = {} /\ pushers = {}
      BY <1>4, <2>3, <2>5
    <3>2. Places(a) = {<<"hand", w>>}
      BY <1>1, <1>10, <2>4, <3>1
    <3> QED BY <1>10, <3>2
  <2>6. CASE w \in queuers
    <3>1. holders = {} /\ queuers = {w} /\ processors = {} /\ pushers = {}
      BY <1>4, <2>3, <2>6
    <3>2. Places(a) = {<<"backlog", w>>}
      BY <1>1, <1>10, <2>4, <3>1
    <3> QED BY <1>10, <3>2
  <2>7. CASE w \in processors
    <3>1. holders = {} /\ queuers = {} /\ processors = {w} /\ pushers = {}
      BY <1>4, <2>3, <2>7
    <3>2. Places(a) = {<<"running", w>>}
      BY <1>1, <1>10, <2>4, <3>1
    <3> QED BY <1>10, <3>2
  <2>8. CASE w \in pushers
    <3>1. holders = {} /\ queuers = {} /\ processors = {} /\ pushers = {w}
      BY <1>4, <2>3, <2>8
    <3>2. Places(a) = {<<"failing", w>>}
      BY <1>1, <1>10, <2>4, <3>1
    <3> QED BY <1>10, <3>2
  <2> QED BY <1>3, <2>1, <2>5, <2>6, <2>7, <2>8
<1> QED BY <1>7, <1>8, <1>9, <1>10

(* No alert is processed twice and none disappears: a published alert is    *)
(* in exactly one place, through every hand-over of the worker.            *)
THEOREM NoAlertLostOrDoubled == Spec => []AlertConserved
<1>1. Init => TypeOK /\ Conserved
  BY InitTypeOK, InitConserved
<1>2. TypeOK /\ Conserved /\ [Next]_vars => (TypeOK /\ Conserved)'
  BY NextTypeOK, NextConserved
<1> QED BY <1>1, <1>2, ConservedPlaces, PTL DEF Spec

-----------------------------------------------------------------------------
(* The semaphore.  The tasks that hold a permit of worker w.               *)

Holders(w) == running[w] \cup failing[w]

PermitsBalance ==
    \A w \in Workers :
        /\ IsFiniteSet(Holders(w))
        /\ permits[w] + Cardinality(Holders(w)) = MaxConcurrent

(* One permit changes hands.                                               *)
LEMMA PermitTaken ==
    ASSUME NEW S, NEW x, x \notin S, IsFiniteSet(S), NEW p \in Nat, p > 0
    PROVE  /\ IsFiniteSet(S \cup {x})
           /\ p - 1 + Cardinality(S \cup {x}) = p + Cardinality(S)
<1>1. IsFiniteSet(S \cup {x}) /\ Cardinality(S \cup {x}) = Cardinality(S) + 1
  BY FS_AddElement
<1>2. Cardinality(S) \in Nat
  BY FS_CardinalityType
<1> QED BY <1>1, <1>2

LEMMA PermitReturned ==
    ASSUME NEW S, NEW x \in S, IsFiniteSet(S), NEW p \in Nat
    PROVE  /\ IsFiniteSet(S \ {x})
           /\ p + 1 + Cardinality(S \ {x}) = p + Cardinality(S)
<1>1. IsFiniteSet(S \ {x}) /\ Cardinality(S \ {x}) = Cardinality(S) - 1
  BY FS_RemoveElement
<1>2. Cardinality(S) \in Nat
  BY FS_CardinalityType
<1> QED BY <1>1, <1>2

(* No alert of a worker is in two of its places.                            *)
Separate == ListsDistinct /\ \A w \in Workers : PlacesDisjoint(w)

LEMMA NextPermits == TypeOK /\ Separate /\ PermitsBalance /\ [Next]_vars => PermitsBalance'
<1> SUFFICES ASSUME TypeOK, Separate, PermitsBalance, [Next]_vars PROVE PermitsBalance'
  OBVIOUS
<1>1. ASSUME UNCHANGED <<running, failing, permits>> PROVE PermitsBalance'
  BY <1>1 DEF PermitsBalance, Holders
<1>2. ASSUME NEW w \in Workers, Acquire(w) PROVE PermitsBalance'
  <2> DEFINE h == Head(backlog[w])
  <2>1. \A v \in Workers :
          /\ Holders(v)' = IF v = w THEN Holders(w) \cup {h} ELSE Holders(v)
          /\ permits'[v] = IF v = w THEN permits[w] - 1 ELSE permits[v]
    BY <1>2 DEF Acquire, TypeOK, Holders
  <2>2. h \in ToSet(backlog[w])
    BY <1>2, ListSets DEF Acquire, TypeOK, Separate, ListsDistinct
  <2>3. h \notin Holders(w)
    BY <2>2 DEF Separate, PlacesDisjoint, Holders
  <2>4. permits[w] \in Nat /\ permits[w] > 0
    BY <1>2 DEF Acquire, TypeOK
  <2> HIDE DEF h
  <2> QED BY <2>1, <2>3, <2>4, PermitTaken DEF PermitsBalance
<1>3. ASSUME NEW w \in Workers, NEW a \in Alerts, ProcessOk(w, a) PROVE PermitsBalance'
  <2>1. a \in Holders(w) /\ permits[w] \in Nat
    BY <1>3 DEF ProcessOk, Holders, TypeOK
  <2>2. \A v \in Workers :
          /\ Holders(v)' = IF v = w THEN Holders(w) \ {a} ELSE Holders(v)
          /\ permits'[v] = IF v = w THEN permits[w] + 1 ELSE permits[v]
    BY <1>3 DEF ProcessOk, TypeOK, Holders, Separate, PlacesDisjoint
  <2>3. /\ IsFiniteSet(Holders(w) \ {a})
        /\ permits[w] + 1 + Cardinality(Holders(w) \ {a}) = MaxConcurrent
    BY <2>1, PermitReturned DEF PermitsBalance
  <2> QED BY <2>2, <2>3 DEF PermitsBalance
<1>4. ASSUME NEW w \in Workers, NEW a \in Alerts, ProcessError(w, a) PROVE PermitsBalance'
  <2>1. \A v \in Workers : Holders(v)' = Holders(v) /\ permits'[v] = permits[v]
    BY <1>4 DEF ProcessError, TypeOK, Holders
  <2> QED BY <2>1 DEF PermitsBalance
<1>5. ASSUME NEW w \in Workers, NEW a \in Alerts, NEW result, EndFailed(w, a, result)
      PROVE  PermitsBalance'
  <2>1. a \in Holders(w) /\ permits[w] \in Nat
    BY <1>5 DEF EndFailed, Holders, TypeOK
  <2>2. \A v \in Workers :
          /\ Holders(v)' = IF v = w THEN Holders(w) \ {a} ELSE Holders(v)
          /\ permits'[v] = IF v = w THEN permits[w] + 1 ELSE permits[v]
    BY <1>5 DEF EndFailed, TypeOK, Holders, Separate, PlacesDisjoint
  <2>3. /\ IsFiniteSet(Holders(w) \ {a})
        /\ permits[w] + 1 + Cardinality(Holders(w) \ {a}) = MaxConcurrent
    BY <2>1, PermitReturned DEF PermitsBalance
  <2> QED BY <2>2, <2>3 DEF PermitsBalance
<1>6. ASSUME NEW w \in Workers, StopProcess(w) PROVE PermitsBalance'
  <2>1. \A v \in Workers :
          /\ Holders(v)' = IF v = w THEN {} ELSE Holders(v)
          /\ permits'[v] = IF v = w THEN MaxConcurrent ELSE permits[v]
    BY <1>6 DEF StopProcess, TypeOK, Holders
  <2> QED BY <2>1, FS_EmptySet, AlertWorkerAssumption DEF PermitsBalance
<1>7. ASSUME NEW w \in Workers, Loop(w) PROVE PermitsBalance'
  <2>1. CASE Dispatch(w)
    BY <1>1, <2>1 DEF Dispatch
  <2>2. CASE Exit(w)
    BY <1>6, <2>2 DEF Exit
  <2> QED BY <1>1, <1>7, <2>1, <2>2
          DEF Loop, LoopTop, PollTimeout, Pop, Discard, DropDuplicate, Degrade,
              DegradedPush, Wake, taskVars
<1>8. ASSUME NEW w \in Workers, Environment(w) PROVE PermitsBalance'
  <2>1. CASE Crash(w)
    BY <1>6, <2>1 DEF Crash
  <2>2. ASSUME NEW a \in Alerts, FailedPushError(w, a) PROVE PermitsBalance'
    BY <1>5, <2>2 DEF FailedPushError
  <2> QED BY <1>1, <1>8, <2>1, <2>2
          DEF Environment, PopError, DegradedPushError, Signal, Restart, taskVars
<1>9. ASSUME NEW w \in Workers, NEW a \in Alerts, Task(w, a) PROVE PermitsBalance'
  BY <1>3, <1>4, <1>5, <1>9 DEF Task, FailedPush
<1>10. CASE Tick
  BY <1>1, <1>10 DEF Tick, taskVars
<1>11. CASE UNCHANGED vars
  BY <1>1, <1>11 DEF vars, taskVars
<1>12. ASSUME NEW a \in Alerts, Publish(a) PROVE PermitsBalance'
  BY <1>1, <1>12 DEF Publish, taskVars
<1> QED BY <1>2, <1>7, <1>8, <1>9, <1>10, <1>11, <1>12 DEF Next

(* No path through _process_alert_safe leaks a permit, so at most           *)
(* MAX_CONCURRENT_ALERTS tasks of a worker are past the semaphore.          *)
THEOREM PermitsNeverLeak == Spec => []SemaphoreConserved
<1>1. Init => TypeOK /\ Conserved /\ PermitsBalance
  <2>1. Init => PermitsBalance
    BY FS_EmptySet, AlertWorkerAssumption DEF Init, PermitsBalance, Holders
  <2> QED BY <2>1, InitTypeOK, InitConserved
<1>2. TypeOK /\ Conserved /\ PermitsBalance /\ [Next]_vars
         => (TypeOK /\ Conserved /\ PermitsBalance)'
  BY NextTypeOK, NextConserved, NextPermits DEF Conserved, Separate
<1>3. PermitsBalance => SemaphoreConserved
  BY DEF PermitsBalance, SemaphoreConserved, Holders
<1> QED BY <1>1, <1>2, <1>3, PTL DEF Spec

-----------------------------------------------------------------------------
(* The circuit breaker.                                                    *)

Consistent(b) == b.state = "CLOSED" <=> b.failures < Threshold

LEMMA BreakerOpsConsistent ==
    ASSUME NEW b \in Breakers, Consistent(b)
    PROVE  /\ Consistent(NewBreaker)
           /\ Consistent(AfterIsOpen(b))
           /\ Consistent(RecordSuccess(b))
           /\ Consistent(RecordFailure(b))
           /\ Consistent([b EXCEPT !.age = Older(@, ResetTimeout)])
<1> USE AlertWorkerAssumption DEF Consistent, Breakers
<1>1. Consistent(NewBreaker)
  BY DEF NewBreaker
<1>2. Consistent(AfterIsOpen(b))
  BY DEF AfterIsOpen
<1>3. Consistent(RecordSuccess(b))
  BY DEF RecordSuccess
<1>4. Consistent(RecordFailure(b))
  BY DEF RecordFailure
<1>5. Consistent([b EXCEPT !.age = Older(@, ResetTimeout)])
  OBVIOUS
<1> QED BY <1>1, <1>2, <1>3, <1>4, <1>5

(* How a step changes the breaker of a worker.                             *)
LEMMA BreakerSteps ==
    ASSUME TypeOK, [Next]_vars, NEW w \in Workers
    PROVE  breaker'[w] \in {breaker[w], NewBreaker, AfterIsOpen(breaker[w]),
                            RecordSuccess(breaker[w]), RecordFailure(breaker[w]),
                            [breaker[w] EXCEPT !.age = Older(@, ResetTimeout)]}
<1>1. CASE UNCHANGED breaker
  BY <1>1
<1>2. ASSUME NEW v \in Workers, Loop(v) \/ Environment(v) \/ Acquire(v)
      PROVE  \/ UNCHANGED breaker
             \/ breaker' = [breaker EXCEPT ![v] = AfterIsOpen(@)]
             \/ breaker' = [breaker EXCEPT ![v] = NewBreaker]
  <2>1. CASE Loop(v)
    BY <2>1 DEF Loop, LoopTop, PollTimeout, Pop, Discard, DropDuplicate, Degrade, Dispatch,
                DegradedPush, Wake, Exit, StopProcess
  <2>2. CASE Environment(v)
    BY <2>2 DEF Environment, PopError, DegradedPushError, FailedPushError, EndFailed,
                Signal, Crash, Restart, StopProcess
  <2>3. CASE Acquire(v)
    BY <2>3 DEF Acquire
  <2> QED BY <1>2, <2>1, <2>2, <2>3
<1>3. ASSUME NEW v \in Workers, NEW a \in Alerts, Task(v, a)
      PROVE  \/ UNCHANGED breaker
             \/ breaker' = [breaker EXCEPT ![v] = RecordSuccess(@)]
             \/ breaker' = [breaker EXCEPT ![v] = RecordFailure(@)]
  BY <1>3 DEF Task, ProcessOk, ProcessError, FailedPush, EndFailed
<1>4. CASE Tick
  BY <1>4 DEF Tick
<1>5. CASE \E a \in Alerts : Publish(a)
  BY <1>1, <1>5 DEF Publish
<1>6. CASE UNCHANGED vars
  BY <1>1, <1>6 DEF vars
<1>7. breaker \in [Workers -> Breakers]
  BY DEF TypeOK
<1>8. CASE \E v \in Workers : Loop(v) \/ Environment(v) \/ Acquire(v)
  BY <1>2, <1>7, <1>8
<1>9. CASE \E v \in Workers, a \in Alerts : Task(v, a)
  BY <1>3, <1>7, <1>9
<1> QED BY <1>4, <1>5, <1>6, <1>8, <1>9 DEF Next

LEMMA NextBreakers == TypeOK /\ BreakerConsistent /\ [Next]_vars => BreakerConsistent'
<1> SUFFICES ASSUME TypeOK, BreakerConsistent, [Next]_vars, NEW w \in Workers
             PROVE  Consistent(breaker'[w])
  BY DEF BreakerConsistent, Consistent
<1>1. breaker[w] \in Breakers /\ Consistent(breaker[w])
  BY DEF TypeOK, BreakerConsistent, Consistent
<1> QED BY <1>1, BreakerSteps, BreakerOpsConsistent

(* The failure count and the state of a breaker agree in whatever order the *)
(* tasks of a worker end.                                                  *)
THEOREM BreakersAgree == Spec => []BreakerConsistent
<1>1. Init => BreakerConsistent
  BY AlertWorkerAssumption DEF Init, BreakerConsistent, NewBreaker
<1>2. TypeOK /\ [Next]_vars => TypeOK'
  BY NextTypeOK
<1> QED BY <1>1, <1>2, NextBreakers, InitTypeOK, PTL DEF Spec

-----------------------------------------------------------------------------
(* Delivery.  Seen from the list a step is one of three things.            *)

Arrival(a) ==
    /\ a \notin published
    /\ published' = published \cup {a}
    /\ queue' = Append(queue, a)
    /\ UNCHANGED outcome

Departure ==
    /\ queue # <<>>
    /\ queue' = Tail(queue)
    /\ outcome' = outcome \/ outcome' = [outcome EXCEPT ![Head(queue)] = "lost"]
    /\ UNCHANGED published

Settlement ==
    /\ \A a \in Alerts :
          \/ outcome'[a] = outcome[a]
          \/ outcome'[a] \in Outcomes /\ \E w \in Workers : a \in Custody(w)
    /\ UNCHANGED <<published, queue>>

LEMMA PutDownShape ==
    ASSUME TypeOK, NEW w \in Workers, NEW result \in Outcomes, NEW next,
           PutDown(w, result, next), UNCHANGED <<published, queue>>
    PROVE  Settlement
BY DEF PutDown, Settlement, Custody, TypeOK

LEMMA StopShape ==
    ASSUME NEW w \in Workers, StopProcess(w)
    PROVE  Settlement
BY DEF StopProcess, Settlement, Outcomes, queueVars

LEMMA LoopShape ==
    ASSUME TypeOK, NEW w \in Workers, Loop(w)
    PROVE  Departure \/ Settlement
<1>1. ASSUME UNCHANGED <<published, queue, outcome>>
      PROVE  Settlement
  BY <1>1 DEF Settlement
<1>2. ASSUME LoopTop(w) \/ PollTimeout(w) \/ Degrade(w) \/ Dispatch(w) \/ Wake(w)
      PROVE  UNCHANGED <<published, queue, outcome>>
  BY <1>2 DEF LoopTop, PollTimeout, Degrade, Dispatch, Wake, queueVars
<1>3. ASSUME Discard(w) \/ DropDuplicate(w) \/ DegradedPush(w)
      PROVE  Settlement
  <2>1. PICK result \in Outcomes : PutDown(w, result, "top")
    BY <1>3 DEF Discard, DropDuplicate, DegradedPush, Outcomes
  <2>2. UNCHANGED <<published, queue>>
    BY <1>3 DEF Discard, DropDuplicate, DegradedPush, queueVars
  <2> QED BY <2>1, <2>2, PutDownShape
<1>4. CASE Pop(w)
  BY <1>4 DEF Pop, Departure
<1>5. CASE Exit(w)
  BY <1>5, StopShape DEF Exit
<1> QED BY <1>1, <1>2, <1>3, <1>4, <1>5 DEF Loop

LEMMA NextShape ==
    ASSUME TypeOK, [Next]_vars
    PROVE  (\E a \in Alerts : Arrival(a)) \/ Departure \/ Settlement
<1>1. ASSUME UNCHANGED <<published, queue, outcome>>
      PROVE  Settlement
  BY <1>1 DEF Settlement
<1>2. ASSUME NEW a \in Alerts, Publish(a)
      PROVE  Arrival(a)
  BY <1>2 DEF Publish, Arrival
<1>3. ASSUME NEW w \in Workers, Acquire(w) \/ Signal(w) \/ Restart(w)
      PROVE  UNCHANGED <<published, queue, outcome>>
  BY <1>3 DEF Acquire, Signal, Restart, queueVars
<1>4. ASSUME NEW w \in Workers, NEW a \in Alerts, Task(w, a) \/ FailedPushError(w, a)
      PROVE  Settlement
  <2>1. CASE ProcessError(w, a)
    BY <2>1, <1>1 DEF ProcessError, queueVars
  <2>2. CASE ProcessOk(w, a)
    BY <2>2 DEF ProcessOk, queueVars, Settlement, Outcomes, Custody, TypeOK
  <2>3. ASSUME NEW result \in Outcomes, EndFailed(w, a, result)
        PROVE  Settlement
    BY <2>3 DEF EndFailed, queueVars, Settlement, Custody, TypeOK
  <2> QED BY <1>4, <2>1, <2>2, <2>3 DEF Task, FailedPush, FailedPushError, Outcomes
<1>5. ASSUME NEW w \in Workers, Environment(w)
      PROVE  Departure \/ Settlement
  <2>1. CASE PopError(w)
    BY <2>1, <1>1 DEF PopError, Departure
  <2>2. CASE DegradedPushError(w)
    <3>1. PICK result \in Outcomes : PutDown(w, result, "sleeping")
      BY <2>2 DEF DegradedPushError, Outcomes
    <3> QED BY <2>2, <3>1, PutDownShape DEF DegradedPushError, queueVars
  <2>3. CASE Crash(w)
    BY <2>3, StopShape DEF Crash
  <2> QED BY <1>1, <1>3, <1>4, <1>5, <2>1, <2>2, <2>3 DEF Environment
<1>6. Tick \/ UNCHANGED vars => UNCHANGED <<published, queue, outcome>>
  BY DEF Tick, vars, queueVars
<1> QED BY <1>1, <1>2, <1>3, <1>4, <1>5, <1>6, LoopShape DEF Next

-----------------------------------------------------------------------------
(* What each of the three does to the status of the alerts.  Of Conserved   *)
(* it needs that no alert is twice on the list, and that those on the list  *)
(* or with a worker are there alone: other consumers may take the rest.     *)
Orderly ==
    /\ ListsDistinct
    /\ CustodyExclusive
    /\ \A a \in Alerts : a \notin published => outcome[a] = "pending"

LEMMA ConservedOrderly == Conserved => Orderly
BY DEF Conserved, Orderly, CustodyComplete

LEMMA InitDelivery == Init => Delivery!Init
BY DEF Init, Delivery!Init, StatusOf

LEMMA ArrivalDelivers ==
    ASSUME TypeOK, Orderly, NEW a \in Alerts, Arrival(a)
    PROVE  Delivery!Arrive(a)
<1>1. a \notin ToSet(queue) /\ outcome[a] = "pending"
  BY DEF Arrival, Orderly, CustodyExclusive
<1>2. ToSet(queue') = ToSet(queue) \cup {a}
  BY <1>1, ListSets DEF Arrival, TypeOK, Orderly, ListsDistinct
<1>3. StatusOf(a) = "new" /\ StatusOf(a)' = "waiting"
  BY <1>1, <1>2 DEF Arrival, StatusOf
<1>4. \A b \in Alerts : b # a => StatusOf(b)' = StatusOf(b)
  BY <1>2 DEF Arrival, StatusOf
<1> QED BY <1>3, <1>4 DEF Arrival, Delivery!Arrive

LEMMA DepartureDelivers ==
    ASSUME TypeOK, Orderly, Departure
    PROVE  Delivery!Leave("taken") \/ Delivery!Leave("lost")
<1>0. PICK h \in Alerts : h = Head(queue)
  BY ListSets DEF Departure, TypeOK, Orderly, ListsDistinct
<1>1. /\ h \in ToSet(queue) /\ ToSet(queue) \subseteq Alerts
      /\ ToSet(queue') = ToSet(queue) \ {h}
  BY <1>0, ListSets DEF Departure, TypeOK, Orderly, ListsDistinct
<1>2. h \in published /\ outcome[h] = "pending"
  BY <1>1 DEF Orderly, CustodyExclusive
<1>3. \A b \in Alerts : b # h => outcome'[b] = outcome[b]
  BY <1>0 DEF Departure, TypeOK
<1>4. outcome'[h] = outcome[h] \/ outcome'[h] = "lost"
  BY <1>0 DEF Departure, TypeOK
<1>5. \A b \in Alerts : b # h => StatusOf(b)' = StatusOf(b)
  BY <1>1, <1>3 DEF Departure, StatusOf
<1>6. published' = published
  BY DEF Departure
<1>7. StatusOf(h)' \in {"taken", "lost"}
  <2>1. CASE outcome'[h] = outcome[h]
    BY <1>1, <1>2, <1>6, <2>1 DEF StatusOf
  <2>2. CASE outcome'[h] = "lost"
    BY <1>2, <1>6, <2>2 DEF StatusOf
  <2> QED BY <1>4, <2>1, <2>2
<1>8. PICK to \in {"taken", "lost"} : StatusOf(h)' = to
  BY <1>7
<1>9. [a \in Alerts |-> StatusOf(a)]' = [[a \in Alerts |-> StatusOf(a)] EXCEPT ![h] = to]
  BY <1>1, <1>5, <1>8
<1> QED BY <1>0, <1>8, <1>9 DEF Departure, Delivery!Leave

LEMMA SettlementDelivers ==
    ASSUME TypeOK, Orderly, Settlement
    PROVE  Delivery!Settle
<1>1. \A a \in Alerts : StatusOf(a)' \in Delivery!Statuses
  BY DEF Settlement, StatusOf, Delivery!Statuses, TypeOK
<1>2. ASSUME NEW a \in Alerts
      PROVE  \/ StatusOf(a)' = StatusOf(a)
             \/ StatusOf(a) = "taken" /\ StatusOf(a)' \in Outcomes
  <2>1. CASE outcome'[a] = outcome[a]
    BY <2>1 DEF Settlement, StatusOf
  <2>2. CASE outcome'[a] \in Outcomes /\ \E w \in Workers : a \in Custody(w)
    <3>1. a \in published /\ outcome[a] = "pending" /\ a \notin ToSet(queue)
      BY <2>2 DEF Orderly, CustodyExclusive
    <3>2. outcome'[a] # "pending"
      BY <2>2 DEF Outcomes
    <3> QED BY <2>2, <3>1, <3>2 DEF Settlement, StatusOf
  <2> QED BY <2>1, <2>2 DEF Settlement
<1> QED BY <1>1, <1>2 DEF Settlement, Delivery!Settle

(* The workers implement AlertDelivery: alerts leave the list in arrival    *)
(* order, each is taken by one worker, and its outcome never changes.       *)
THEOREM WorkerDelivers == Spec => DeliverySpec
<1>1. Init => TypeOK /\ Conserved
  BY InitTypeOK, InitConserved
<1>2. TypeOK /\ Conserved /\ [Next]_vars => (TypeOK /\ Conserved)'
  BY NextTypeOK, NextConserved
<1>3. TypeOK /\ Conserved /\ [Next]_vars => [Delivery!Next]_(Delivery!vars)
  BY NextShape, ConservedOrderly, ArrivalDelivers, DepartureDelivers, SettlementDelivers
  DEF Delivery!Next
<1> QED BY <1>1, <1>2, <1>3, InitDelivery, PTL DEF Spec, DeliverySpec, Delivery!Spec

-----------------------------------------------------------------------------
(* Deduplication.  The cache remembers what was let through: the age of an  *)
(* entry is that of the last acceptance, and what was let through in the    *)
(* last Window is in the cache.                                            *)

CacheFaithful ==
    /\ seenAge = sinceAccept
    /\ \A w \in Workers : \A k \in Keys : k \notin seen[w] => seenAge[w][k] > Window

(* How a step changes the caches.                                          *)
LEMMA CacheSteps ==
    ASSUME TypeOK, [Next]_vars
    PROVE  \/ UNCHANGED dedupVars
           \/ \E w \in Workers : CleanupExpired(w) /\ UNCHANGED <<seenAge, sinceAccept>>
           \/ \E w \in Workers, k \in Keys : MarkSeen(w, k)
           \/ \E w \in Workers : StopProcess(w)
           \/ Tick
<1> USE DEF dedupVars
<1>1. ASSUME NEW w \in Workers, Degrade(w) \/ Dispatch(w)
      PROVE  \E k \in Keys : MarkSeen(w, k)
  <2>1. hand[w] \in Alerts
    BY <1>1 DEF Degrade, Dispatch, Wellformed, TypeOK
  <2> QED BY <1>1, <2>1, AlertWorkerAssumption DEF Degrade, Dispatch
<1>2. ASSUME NEW w \in Workers, Loop(w)
      PROVE  \/ UNCHANGED dedupVars
             \/ CleanupExpired(w) /\ UNCHANGED <<seenAge, sinceAccept>>
             \/ \E k \in Keys : MarkSeen(w, k)
             \/ StopProcess(w)
  BY <1>1, <1>2 DEF Loop, LoopTop, PollTimeout, Pop, Discard, DropDuplicate, DegradedPush,
                    Wake, Exit
<1>3. ASSUME NEW w \in Workers, Acquire(w) \/ Environment(w)
      PROVE  UNCHANGED dedupVars \/ StopProcess(w)
  BY <1>3 DEF Acquire, Environment, PopError, DegradedPushError, FailedPushError, EndFailed,
              Signal, Crash, Restart
<1>4. ASSUME NEW w \in Workers, NEW a \in Alerts, Task(w, a)
      PROVE  UNCHANGED dedupVars
  BY <1>4 DEF Task, ProcessOk, ProcessError, FailedPush, EndFailed
<1>5. ASSUME NEW a \in Alerts, Publish(a)
      PROVE  UNCHANGED dedupVars
  BY <1>5 DEF Publish
<1>6. CASE UNCHANGED vars
  BY <1>6 DEF vars
<1> QED BY <1>2, <1>3, <1>4, <1>5, <1>6 DEF Next

LEMMA NextCache == TypeOK /\ CacheFaithful /\ [Next]_vars => CacheFaithful'
<1> SUFFICES ASSUME TypeOK, CacheFaithful, [Next]_vars PROVE CacheFaithful'
  OBVIOUS
<1> USE AlertWorkerAssumption DEF CacheFaithful, TypeOK, SeenAges
<1>1. CASE UNCHANGED dedupVars
  BY <1>1 DEF dedupVars
<1>2. CASE \E w \in Workers : CleanupExpired(w) /\ UNCHANGED <<seenAge, sinceAccept>>
  BY <1>2 DEF CleanupExpired
<1>3. CASE \E w \in Workers, k \in Keys : MarkSeen(w, k)
  BY <1>3 DEF MarkSeen
<1>4. CASE \E w \in Workers : StopProcess(w)
  BY <1>4 DEF StopProcess
<1>5. CASE Tick
  BY <1>5 DEF Tick, Older
<1> QED BY <1>1, <1>2, <1>3, <1>4, <1>5, CacheSteps

(* The only steps that lengthen the backlog of a worker, or send it to the  *)
(* list of degraded alerts, are Dispatch and Degrade.                       *)
LEMMA AcceptingSteps ==
    ASSUME TypeOK, [Next]_vars, NEW w \in Workers
    PROVE  /\ Len(backlog'[w]) > Len(backlog[w]) => Dispatch(w)
           /\ pc[w] = "handling" /\ pc'[w] = "degrading" => Degrade(w)
<1> DEFINE Longer == Len(backlog'[w]) > Len(backlog[w])
           Sent   == pc[w] = "handling" /\ pc'[w] = "degrading"
<1>1. ASSUME backlog'[w] = backlog[w] PROVE ~Longer
  <2>1. Len(backlog[w]) \in Nat
    BY DEF TypeOK, Lists
  <2> QED BY <1>1, <2>1
<1>2. ASSUME pc'[w] = pc[w] PROVE ~Sent
  BY <1>2
<1>3. ASSUME NEW v \in Workers, StopProcess(v)
      PROVE  ~Longer /\ ~Sent
  <2>1. CASE v = w
    <3>1. backlog'[w] = <<>> /\ pc'[w] = "stopped"
      BY <1>3, <2>1 DEF StopProcess, TypeOK
    <3>2. Len(backlog[w]) \in Nat /\ Len(<<>>) = 0
      BY DEF TypeOK, Lists
    <3> QED BY <3>1, <3>2
  <2>2. CASE v # w
    BY <1>1, <1>2, <1>3, <2>2 DEF StopProcess, TypeOK
  <2> QED BY <2>1, <2>2
<1>4. ASSUME NEW v \in Workers, Acquire(v)
      PROVE  ~Longer /\ ~Sent
  <2>1. pc'[w] = pc[w]
    BY <1>4 DEF Acquire, loopVars
  <2>2. CASE v = w
    <3>1. backlog[w] # <<>> /\ backlog'[w] = Tail(backlog[w]) /\ backlog[w] \in Lists
      BY <1>4, <2>2 DEF Acquire, TypeOK
    <3>2. Len(Tail(backlog[w])) = Len(backlog[w]) - 1 /\ Len(backlog[w]) \in Nat
      BY <3>1 DEF Lists
    <3> QED BY <1>2, <2>1, <3>1, <3>2
  <2>3. CASE v # w
    BY <1>1, <1>2, <1>4, <2>1, <2>3 DEF Acquire, TypeOK
  <2> QED BY <2>2, <2>3
<1>5. ASSUME NEW v \in Workers, Loop(v), ~Exit(v)
      PROVE  (Longer => Dispatch(w)) /\ (Sent => Degrade(w))
  <2>1. CASE v = w
    <3>1. ~Dispatch(w) => backlog' = backlog
      BY <1>5, <2>1 DEF Loop, LoopTop, PollTimeout, Pop, Discard, DropDuplicate, Degrade,
                        DegradedPush, Wake, taskVars
    <3>2. Sent => Degrade(w)
      BY <1>5, <2>1 DEF Loop, LoopTop, PollTimeout, Pop, Discard, DropDuplicate, Dispatch,
                        DegradedPush, Wake, PutDown, TypeOK
    <3> QED BY <1>1, <3>1, <3>2
  <2>2. CASE v # w
    <3>1. backlog'[w] = backlog[w] /\ pc'[w] = pc[w]
      BY <1>5, <2>2 DEF Loop, LoopTop, PollTimeout, Pop, Discard, DropDuplicate, Degrade,
                        Dispatch, DegradedPush, Wake, PutDown, TypeOK, taskVars
    <3> QED BY <1>1, <1>2, <3>1
  <2> QED BY <2>1, <2>2
<1>6. ASSUME NEW v \in Workers, NEW a \in Alerts, Task(v, a) \/ FailedPushError(v, a)
      PROVE  ~Longer /\ ~Sent
  BY <1>1, <1>2, <1>6 DEF Task, ProcessOk, ProcessError, FailedPush, FailedPushError,
                          EndFailed, loopVars
<1>7. ASSUME NEW v \in Workers, Environment(v)
      PROVE  ~Longer /\ ~Sent
  <2>1. CASE PopError(v) \/ DegradedPushError(v) \/ Signal(v) \/ Restart(v)
    <3>1. backlog' = backlog
      BY <2>1 DEF PopError, DegradedPushError, Signal, Restart, taskVars
    <3>2. ~Sent
      BY <2>1 DEF PopError, DegradedPushError, Signal, Restart, PutDown, TypeOK
    <3> QED BY <1>1, <3>1, <3>2
  <2> QED BY <1>3, <1>6, <1>7, <2>1 DEF Environment, Crash
<1>8. Tick \/ UNCHANGED vars \/ (\E a \in Alerts : Publish(a)) => ~Longer /\ ~Sent
  BY <1>1, <1>2 DEF Tick, vars, Publish, loopVars, taskVars
<1> QED BY <1>3, <1>4, <1>5, <1>6, <1>7, <1>8 DEF Next, Exit

(* The only step that settles an alert as a duplicate is DropDuplicate.     *)
LEMMA DroppingStep ==
    ASSUME TypeOK, [Next]_vars, NEW a \in Alerts,
           outcome[a] # "duplicate", outcome'[a] = "duplicate"
    PROVE  \E v \in Workers : DropDuplicate(v) /\ a = hand[v]
<1>1. outcome'[a] # outcome[a]
  OBVIOUS
<1>2. ASSUME NEW v \in Workers, StopProcess(v)
      PROVE  FALSE
  BY <1>1, <1>2 DEF StopProcess
<1>3. ASSUME NEW v \in Workers, NEW result \in Outcomes, NEW next,
             PutDown(v, result, next), result # "duplicate"
      PROVE  FALSE
  BY <1>1, <1>3 DEF PutDown, TypeOK
<1>4. ASSUME NEW v \in Workers, Loop(v), ~DropDuplicate(v)
      PROVE  FALSE
  <2>1. CASE Discard(v) \/ DegradedPush(v)
    BY <1>3, <2>1 DEF Discard, DegradedPush, Outcomes
  <2>2. CASE LoopTop(v) \/ PollTimeout(v) \/ Pop(v) \/ Degrade(v) \/ Dispatch(v) \/ Wake(v)
    BY <1>1, <2>2 DEF LoopTop, PollTimeout, Pop, Degrade, Dispatch, Wake
  <2> QED BY <1>2, <1>4, <2>1, <2>2 DEF Loop, Exit
<1>5. ASSUME NEW v \in Workers, DropDuplicate(v)
      PROVE  a = hand[v]
  BY <1>1, <1>5 DEF DropDuplicate, PutDown, TypeOK
<1>6. ASSUME NEW v \in Workers, NEW b \in Alerts, Task(v, b) \/ FailedPushError(v, b)
      PROVE  FALSE
  BY <1>1, <1>6 DEF Task, ProcessOk, ProcessError, FailedPush, FailedPushError, EndFailed,
                    TypeOK
<1>7. ASSUME NEW v \in Workers, Environment(v)
      PROVE  FALSE
  <2>1. CASE PopError(v)
    BY <1>1, <2>1 DEF PopError, TypeOK
  <2>2. CASE DegradedPushError(v)
    BY <1>3, <2>2 DEF DegradedPushError, Outcomes
  <2>3. CASE Signal(v) \/ Restart(v)
    BY <1>1, <2>3 DEF Signal, Restart
  <2> QED BY <1>2, <1>6, <1>7, <2>1, <2>2, <2>3 DEF Environment, Crash
<1>8. Tick \/ UNCHANGED vars \/ (\E b \in Alerts : Publish(b))
         \/ (\E v \in Workers : Acquire(v)) => FALSE
  BY <1>1 DEF Tick, vars, Publish, Acquire
<1> QED BY <1>4, <1>5, <1>6, <1>7, <1>8 DEF Next

(* What a worker does with an alert is what the last Window says of its key. *)
LEMMA DedupSteps ==
    ASSUME TypeOK, CustodyExclusive, CacheFaithful, [Next]_vars, NEW w \in Workers
    PROVE  /\ Accepts(w) => sinceAccept[w][KeyOf[hand[w]]] >= Window
           /\ \A a \in Alerts :
               hand[w] = a /\ outcome[a] = "pending" /\ outcome'[a] = "duplicate"
                   => sinceAccept[w][KeyOf[a]] < Window
<1>1. ASSUME Accepts(w)
      PROVE  sinceAccept[w][KeyOf[hand[w]]] >= Window
  <2>1. Degrade(w) \/ Dispatch(w)
    BY <1>1, AcceptingSteps DEF Accepts
  <2>2. hand[w] \in Alerts /\ ~IsDuplicate(w, KeyOf[hand[w]])
    BY <2>1 DEF Degrade, Dispatch, Wellformed, TypeOK
  <2>3. PICK k \in Keys : k = KeyOf[hand[w]]
    BY <2>2, AlertWorkerAssumption
  <2>4. seenAge[w][k] = sinceAccept[w][k] /\ seenAge[w][k] \in Nat
    BY AlertWorkerAssumption DEF CacheFaithful, TypeOK, SeenAges
  <2>5. k \notin seen[w] => seenAge[w][k] > Window
    BY DEF CacheFaithful
  <2> QED BY <2>2, <2>3, <2>4, <2>5, AlertWorkerAssumption DEF IsDuplicate
<1>2. ASSUME NEW a \in Alerts, hand[w] = a, outcome[a] = "pending",
             outcome'[a] = "duplicate"
      PROVE  sinceAccept[w][KeyOf[a]] < Window
  <2>1. PICK v \in Workers : DropDuplicate(v) /\ a = hand[v]
    BY <1>2, DroppingStep
  <2>2. v = w
    BY <1>2, <2>1 DEF CustodyExclusive, Custody
  <2> QED BY <2>1, <2>2 DEF DropDuplicate, IsDuplicate, CacheFaithful
<1> QED BY <1>1, <1>2

(* Deduplication is exact over the life of a process: an alert is let       *)
(* through only if none of its key was in the last Window, and dropped as   *)
(* duplicate only if one was, whatever cleanup_expired removed meanwhile.    *)
THEOREM DedupIsExact == Spec => DedupExact
<1>1. Init => TypeOK /\ Conserved /\ CacheFaithful
  <2>1. Init => CacheFaithful
    BY AlertWorkerAssumption DEF Init, CacheFaithful
  <2> QED BY <2>1, InitTypeOK, InitConserved
<1>2. TypeOK /\ Conserved /\ CacheFaithful /\ [Next]_vars
         => (TypeOK /\ Conserved /\ CacheFaithful)'
  BY NextTypeOK, NextConserved, NextCache
<1>3. TypeOK /\ Conserved /\ CacheFaithful /\ [Next]_vars
         => [\A w \in Workers :
                /\ Accepts(w) => sinceAccept[w][KeyOf[hand[w]]] >= Window
                /\ \A a \in Alerts :
                    hand[w] = a /\ outcome[a] = "pending" /\ outcome'[a] = "duplicate"
                        => sinceAccept[w][KeyOf[a]] < Window]_vars
  BY DedupSteps DEF Conserved
<1> QED BY <1>1, <1>2, <1>3, PTL DEF Spec, DedupExact

-----------------------------------------------------------------------------
(* The gate of the breaker.                                                *)

(* What can happen to a breaker that refuses calls.                        *)
LEMMA RefusingOps ==
    ASSUME NEW b \in Breakers, Consistent(b), Refuses(b)
    PROVE  /\ AfterIsOpen(b) = b
           /\ Refuses(RecordFailure(b))
           /\ LET older == [b EXCEPT !.age = Older(@, ResetTimeout)]
              IN  Refuses(older) \/ older.age > ResetTimeout
<1> USE AlertWorkerAssumption DEF Refuses, Breakers
<1>1. AfterIsOpen(b) = b
  BY DEF AfterIsOpen
<1>2. Refuses(RecordFailure(b))
  BY DEF RecordFailure, Consistent
<1>3. LET older == [b EXCEPT !.age = Older(@, ResetTimeout)]
      IN  Refuses(older) \/ older.age > ResetTimeout
  BY DEF Older, BreakerAges
<1> QED BY <1>1, <1>2, <1>3

(* Only the stop of its process replaces a breaker by a fresh one, and a    *)
(* success is recorded only when a running task has processed its alert.    *)
LEMMA BreakerCauses ==
    ASSUME TypeOK, [Next]_vars, NEW w \in Workers
    PROVE  \/ breaker'[w] \in {breaker[w], AfterIsOpen(breaker[w]),
                               RecordFailure(breaker[w]),
                               [breaker[w] EXCEPT !.age = Older(@, ResetTimeout)]}
           \/ pc'[w] = "stopped"
           \/ \E a \in running[w] : outcome'[a] = "processed"
<1>1. ASSUME NEW v \in Workers, StopProcess(v)
      PROVE  breaker'[w] = breaker[w] \/ pc'[w] = "stopped"
  BY <1>1 DEF StopProcess, TypeOK
<1>2. ASSUME NEW v \in Workers, Loop(v)
      PROVE  breaker'[w] \in {breaker[w], AfterIsOpen(breaker[w])} \/ pc'[w] = "stopped"
  <2>1. CASE Dispatch(v)
    BY <2>1 DEF Dispatch, TypeOK
  <2>2. CASE LoopTop(v) \/ PollTimeout(v) \/ Pop(v) \/ Discard(v) \/ DropDuplicate(v)
                \/ Degrade(v) \/ DegradedPush(v) \/ Wake(v)
    BY <2>2 DEF LoopTop, PollTimeout, Pop, Discard, DropDuplicate, Degrade, DegradedPush,
                Wake
  <2> QED BY <1>1, <1>2, <2>1, <2>2 DEF Loop, Exit
<1>3. ASSUME NEW v \in Workers, Environment(v)
      PROVE  breaker'[w] = breaker[w] \/ pc'[w] = "stopped"
  <2>1. CASE PopError(v) \/ DegradedPushError(v) \/ (\E a \in Alerts : FailedPushError(v, a))
                \/ Signal(v) \/ Restart(v)
    BY <2>1 DEF PopError, DegradedPushError, FailedPushError, EndFailed, Signal, Restart
  <2> QED BY <1>1, <1>3, <2>1 DEF Environment, Crash
<1>4. ASSUME NEW v \in Workers, NEW a \in Alerts, Task(v, a)
      PROVE  \/ breaker'[w] \in {breaker[w], RecordFailure(breaker[w])}
             \/ a \in running[w] /\ outcome'[a] = "processed"
  <2>1. CASE ProcessOk(v, a)
    BY <2>1 DEF ProcessOk, TypeOK
  <2>2. CASE ProcessError(v, a)
    BY <2>2 DEF ProcessError, TypeOK
  <2>3. CASE FailedPush(v, a)
    BY <2>3 DEF FailedPush, EndFailed
  <2> QED BY <1>4, <2>1, <2>2, <2>3 DEF Task
<1>5. Tick => breaker'[w] = [breaker[w] EXCEPT !.age = Older(@, ResetTimeout)]
  BY DEF Tick
<1>6. UNCHANGED vars \/ (\E a \in Alerts : Publish(a)) \/ (\E v \in Workers : Acquire(v))
         => breaker'[w] = breaker[w]
  BY DEF vars, Publish, Acquire
<1> QED BY <1>2, <1>3, <1>4, <1>5, <1>6 DEF Next

LEMMA GateSteps ==
    ASSUME TypeOK, BreakerConsistent, [Next]_vars, NEW w \in Workers
    PROVE  /\ Refuses(breaker[w]) /\ pc'[w] # "stopped" =>
                 \/ Refuses(breaker'[w])
                 \/ breaker'[w].age > ResetTimeout
                 \/ \E a \in running[w] : outcome'[a] = "processed"
           /\ Len(backlog'[w]) > Len(backlog[w]) => ~Refuses(breaker[w])
<1>1. breaker[w] \in Breakers /\ Consistent(breaker[w])
  BY DEF TypeOK, BreakerConsistent, Consistent
<1>2. ASSUME Refuses(breaker[w]), pc'[w] # "stopped",
             ~\E a \in running[w] : outcome'[a] = "processed"
      PROVE  Refuses(breaker'[w]) \/ breaker'[w].age > ResetTimeout
  <2>1. breaker'[w] \in {breaker[w], AfterIsOpen(breaker[w]), RecordFailure(breaker[w]),
                         [breaker[w] EXCEPT !.age = Older(@, ResetTimeout)]}
    BY <1>2, BreakerCauses
  <2> QED BY <1>1, <1>2, <2>1, RefusingOps
<1>3. Len(backlog'[w]) > Len(backlog[w]) => ~Refuses(breaker[w])
  BY AcceptingSteps DEF Dispatch
<1> QED BY <1>2, <1>3

(* A breaker that refuses calls stays shut until a whole ResetTimeout has   *)
(* passed since the last failure or a running task succeeds; no task is     *)
(* created meanwhile.                                                      *)
THEOREM BreakerGateHolds == Spec => BreakerGate
<1>1. TypeOK /\ BreakerConsistent /\ [Next]_vars
         => [\A w \in Workers :
                /\ Refuses(breaker[w]) /\ pc'[w] # "stopped" =>
                      \/ Refuses(breaker'[w])
                      \/ breaker'[w].age > ResetTimeout
                      \/ \E a \in running[w] : outcome'[a] = "processed"
                /\ Len(backlog'[w]) > Len(backlog[w]) => ~Refuses(breaker[w])]_vars
  BY GateSteps
<1> QED BY <1>1, TypeCorrect, BreakersAgree, PTL DEF Spec, BreakerGate
-----------------------------------------------------------------------------
(* Losses.                                                                  *)

Stops(w) == pc[w] # "stopped" /\ pc'[w] = "stopped"

(* An alert goes unrecorded only with the worker that holds it in memory,   *)
(* or with a call to Redis that raises: the BRPOP that took it from the     *)
(* list, or the push of a degraded or a failed alert.                       *)
CauseOfLoss(a) ==
    \/ \E w \in Workers : Stops(w) /\ a \in Custody(w)
    \/ /\ "redis_error" \in Events
       /\ \/ queue # <<>> /\ a = Head(queue) /\ queue' = Tail(queue)
          \/ \E w \in Workers : pc[w] = "degrading" /\ hand[w] = a
          \/ \E w \in Workers : a \in failing[w]

LossesCaused ==
    [][\A a \in Alerts : outcome[a] # "lost" /\ outcome'[a] = "lost" => CauseOfLoss(a)]_vars

LEMMA LoopLosses ==
    ASSUME TypeOK, NEW w \in Workers, Loop(w),
           NEW a \in Alerts, outcome[a] # "lost", outcome'[a] = "lost"
    PROVE  Stops(w) /\ a \in Custody(w)
<1>1. ~(LoopTop(w) \/ PollTimeout(w) \/ Pop(w) \/ Degrade(w) \/ Dispatch(w) \/ Wake(w))
  BY DEF LoopTop, PollTimeout, Pop, Degrade, Dispatch, Wake
<1>2. ~(Discard(w) \/ DropDuplicate(w) \/ DegradedPush(w))
  BY DEF Discard, DropDuplicate, DegradedPush, PutDown, TypeOK
<1>3. Exit(w) /\ StopProcess(w)
  BY <1>1, <1>2 DEF Loop, Exit
<1>4. a \in Custody(w)
  BY <1>3 DEF StopProcess
<1>5. Stops(w)
  BY <1>3 DEF StopProcess, Exit, Stops, TypeOK
<1> QED BY <1>4, <1>5

LEMMA EnvironmentLosses ==
    ASSUME TypeOK, NEW w \in Workers, Environment(w),
           NEW a \in Alerts, outcome[a] # "lost", outcome'[a] = "lost"
    PROVE  CauseOfLoss(a)
<1>1. CASE PopError(w)
  BY <1>1 DEF PopError, CauseOfLoss, TypeOK
<1>2. CASE DegradedPushError(w)
  BY <1>2 DEF DegradedPushError, PutDown, CauseOfLoss, TypeOK
<1>3. CASE \E b \in Alerts : FailedPushError(w, b)
  BY <1>3 DEF FailedPushError, EndFailed, CauseOfLoss, TypeOK
<1>4. CASE Crash(w)
  <2>1. StopProcess(w) /\ pc[w] # "stopped"
    BY <1>4 DEF Crash
  <2>2. a \in Custody(w) /\ Stops(w)
    BY <2>1 DEF StopProcess, Stops, TypeOK
  <2> QED BY <2>2 DEF CauseOfLoss
<1>5. ~(Signal(w) \/ Restart(w))
  BY DEF Signal, Restart
<1> QED BY <1>1, <1>2, <1>3, <1>4, <1>5 DEF Environment

LEMMA NextLosses ==
    ASSUME TypeOK, [Next]_vars, NEW a \in Alerts, outcome[a] # "lost", outcome'[a] = "lost"
    PROVE  CauseOfLoss(a)
<1>1. ~(\E b \in Alerts : Publish(b)) /\ ~Tick /\ ~UNCHANGED vars
  BY DEF Publish, Tick, vars
<1>2. \A w \in Workers : ~Acquire(w) /\ \A b \in Alerts : ~Task(w, b)
  BY DEF Acquire, Task, ProcessOk, ProcessError, FailedPush, EndFailed, TypeOK
<1>3. PICK w \in Workers : Loop(w) \/ Environment(w)
  BY <1>1, <1>2 DEF Next
<1> QED BY <1>3, LoopLosses, EnvironmentLosses DEF CauseOfLoss

(* The only alerts lost are those in the memory of a worker that stops and  *)
(* those whose call to Redis raised: no other path of the loop or of a task *)
(* forgets one, and no stop of a worker touches what is still in the list.  *)
THEOREM LossesHaveACause == Spec => LossesCaused
<1>1. TypeOK /\ [Next]_vars
         => [\A a \in Alerts :
                outcome[a] # "lost" /\ outcome'[a] = "lost" => CauseOfLoss(a)]_vars
  BY NextLosses
<1> QED BY <1>1, TypeCorrect, PTL DEF Spec, LossesCaused

(* Where no worker is told to stop or crashes and Redis answers, nothing is *)
(* lost, whatever fails inside the processing of alerts: the shutdown alone *)
(* costs the alerts that the worker_shutdown instance loses.                *)
THEOREM OnlyFaultsLose ==
    ASSUME Events \cap {"redis_error", "shutdown", "crash"} = {}
    PROVE  Spec => []NothingLost
<1> DEFINE Untold == \A w \in Workers : ~shutdown[w]
<1>1. Init => Untold /\ NothingLost
  BY DEF Init, NothingLost
<1>2. TypeOK /\ Untold /\ NothingLost /\ [Next]_vars => (Untold /\ NothingLost)'
  <2> SUFFICES ASSUME TypeOK, Untold, NothingLost, [Next]_vars
               PROVE  Untold' /\ NothingLost'
    OBVIOUS
  <2>1. \A w \in Workers : ~Exit(w) /\ ~Crash(w) /\ ~Signal(w)
    BY DEF Exit, Crash, Signal
  <2>2. UNCHANGED shutdown \/ \E w \in Workers : Restart(w)
    BY <2>1 DEF Next, Publish, Loop, LoopTop, PollTimeout, Pop, Discard, DropDuplicate, Degrade,
       Dispatch, DegradedPush, Wake, Acquire, Environment, PopError, DegradedPushError,
       FailedPushError, EndFailed, Task, ProcessOk, ProcessError, FailedPush, Tick, loopVars, vars
  <2>3. Untold'
    BY <2>2 DEF Restart, TypeOK
  <2>4. \A w \in Workers : ~Stops(w)
    BY <2>1 DEF Stops, Next, Publish, Loop, LoopTop, PollTimeout, Pop, Discard,
       DropDuplicate, Degrade, Dispatch, DegradedPush, PutDown, Wake, Acquire, Environment,
       PopError, DegradedPushError, FailedPushError, EndFailed, Restart, Task, ProcessOk,
       ProcessError, FailedPush, Tick, loopVars, vars, TypeOK
  <2>5. NothingLost'
    BY <2>4, NextLosses DEF NothingLost, CauseOfLoss
  <2> QED BY <2>3, <2>5
<1> QED BY <1>1, <1>2, TypeCorrect, PTL DEF Spec
-----------------------------------------------------------------------------
(* Progress.  What AlertsSettle rests on short of fairness: a published     *)
(* alert without an outcome can always be moved, and never moves back.      *)

(* A process that ended has no alert in memory.                             *)
AtRest ==
    \A w \in Workers :
        pc[w] = "stopped" => backlog[w] = <<>> /\ running[w] = {} /\ failing[w] = {}

LEMMA LoopAtRest ==
    ASSUME TypeOK, AtRest, NEW w \in Workers, Loop(w)
    PROVE  AtRest'
<1>1. CASE Exit(w)
  BY <1>1 DEF Exit, StopProcess, AtRest, TypeOK
<1>2. CASE ~Exit(w)
  <2>1. pc'[w] # "stopped" /\ \A v \in Workers : v # w => pc'[v] = pc[v]
    BY <1>2 DEF Loop, LoopTop, PollTimeout, Pop, Discard, DropDuplicate, Degrade, Dispatch,
       DegradedPush, PutDown, Wake, TypeOK
  <2>2. /\ UNCHANGED <<running, failing>>
        /\ \A v \in Workers : v # w => backlog'[v] = backlog[v]
    BY <1>2 DEF Loop, LoopTop, PollTimeout, Pop, Discard, DropDuplicate, Degrade, Dispatch,
       DegradedPush, PutDown, Wake, taskVars, TypeOK
  <2> QED BY <2>1, <2>2 DEF AtRest
<1> QED BY <1>1, <1>2

LEMMA TaskAtRest ==
    ASSUME TypeOK, AtRest, NEW w \in Workers,
           Acquire(w) \/ \E a \in Alerts : Task(w, a) \/ FailedPushError(w, a)
    PROVE  AtRest'
<1>1. UNCHANGED pc
  BY DEF Acquire, Task, ProcessOk, ProcessError, FailedPush, FailedPushError, EndFailed, loopVars
<1>2. backlog[w] # <<>> \/ running[w] # {} \/ failing[w] # {}
  BY DEF Acquire, Task, ProcessOk, ProcessError, FailedPush, FailedPushError, EndFailed
<1>3. pc[w] # "stopped"
  BY <1>2 DEF AtRest
<1>4. \A v \in Workers : v # w => /\ backlog'[v] = backlog[v]
                                 /\ running'[v] = running[v] /\ failing'[v] = failing[v]
  BY DEF Acquire, Task, ProcessOk, ProcessError, FailedPush, FailedPushError, EndFailed, TypeOK
<1> QED BY <1>1, <1>3, <1>4 DEF AtRest

LEMMA NextAtRest == TypeOK /\ AtRest /\ [Next]_vars => AtRest'
<1> SUFFICES ASSUME TypeOK, AtRest, [Next]_vars
             PROVE  AtRest'
  OBVIOUS
<1>1. CASE (\E a \in Alerts : Publish(a)) \/ Tick \/ UNCHANGED vars
  BY <1>1 DEF Publish, Tick, loopVars, taskVars, vars, AtRest
<1>2. ASSUME NEW w \in Workers, Environment(w)
      PROVE  AtRest'
  <2>1. CASE PopError(w)
    BY <2>1 DEF PopError, taskVars, AtRest, TypeOK
  <2>2. CASE DegradedPushError(w)
    BY <2>2 DEF DegradedPushError, PutDown, taskVars, AtRest, TypeOK
  <2>3. CASE Signal(w)
    BY <2>3 DEF Signal, taskVars, AtRest
  <2>4. CASE Restart(w)
    BY <2>4 DEF Restart, taskVars, AtRest, TypeOK
  <2>5. CASE Crash(w)
    BY <2>5 DEF Crash, StopProcess, AtRest, TypeOK
  <2> QED BY <1>2, <2>1, <2>2, <2>3, <2>4, <2>5, TaskAtRest DEF Environment
<1> QED BY <1>1, <1>2, LoopAtRest, TaskAtRest DEF Next

(* Someone can move alert a on: a loop that runs can take it from the list  *)
(* or let go of it, and one that waits for the semaphore waits for a task   *)
(* that is not itself waiting.                                              *)
CanMoveOn(a) ==
    \/ a \in ToSet(queue) /\ \E w \in Workers : pc[w] # "stopped"
    \/ \E w \in Workers :
          /\ pc[w] # "stopped"
          /\ \/ pc[w] \in {"handling", "degrading"} /\ hand[w] = a
             \/ /\ a \in ToSet(backlog[w])
                /\ permits[w] > 0 \/ \E b \in Alerts : b \in running[w] \cup failing[w]
             \/ a \in running[w] \cup failing[w]

AlertsNeverStuck ==
    \A a \in published :
        outcome[a] # "pending" \/ CanMoveOn(a) \/ \A w \in Workers : pc[w] = "stopped"

(* No published alert is ever beyond the reach of every worker while one    *)
(* runs: not with a process that ended, and not behind a semaphore whose    *)
(* permits nobody holds.                                                    *)
THEOREM AlertsAreNeverStuck == Spec => []AlertsNeverStuck
<1>1. Init => AtRest
  BY DEF Init, AtRest
<1>2. TypeOK /\ Conserved /\ PermitsBalance /\ AtRest => AlertsNeverStuck
  <2> SUFFICES ASSUME TypeOK, Conserved, PermitsBalance, AtRest, NEW a \in published,
                      outcome[a] = "pending", NEW u \in Workers, pc[u] # "stopped"
               PROVE  CanMoveOn(a)
    BY DEF AlertsNeverStuck
  <2>1. a \in Alerts
    BY DEF TypeOK
  <2>2. CASE a \in ToSet(queue)
    BY <2>2 DEF CanMoveOn
  <2>3. CASE \E w \in Workers : a \in Custody(w)
    <3>1. PICK w \in Workers : a \in Custody(w)
      BY <2>3
    <3>2. pc[w] # "stopped"
      BY <2>1, <3>1, EmptyList, AlertWorkerAssumption DEF AtRest, Custody, TypeOK
    <3>3. CASE hand[w] = a
      BY <2>1, <3>2, <3>3, AlertWorkerAssumption DEF CanMoveOn, TypeOK
    <3>4. CASE a \in ToSet(backlog[w])
      <4>1. permits[w] > 0 \/ Holders(w) # {}
        <5>1. permits[w] \in Nat /\ permits[w] + Cardinality(Holders(w)) = MaxConcurrent
          BY DEF TypeOK, PermitsBalance
        <5>2. Cardinality({}) = 0 /\ MaxConcurrent \in Nat \ {0}
          BY FS_EmptySet, AlertWorkerAssumption
        <5> QED BY <5>1, <5>2
      <4>2. Holders(w) \subseteq Alerts
        BY DEF Holders, TypeOK
      <4> QED BY <3>2, <3>4, <4>1, <4>2 DEF CanMoveOn, Holders
    <3>5. CASE a \in running[w] \cup failing[w]
      BY <3>2, <3>5 DEF CanMoveOn
    <3> QED BY <3>1, <3>3, <3>4, <3>5 DEF Custody
  <2> QED BY <2>1, <2>2, <2>3 DEF Conserved, CustodyComplete
<1>3. Init => PermitsBalance
  BY FS_EmptySet, AlertWorkerAssumption DEF Init, PermitsBalance, Holders
<1>4. TypeOK /\ Conserved /\ PermitsBalance /\ [Next]_vars => PermitsBalance'
  BY NextPermits DEF Conserved, Separate
<1> QED BY <1>1, <1>2, <1>3, <1>4, InitTypeOK, NextTypeOK, InitConserved, NextConserved,
           NextAtRest, PTL DEF Spec

(* How far alert a is from its outcome.                                     *)
Stage(a) ==
    IF a \notin published THEN 6
    ELSE IF outcome[a] # "pending" THEN 0
    ELSE IF a \in ToSet(queue) THEN 5
    ELSE IF \E w \in Workers : hand[w] = a THEN 4
    ELSE IF \E w \in Workers : a \in ToSet(backlog[w]) THEN 3
    ELSE IF \E w \in Workers : a \in running[w] THEN 2
    ELSE 1

(* A line is left at its front and joined at its back, or is gone with its  *)
(* process.                                                                 *)
Advances(line, next) ==
    \/ next \in {line, <<>>}
    \/ line # <<>> /\ next = Tail(line)
    \/ \E a \in Alerts : next = Append(line, a)

(* An alert never goes back: from the list to a hand, a backlog, a task and *)
(* an outcome, leaving steps out at times but never returning to an earlier *)
(* one, and nothing passes it in the list or in a backlog.                  *)
AlertsMoveOn ==
    [][/\ \A a \in Alerts : Stage(a)' <= Stage(a)
       /\ Advances(queue, queue')
       /\ \A w \in Workers : Advances(backlog[w], backlog'[w])]_vars

(* How a step changes what each worker holds.                               *)
LEMMA HoldingSteps ==
    ASSUME TypeOK, [Next]_vars, NEW w \in Workers
    PROVE  /\ \/ hand'[w] \in {hand[w], NoAlert}
              \/ queue # <<>> /\ hand'[w] = Head(queue)
           /\ \/ backlog'[w] \in {backlog[w], <<>>}
              \/ backlog[w] # <<>> /\ backlog'[w] = Tail(backlog[w])
              \/ hand[w] \in Alerts /\ backlog'[w] = Append(backlog[w], hand[w])
           /\ \/ running'[w] \subseteq running[w]
              \/ backlog[w] # <<>> /\ running'[w] = running[w] \cup {Head(backlog[w])}
<1>1. CASE (\E a \in Alerts : Publish(a)) \/ Tick \/ UNCHANGED vars
  BY <1>1 DEF Publish, Tick, loopVars, taskVars, vars
<1>3. CASE \E v \in Workers : Exit(v) \/ Crash(v)
  BY <1>3 DEF Exit, Crash, StopProcess, TypeOK
<1>4. CASE \E v \in Workers : Pop(v)
  BY <1>4 DEF Pop, taskVars, TypeOK
<1>5. CASE \E v \in Workers : Dispatch(v)
  BY <1>5 DEF Dispatch, Wellformed, TypeOK
<1>6. CASE \E v \in Workers : \/ LoopTop(v) \/ PollTimeout(v) \/ Discard(v) \/ DropDuplicate(v)
                              \/ Degrade(v) \/ DegradedPush(v) \/ Wake(v) \/ PopError(v)
                              \/ DegradedPushError(v) \/ Signal(v) \/ Restart(v)
  BY <1>6 DEF LoopTop, PollTimeout, Discard, DropDuplicate, Degrade, DegradedPush, Wake, PutDown,
     PopError, DegradedPushError, Signal, Restart, taskVars, TypeOK
<1>7. CASE \E v \in Workers : Acquire(v)
  BY <1>7 DEF Acquire, loopVars, TypeOK
<1>8. CASE \E v \in Workers, a \in Alerts : Task(v, a) \/ FailedPushError(v, a)
  <2>1. PICK v \in Workers, a \in Alerts : Task(v, a) \/ FailedPushError(v, a)
    BY <1>8
  <2>2. UNCHANGED <<hand, backlog>>
    BY <2>1 DEF Task, ProcessOk, ProcessError, FailedPush, FailedPushError, EndFailed, loopVars
  <2>3. running' \in {running, [running EXCEPT ![v] = @ \ {a}]}
    BY <2>1 DEF Task, ProcessOk, ProcessError, FailedPush, FailedPushError, EndFailed
  <2> QED BY <2>2, <2>3 DEF TypeOK
<1> QED BY <1>1, <1>3, <1>4, <1>5, <1>6, <1>7, <1>8 DEF Next, Loop, Environment

(* How a step changes the list.                                             *)
LEMMA ListSteps ==
    ASSUME TypeOK, Conserved, [Next]_vars
    PROVE  /\ published \subseteq published'
           /\ Advances(queue, queue')
           /\ \A a \in published : /\ a \in ToSet(queue)' => a \in ToSet(queue)
                                   /\ outcome[a] # "pending" => outcome'[a] # "pending"
<1>1. queue \in Lists /\ IsInjective(queue)
  BY DEF TypeOK, Conserved, ListsDistinct
<1>2. CASE \E a \in Alerts : Arrival(a)
  <2>1. PICK b \in Alerts : Arrival(b)
    BY <1>2
  <2>2. b \notin ToSet(queue)
    BY <2>1 DEF Arrival, Conserved, CustodyExclusive
  <2>3. ToSet(queue)' = ToSet(queue) \cup {b}
    BY <1>1, <2>1, <2>2, ListSets DEF Arrival
  <2> QED BY <2>1, <2>3 DEF Arrival, Advances
<1>3. CASE Departure
  BY <1>1, <1>3, ListSets DEF Departure, Advances, TypeOK
<1>4. CASE Settlement
  BY <1>4 DEF Settlement, Advances, Outcomes, TypeOK
<1> QED BY <1>2, <1>3, <1>4, NextShape

LEMMA StagesFall ==
    ASSUME TypeOK, Conserved, [Next]_vars, NEW a \in Alerts
    PROVE  Stage(a)' <= Stage(a)
<1>1. CASE a \notin published
  BY <1>1 DEF Stage
<1>2. CASE a \in published
  <2>1. /\ a \in published'
        /\ a \in ToSet(queue)' => a \in ToSet(queue)
        /\ outcome[a] # "pending" => outcome'[a] # "pending"
    BY <1>2, ListSteps
  <2>2. queue # <<>> => Head(queue) \in ToSet(queue)
    BY ListSets DEF TypeOK, Conserved, ListsDistinct
  <2>3. \A w \in Workers : hand'[w] = a => hand[w] = a \/ a \in ToSet(queue)
    BY <2>2, HoldingSteps, AlertWorkerAssumption
  <2>4. ASSUME NEW w \in Workers, a \in ToSet(backlog[w])'
        PROVE  a \in ToSet(backlog[w]) \/ hand[w] = a
    <3>1. backlog[w] \in Lists /\ IsInjective(backlog[w])
      BY DEF TypeOK, Conserved, ListsDistinct
    <3>2. CASE \/ backlog'[w] \in {backlog[w], <<>>}
               \/ backlog[w] # <<>> /\ backlog'[w] = Tail(backlog[w])
      BY <2>4, <3>1, <3>2, ListSets, EmptyList
    <3>3. CASE hand[w] \in Alerts /\ backlog'[w] = Append(backlog[w], hand[w])
      <4>1. hand[w] \notin ToSet(backlog[w])
        BY <3>3 DEF Conserved, PlacesDisjoint, Hand
      <4>2. ToSet(Append(backlog[w], hand[w])) = ToSet(backlog[w]) \cup {hand[w]}
        BY <3>1, <3>3, <4>1, ListSets
      <4> QED BY <2>4, <3>3, <4>2
    <3> QED BY <3>2, <3>3, HoldingSteps
  <2>5. ASSUME NEW w \in Workers, a \in running'[w]
        PROVE  a \in running[w] \/ a \in ToSet(backlog[w])
    <3>1. backlog[w] # <<>> => Head(backlog[w]) \in ToSet(backlog[w])
      BY ListSets DEF TypeOK, Conserved, ListsDistinct
    <3> QED BY <2>5, <3>1, HoldingSteps
  <2> QED BY <1>2, <2>1, <2>3, <2>4, <2>5 DEF Stage
<1> QED BY <1>1, <1>2

(* No alert is put back or passed by another on its way to its outcome.     *)
THEOREM AlertsNeverGoBack == Spec => AlertsMoveOn
<1>1. TypeOK /\ Conserved /\ [Next]_vars
         => [/\ \A a \in Alerts : Stage(a)' <= Stage(a)
             /\ Advances(queue, queue')
             /\ \A w \in Workers : Advances(backlog[w], backlog'[w])]_vars
  <2>1. TypeOK /\ [Next]_vars => \A w \in Workers : Advances(backlog[w], backlog'[w])
    BY HoldingSteps DEF Advances
  <2> QED BY <2>1, StagesFall, ListSteps
<1> QED BY <1>1, InitTypeOK, NextTypeOK, InitConserved, NextConserved, PTL DEF Spec, AlertsMoveOn
-----------------------------------------------------------------------------
(* Shutdown.  The steps the loop of a signalled worker can still take.      *)

LoopStepsLeft ==
    [stopped |-> 0, top |-> 1, sleeping |-> 2, degrading |-> 3, handling |-> 4, polling |-> 5]

ShutdownBounded ==
    [][\A w \in Workers :
        shutdown[w] /\ pc[w] # "stopped" =>
            /\ LoopStepsLeft[pc'[w]] <= LoopStepsLeft[pc[w]]
            /\ Loop(w) => LoopStepsLeft[pc'[w]] < LoopStepsLeft[pc[w]]
            /\ shutdown'[w]]_vars

(* Once signalled a worker makes at most five steps of its loop before it   *)
(* ends, however many alerts wait and however often Redis fails: it never   *)
(* begins another poll, and the signal is not forgotten.  With fairness     *)
(* this is ShutdownHonoured.                                                *)
THEOREM ShutdownIsBounded == Spec => ShutdownBounded
<1>1. TypeOK /\ [Next]_vars
         => [\A w \in Workers :
               shutdown[w] /\ pc[w] # "stopped" =>
                  /\ LoopStepsLeft[pc'[w]] <= LoopStepsLeft[pc[w]]
                  /\ Loop(w) => LoopStepsLeft[pc'[w]] < LoopStepsLeft[pc[w]]
                  /\ shutdown'[w]]_vars
  <2> SUFFICES ASSUME TypeOK, [Next]_vars, NEW w \in Workers, shutdown[w], pc[w] # "stopped"
               PROVE  /\ LoopStepsLeft[pc'[w]] <= LoopStepsLeft[pc[w]]
                      /\ Loop(w) => LoopStepsLeft[pc'[w]] < LoopStepsLeft[pc[w]]
                      /\ shutdown'[w]
    OBVIOUS
  <2>1. pc[w] \in {"top", "polling", "handling", "degrading", "sleeping"}
    BY DEF TypeOK
  <2>2. ASSUME Loop(w)
        PROVE  /\ shutdown'[w] /\ LoopStepsLeft[pc'[w]] < LoopStepsLeft[pc[w]]
               /\ LoopStepsLeft[pc'[w]] <= LoopStepsLeft[pc[w]]
    <3>1. ~LoopTop(w)
      BY DEF LoopTop
    <3>2. shutdown'[w] = shutdown[w]
      BY <2>2, <3>1 DEF Loop, PollTimeout, Pop, Discard, DropDuplicate, Degrade, Dispatch,
         DegradedPush, Wake, Exit
    <3>3. \/ pc[w] = "polling" /\ pc'[w] \in {"top", "handling"}
          \/ pc[w] = "handling" /\ pc'[w] \in {"top", "degrading"}
          \/ pc[w] = "degrading" /\ pc'[w] = "top"
          \/ pc[w] = "sleeping" /\ pc'[w] = "top"
          \/ pc[w] = "top" /\ pc'[w] = "stopped"
      BY <2>2, <3>1 DEF Loop, PollTimeout, Pop, Discard, DropDuplicate, Wellformed, Degrade,
         Dispatch, DegradedPush, PutDown, Wake, Exit, StopProcess, TypeOK
    <3> QED BY <3>2, <3>3 DEF LoopStepsLeft
  <2>3. ASSUME Environment(w)
        PROVE  shutdown'[w] /\ LoopStepsLeft[pc'[w]] <= LoopStepsLeft[pc[w]]
    <3>1. ~Restart(w) /\ ~Signal(w)
      BY DEF Restart, Signal
    <3>2. shutdown'[w] = shutdown[w]
      BY <2>3, <3>1 DEF Environment, PopError, DegradedPushError, FailedPushError, EndFailed,
         Crash, loopVars
    <3>3. \/ pc[w] \in {"polling", "degrading"} /\ pc'[w] = "sleeping"
          \/ pc'[w] = "stopped"
          \/ pc'[w] = pc[w]
      BY <2>3, <3>1 DEF Environment, PopError, DegradedPushError, PutDown, FailedPushError,
         EndFailed, Crash, StopProcess, loopVars, TypeOK
    <3> QED BY <2>1, <3>2, <3>3 DEF LoopStepsLeft
  <2>4. CASE ~Loop(w) /\ ~Environment(w)
    <3>1. shutdown'[w] = shutdown[w] /\ pc'[w] = pc[w]
      <4>1. ASSUME NEW v \in Workers, v # w, Loop(v) \/ Environment(v)
            PROVE  shutdown'[w] = shutdown[w] /\ pc'[w] = pc[w]
        <5>1. CASE Loop(v)
          BY <4>1, <5>1 DEF Loop, LoopTop, PollTimeout, Pop, Discard, DropDuplicate, Degrade,
             Dispatch, DegradedPush, PutDown, Wake, Exit, StopProcess, TypeOK
        <5>2. CASE Environment(v)
          BY <4>1, <5>2 DEF Environment, PopError, DegradedPushError, PutDown, FailedPushError,
             EndFailed, Crash, StopProcess, Signal, Restart, loopVars, TypeOK
        <5> QED BY <4>1, <5>1, <5>2
      <4>2. CASE \/ \E v \in Workers : Acquire(v) \/ \E a \in Alerts : Task(v, a)
                 \/ \E a \in Alerts : Publish(a)
                 \/ Tick \/ UNCHANGED vars
        BY <4>2 DEF Acquire, Task, ProcessOk, ProcessError, FailedPush, EndFailed, Publish,
           Tick, loopVars, vars
      <4> QED BY <2>4, <4>1, <4>2 DEF Next
    <3>2. LoopStepsLeft[pc[w]] <= LoopStepsLeft[pc[w]]
      BY <2>1 DEF LoopStepsLeft
    <3> QED BY <2>4, <3>1, <3>2, Zenon
  <2> QED BY <2>2, <2>3, <2>4, Zenon
<1> QED BY <1>1, TypeCorrect, PTL DEF Spec, ShutdownBounded
=============================================================================
