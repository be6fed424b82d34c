----------------------------- MODULE AlertWorker -----------------------------
(***************************************************************************)
(* The alert processor (src/src/agents/alert_processor.py): several worker *)
(* processes consume one Redis list, drop duplicates, consult a circuit     *)
(* breaker and process alerts in asyncio tasks under a semaphore.           *)
(*                                                                         *)
(* An asyncio worker runs one coroutine at a time and switches only where   *)
(* one awaits, so an action is the code from one await to the next.         *)
(* Time is kept as ages: the time since an event, saturating one past the   *)
(* largest value the code compares it with.  No bound on the length of a    *)
(* behaviour is needed.                                                     *)
(***************************************************************************)
EXTENDS Naturals, Sequences, FiniteSets, SequencesExt

CONSTANTS
    Alerts,          \* alerts producers may publish, each one once
    Keys,            \* deduplication keys, alert_type:table_name:tenant_id
    KeyOf,           \* the key of each alert
    Malformed,       \* alerts whose payload json.loads rejects
    Workers,         \* worker processes (replicas of the deployment)
    NoAlert,         \* the loop holds no alert
    Threshold,       \* CircuitBreaker.failure_threshold
    ResetTimeout,    \* CircuitBreaker.reset_timeout_seconds
    Window,          \* DEDUP_WINDOW_MINUTES
    CleanupInterval, \* CLEANUP_INTERVAL_SECONDS
    MaxConcurrent,   \* MAX_CONCURRENT_ALERTS
    Events           \* which events of the environment happen

EventKinds == {"processing_error", "redis_error", "shutdown", "crash", "restart"}

ASSUME AlertWorkerAssumption ==
    /\ KeyOf \in [Alerts -> Keys]
    /\ Malformed \subseteq Alerts
    /\ NoAlert \notin Alerts
    /\ Threshold \in Nat \ {0}
    /\ ResetTimeout \in Nat
    /\ Window \in Nat \ {0}
    /\ CleanupInterval \in Nat
    /\ MaxConcurrent \in Nat \ {0}
    /\ Events \subseteq EventKinds

VARIABLES
    published,    \* alerts producers have pushed so far
    queue,        \* the Redis list intellipipe:alerts, next to pop first
    outcome,      \* how the handling of each alert ended, or "pending"
    pc,           \* where the _run_loop of each worker is
    hand,         \* the alert the loop of each worker has popped
    backlog,      \* tasks created and waiting for the semaphore, FIFO
    running,      \* tasks inside _process_alert
    failing,      \* tasks pushing to intellipipe:alerts:failed
    permits,      \* the value of each worker's asyncio.Semaphore
    breaker,      \* CircuitBreaker of each worker
    seen,         \* AlertDeduplicator._seen: its keys
    seenAge,      \* and the age of each key's timestamp
    sinceCleanup, \* age of _last_cleanup
    shutdown,     \* _shutdown_event
    sinceAccept   \* history: age of the last alert of a key let through

queueVars == <<published, queue>>
taskVars  == <<backlog, running, failing, permits>>
dedupVars == <<seen, seenAge, sinceAccept>>
loopVars  == <<pc, hand, sinceCleanup, shutdown>>
vars == <<queueVars, outcome, loopVars, taskVars, breaker, dedupVars>>

-----------------------------------------------------------------------------
(* The circuit breaker, lines 50-90.                                       *)

BreakerAges == 0..(ResetTimeout + 1)
SeenAges    == 0..(Window + 1)

(* A fresh breaker has no failure on record: as old as can be.             *)
NewBreaker == [state |-> "CLOSED", failures |-> 0, age |-> ResetTimeout + 1]

Refuses(b) == b.state = "OPEN" /\ b.age <= ResetTimeout

(* The property is_open also moves an OPEN breaker whose last failure is    *)
(* older than the timeout to HALF_OPEN.                                    *)
AfterIsOpen(b) ==
    IF b.state = "OPEN" /\ ~Refuses(b) THEN [b EXCEPT !.state = "HALF_OPEN"] ELSE b

(* Mutant of RecordSuccess: the failures of before are not forgotten.       *)
RecordSuccessKeepsCount(b) == [b EXCEPT !.state = "CLOSED"]

RecordSuccess(b) == [b EXCEPT !.state = "CLOSED", !.failures = 0]

RecordFailure(b) ==
    [state    |-> IF b.failures + 1 >= Threshold THEN "OPEN" ELSE b.state,
     failures |-> b.failures + 1,
     age      |-> 0]

-----------------------------------------------------------------------------
(* The deduplication cache, lines 98-125.                                  *)

IsDuplicate(w, k) == k \in seen[w] /\ seenAge[w][k] < Window

(* A key that is not a duplicate is stamped with the present time.         *)
MarkSeen(w, k) ==
    /\ seen' = [seen EXCEPT ![w] = @ \cup {k}]
    /\ seenAge' = [seenAge EXCEPT ![w][k] = 0]
    /\ sinceAccept' = [sinceAccept EXCEPT ![w][k] = 0]

(* Mutant of CleanupExpired: the cache is emptied.                         *)
CleanupAll(w) == seen' = [seen EXCEPT ![w] = {}]

CleanupExpired(w) ==
    LET expired == {k \in seen[w] : seenAge[w][k] > Window}
    IN  seen' = [seen EXCEPT ![w] = @ \ expired]

-----------------------------------------------------------------------------
(* What a worker process holds in memory and nowhere else.                 *)
Custody(w) ==
    {a \in Alerts : a = hand[w]} \cup ToSet(backlog[w]) \cup running[w] \cup failing[w]

Init ==
    /\ published = {}
    /\ queue = <<>>
    /\ outcome = [a \in Alerts |-> "pending"]
    /\ pc = [w \in Workers |-> "top"]
    /\ hand = [w \in Workers |-> NoAlert]
    /\ backlog = [w \in Workers |-> <<>>]
    /\ running = [w \in Workers |-> {}]
    /\ failing = [w \in Workers |-> {}]
    /\ permits = [w \in Workers |-> MaxConcurrent]
    /\ breaker = [w \in Workers |-> NewBreaker]
    /\ seen = [w \in Workers |-> {}]
    /\ seenAge = [w \in Workers |-> [k \in Keys |-> Window + 1]]
    /\ sinceCleanup = [w \in Workers |-> 0]
    /\ shutdown = [w \in Workers |-> FALSE]
    /\ sinceAccept = [w \in Workers |-> [k \in Keys |-> Window + 1]]

(* Mutant of Publish: RPUSH, so that the alert is popped first.             *)
PublishInFront(a) ==
    /\ a \notin published
    /\ published' = published \cup {a}
    /\ queue' = <<a>> \o queue
    /\ UNCHANGED <<outcome, loopVars, taskVars, breaker, dedupVars>>

(* A producer: LPUSH on the alert list.                                    *)
Publish(a) ==
    /\ a \notin published
    /\ published' = published \cup {a}
    /\ queue' = Append(queue, a)
    /\ UNCHANGED <<outcome, loopVars, taskVars, breaker, dedupVars>>

-----------------------------------------------------------------------------
(* The polling loop, lines 238-301.                                        *)

(* Top of the loop: purge the cache when the interval is over, then BRPOP. *)
LoopTop(w) ==
    /\ pc[w] = "top"
    /\ ~shutdown[w]
    /\ pc' = [pc EXCEPT ![w] = "polling"]
    /\ IF sinceCleanup[w] > CleanupInterval
       THEN /\ CleanupExpired(w)
            /\ sinceCleanup' = [sinceCleanup EXCEPT ![w] = 0]
       ELSE UNCHANGED <<seen, sinceCleanup>>
    /\ UNCHANGED <<queueVars, outcome, hand, shutdown, taskVars, breaker, seenAge,
                   sinceAccept>>

(* Mutant of PollTimeout: BRPOP with time-out 0 waits for ever.             *)
PollForever(w) == FALSE

(* BRPOP returns None after POLL_TIMEOUT_SECONDS on an empty list.         *)
PollTimeout(w) ==
    /\ pc[w] = "polling"
    /\ queue = <<>>
    /\ pc' = [pc EXCEPT ![w] = "top"]
    /\ UNCHANGED <<queueVars, outcome, hand, sinceCleanup, shutdown, taskVars, breaker,
                   dedupVars>>

(* Mutant of Pop: the alert is read and stays in the list.                  *)
Peek(w) ==
    /\ pc[w] = "polling"
    /\ queue # <<>>
    /\ hand' = [hand EXCEPT ![w] = Head(queue)]
    /\ pc' = [pc EXCEPT ![w] = "handling"]
    /\ UNCHANGED <<queueVars, outcome, sinceCleanup, shutdown, taskVars, breaker,
                   dedupVars>>

Pop(w) ==
    /\ pc[w] = "polling"
    /\ queue # <<>>
    /\ queue' = Tail(queue)
    /\ hand' = [hand EXCEPT ![w] = Head(queue)]
    /\ pc' = [pc EXCEPT ![w] = "handling"]
    /\ UNCHANGED <<published, outcome, sinceCleanup, shutdown, taskVars, breaker,
                   dedupVars>>

(* BRPOP raises: before Redis popped anything, or with the reply and the    *)
(* alert in it lost.                                                       *)
PopError(w) ==
    /\ "redis_error" \in Events
    /\ pc[w] = "polling"
    /\ pc' = [pc EXCEPT ![w] = "sleeping"]
    /\ \/ UNCHANGED <<queue, outcome>>
       \/ /\ queue # <<>>
          /\ queue' = Tail(queue)
          /\ outcome' = [outcome EXCEPT ![Head(queue)] = "lost"]
    /\ UNCHANGED <<published, hand, sinceCleanup, shutdown, taskVars, breaker, dedupVars>>

(* Mutant of PutDown: the loop keeps the alert.                            *)
PutDownNothing(w, result, next) ==
    /\ outcome' = [outcome EXCEPT ![hand[w]] = result]
    /\ pc' = [pc EXCEPT ![w] = next]
    /\ UNCHANGED hand

(* The loop is done with the alert in its hand, and says how it ended.      *)
PutDown(w, result, next) ==
    /\ outcome' = [outcome EXCEPT ![hand[w]] = result]
    /\ hand' = [hand EXCEPT ![w] = NoAlert]
    /\ pc' = [pc EXCEPT ![w] = next]

Discard(w) ==
    /\ pc[w] = "handling"
    /\ hand[w] \in Malformed
    /\ PutDown(w, "malformed", "top")
    /\ UNCHANGED <<queueVars, sinceCleanup, shutdown, taskVars, breaker, dedupVars>>

Wellformed(w) == pc[w] = "handling" /\ hand[w] \notin Malformed

DropDuplicate(w) ==
    /\ Wellformed(w)
    /\ IsDuplicate(w, KeyOf[hand[w]])
    /\ PutDown(w, "duplicate", "top")
    /\ UNCHANGED <<queueVars, sinceCleanup, shutdown, taskVars, breaker, dedupVars>>

(* The key is marked as seen before the breaker is consulted.              *)
Degrade(w) ==
    /\ Wellformed(w)
    /\ ~IsDuplicate(w, KeyOf[hand[w]])
    /\ MarkSeen(w, KeyOf[hand[w]])
    /\ Refuses(breaker[w])
    /\ pc' = [pc EXCEPT ![w] = "degrading"]
    /\ UNCHANGED <<queueVars, outcome, hand, sinceCleanup, shutdown, taskVars, breaker>>

(* Mutant of Dispatch: the breaker is not consulted.                       *)
DispatchAlways(w) ==
    /\ Wellformed(w)
    /\ ~IsDuplicate(w, KeyOf[hand[w]])
    /\ MarkSeen(w, KeyOf[hand[w]])
    /\ backlog' = [backlog EXCEPT ![w] = Append(@, hand[w])]
    /\ hand' = [hand EXCEPT ![w] = NoAlert]
    /\ pc' = [pc EXCEPT ![w] = "top"]
    /\ UNCHANGED <<queueVars, outcome, sinceCleanup, shutdown, running, failing, permits,
                   breaker>>

Dispatch(w) ==
    /\ Wellformed(w)
    /\ ~IsDuplicate(w, KeyOf[hand[w]])
    /\ MarkSeen(w, KeyOf[hand[w]])
    /\ ~Refuses(breaker[w])
    /\ breaker' = [breaker EXCEPT ![w] = AfterIsOpen(@)]
    /\ backlog' = [backlog EXCEPT ![w] = Append(@, hand[w])]
    /\ hand' = [hand EXCEPT ![w] = NoAlert]
    /\ pc' = [pc EXCEPT ![w] = "top"]
    /\ UNCHANGED <<queueVars, outcome, sinceCleanup, shutdown, running, failing, permits>>

(* LPUSH on intellipipe:alerts:degraded.  When it raises, Redis may still   *)
(* have executed it.                                                       *)
DegradedPush(w) ==
    /\ pc[w] = "degrading"
    /\ PutDown(w, "degraded", "top")
    /\ UNCHANGED <<queueVars, sinceCleanup, shutdown, taskVars, breaker, dedupVars>>

DegradedPushError(w) ==
    /\ "redis_error" \in Events
    /\ pc[w] = "degrading"
    /\ \E result \in {"degraded", "lost"} : PutDown(w, result, "sleeping")
    /\ UNCHANGED <<queueVars, sinceCleanup, shutdown, taskVars, breaker, dedupVars>>

(* The end of asyncio.sleep(5) after an error in the loop.                 *)
Wake(w) ==
    /\ pc[w] = "sleeping"
    /\ pc' = [pc EXCEPT ![w] = "top"]
    /\ UNCHANGED <<queueVars, outcome, hand, sinceCleanup, shutdown, taskVars, breaker,
                   dedupVars>>

-----------------------------------------------------------------------------
(* The processing tasks, lines 303-341.                                    *)

(* asyncio.Semaphore serves its waiters in FIFO order.                     *)
Acquire(w) ==
    /\ backlog[w] # <<>>
    /\ permits[w] > 0
    /\ permits' = [permits EXCEPT ![w] = @ - 1]
    /\ backlog' = [backlog EXCEPT ![w] = Tail(@)]
    /\ running' = [running EXCEPT ![w] = @ \cup {Head(backlog[w])}]
    /\ UNCHANGED <<queueVars, outcome, loopVars, failing, breaker, dedupVars>>

ProcessOk(w, a) ==
    /\ a \in running[w]
    /\ running' = [running EXCEPT ![w] = @ \ {a}]
    /\ breaker' = [breaker EXCEPT ![w] = RecordSuccess(@)]
    /\ outcome' = [outcome EXCEPT ![a] = "processed"]
    /\ permits' = [permits EXCEPT ![w] = @ + 1]
    /\ UNCHANGED <<queueVars, loopVars, backlog, failing, dedupVars>>

(* Mutant of ProcessError: the handler of the exception releases the        *)
(* semaphore, and so does the end of the block.                            *)
ProcessErrorReleases(w, a) ==
    /\ "processing_error" \in Events
    /\ a \in running[w]
    /\ running' = [running EXCEPT ![w] = @ \ {a}]
    /\ breaker' = [breaker EXCEPT ![w] = RecordFailure(@)]
    /\ failing' = [failing EXCEPT ![w] = @ \cup {a}]
    /\ permits' = [permits EXCEPT ![w] = @ + 1]
    /\ UNCHANGED <<queueVars, outcome, loopVars, backlog, dedupVars>>

ProcessError(w, a) ==
    /\ "processing_error" \in Events
    /\ a \in running[w]
    /\ running' = [running EXCEPT ![w] = @ \ {a}]
    /\ breaker' = [breaker EXCEPT ![w] = RecordFailure(@)]
    /\ failing' = [failing EXCEPT ![w] = @ \cup {a}]
    /\ UNCHANGED <<queueVars, outcome, loopVars, backlog, permits, dedupVars>>

(* Mutant of EndFailed: a failed alert does not release the semaphore.      *)
EndFailedHolding(w, a, result) ==
    /\ a \in failing[w]
    /\ failing' = [failing EXCEPT ![w] = @ \ {a}]
    /\ outcome' = [outcome EXCEPT ![a] = result]
    /\ UNCHANGED <<queueVars, loopVars, backlog, running, permits, breaker, dedupVars>>

(* The push to intellipipe:alerts:failed ends, and with it the async with  *)
(* block that holds the semaphore.                                         *)
EndFailed(w, a, result) ==
    /\ a \in failing[w]
    /\ failing' = [failing EXCEPT ![w] = @ \ {a}]
    /\ outcome' = [outcome EXCEPT ![a] = result]
    /\ permits' = [permits EXCEPT ![w] = @ + 1]
    /\ UNCHANGED <<queueVars, loopVars, backlog, running, breaker, dedupVars>>

FailedPush(w, a) == EndFailed(w, a, "failed")

FailedPushError(w, a) ==
    /\ "redis_error" \in Events
    /\ \E result \in {"failed", "lost"} : EndFailed(w, a, result)

-----------------------------------------------------------------------------
(* Signals, crashes and restarts.                                          *)

(* Every task and the loop of a worker end where they are: asyncio.run      *)
(* cancels the tasks still pending when main returns, a crash ends the      *)
(* process.  A push to one of the lists may still reach Redis.             *)
StopProcess(w) ==
    /\ \E delivered \in SUBSET (failing[w] \cup
                                {a \in Alerts : a = hand[w] /\ pc[w] = "degrading"}) :
          outcome' = [a \in Alerts |->
              IF a \notin Custody(w) THEN outcome[a]
              ELSE IF a \notin delivered THEN "lost"
              ELSE IF a \in failing[w] THEN "failed" ELSE "degraded"]
    /\ pc' = [pc EXCEPT ![w] = "stopped"]
    /\ hand' = [hand EXCEPT ![w] = NoAlert]
    /\ backlog' = [backlog EXCEPT ![w] = <<>>]
    /\ running' = [running EXCEPT ![w] = {}]
    /\ failing' = [failing EXCEPT ![w] = {}]
    /\ permits' = [permits EXCEPT ![w] = MaxConcurrent]
    /\ breaker' = [breaker EXCEPT ![w] = NewBreaker]
    /\ seen' = [seen EXCEPT ![w] = {}]
    /\ seenAge' = [seenAge EXCEPT ![w] = [k \in Keys |-> Window + 1]]
    /\ sinceAccept' = [sinceAccept EXCEPT ![w] = [k \in Keys |-> Window + 1]]
    /\ sinceCleanup' = [sinceCleanup EXCEPT ![w] = 0]
    /\ UNCHANGED queueVars

(* SIGTERM or SIGINT: the handler only sets the event.                     *)
Signal(w) ==
    /\ "shutdown" \in Events
    /\ pc[w] # "stopped"
    /\ ~shutdown[w]
    /\ shutdown' = [shutdown EXCEPT ![w] = TRUE]
    /\ UNCHANGED <<queueVars, outcome, pc, hand, sinceCleanup, taskVars, breaker, dedupVars>>

(* The loop ends, start() and main() return.                               *)
Exit(w) ==
    /\ pc[w] = "top"
    /\ shutdown[w]
    /\ StopProcess(w)
    /\ UNCHANGED shutdown

Crash(w) ==
    /\ "crash" \in Events
    /\ pc[w] # "stopped"
    /\ StopProcess(w)
    /\ UNCHANGED shutdown

(* The container runtime starts the worker again, with empty memory.       *)
Restart(w) ==
    /\ "restart" \in Events
    /\ pc[w] = "stopped"
    /\ pc' = [pc EXCEPT ![w] = "top"]
    /\ shutdown' = [shutdown EXCEPT ![w] = FALSE]
    /\ UNCHANGED <<queueVars, outcome, hand, sinceCleanup, taskVars, breaker, dedupVars>>

-----------------------------------------------------------------------------
Older(age, bound) == IF age <= bound THEN age + 1 ELSE age

Tick ==
    /\ breaker' = [w \in Workers |->
                      [breaker[w] EXCEPT !.age = Older(@, ResetTimeout)]]
    /\ seenAge' = [w \in Workers |-> [k \in Keys |-> Older(seenAge[w][k], Window)]]
    /\ sinceAccept' = [w \in Workers |-> [k \in Keys |-> Older(sinceAccept[w][k], Window)]]
    /\ sinceCleanup' = [w \in Workers |-> Older(sinceCleanup[w], CleanupInterval)]
    /\ UNCHANGED <<queueVars, outcome, pc, hand, shutdown, taskVars, seen>>

(* Steps of the polling loop that need nothing from outside the worker      *)
(* and Redis, and steps of its tasks.                                      *)
Loop(w) ==
    \/ LoopTop(w)
    \/ PollTimeout(w)
    \/ Pop(w)
    \/ Discard(w)
    \/ DropDuplicate(w)
    \/ Degrade(w)
    \/ Dispatch(w)
    \/ DegradedPush(w)
    \/ Wake(w)
    \/ Exit(w)

Task(w, a) ==
    \/ ProcessOk(w, a)
    \/ ProcessError(w, a)
    \/ FailedPush(w, a)

Environment(w) ==
    \/ PopError(w)
    \/ DegradedPushError(w)
    \/ \E a \in Alerts : FailedPushError(w, a)
    \/ Signal(w)
    \/ Crash(w)
    \/ Restart(w)

Next ==
    \/ \E a \in Alerts : Publish(a)
    \/ \E w \in Workers : Loop(w) \/ Acquire(w) \/ Environment(w)
    \/ \E w \in Workers, a \in Alerts : Task(w, a)
    \/ Tick

Spec == Init /\ [][Next]_vars

(* The event loop runs every ready coroutine, Redis answers, and a call to  *)
(* a service ends with an answer, an error or a time-out.                  *)
Fairness ==
    /\ \A w \in Workers : WF_vars(Loop(w)) /\ WF_vars(Acquire(w))
    /\ \A w \in Workers, a \in Alerts : WF_vars(Task(w, a))

FairSpec == Spec /\ Fairness

-----------------------------------------------------------------------------
(* Properties.                                                             *)

Outcomes == {"processed", "failed", "degraded", "duplicate", "malformed", "lost"}

(* An outcome other than "lost" is on record: an incident, one of the two   *)
(* Redis lists, or the decision to drop the alert.                         *)
Recorded == Outcomes \ {"lost"}

Lists == Seq(Alerts)
Breakers == [state : {"CLOSED", "OPEN", "HALF_OPEN"}, failures : Nat, age : BreakerAges]

(* Every variable has the type the code gives it, and the loop holds an     *)
(* alert exactly while it handles one.                                     *)
TypeOK ==
    /\ published \subseteq Alerts
    /\ queue \in Lists
    /\ outcome \in [Alerts -> {"pending"} \cup Outcomes]
    /\ pc \in [Workers ->
                {"top", "polling", "handling", "degrading", "sleeping", "stopped"}]
    /\ hand \in [Workers -> Alerts \cup {NoAlert}]
    /\ \A w \in Workers : pc[w] \in {"handling", "degrading"} <=> hand[w] # NoAlert
    /\ backlog \in [Workers -> Lists]
    /\ running \in [Workers -> SUBSET Alerts]
    /\ failing \in [Workers -> SUBSET Alerts]
    /\ permits \in [Workers -> Nat]
    /\ breaker \in [Workers -> Breakers]
    /\ seen \in [Workers -> SUBSET Keys]
    /\ seenAge \in [Workers -> [Keys -> SeenAges]]
    /\ sinceAccept \in [Workers -> [Keys -> SeenAges]]
    /\ sinceCleanup \in [Workers -> 0..(CleanupInterval + 1)]
    /\ shutdown \in [Workers -> BOOLEAN]

(* The places an alert is in.                                              *)
Places(a) ==
    {<<"queue", i>> : i \in {j \in DOMAIN queue : queue[j] = a}}
    \cup {<<"hand", w>> : w \in {v \in Workers : hand[v] = a}}
    \cup {<<"backlog", w>> : w \in {v \in Workers : a \in ToSet(backlog[v])}}
    \cup {<<"running", w>> : w \in {v \in Workers : a \in running[v]}}
    \cup {<<"failing", w>> : w \in {v \in Workers : a \in failing[v]}}
    \cup (IF outcome[a] = "pending" THEN {} ELSE {<<"outcome">>})

(* No alert is processed twice and none disappears: a published alert is    *)
(* at every moment in exactly one of the Redis list, the hand of one        *)
(* worker's loop, one task of one worker, or an outcome.  All hand-overs    *)
(* of _run_loop and _process_alert_safe take part.                         *)
AlertConserved ==
    \A a \in Alerts :
        IF a \in published THEN \E p \in Places(a) : Places(a) = {p}
                          ELSE Places(a) = {}

(* The semaphore leaks no permit on any path of _process_alert_safe, the    *)
(* error paths included, so never more than MAX_CONCURRENT_ALERTS tasks     *)
(* are between its acquisition and its release.                            *)
SemaphoreConserved ==
    \A w \in Workers :
        permits[w] + Cardinality(running[w] \cup failing[w]) = MaxConcurrent

(* The failure count and the state of a breaker agree whatever the order    *)
(* in which tasks started before it opened come back: it is CLOSED exactly  *)
(* while the failures since the last success stay below the threshold, so   *)
(* one failure of a trial in HALF_OPEN opens it again.                     *)
BreakerConsistent ==
    \A w \in Workers :
        breaker[w].state = "CLOSED" <=> breaker[w].failures < Threshold

(* The worker lets the alert in its hand through, to a task or to the list  *)
(* of degraded alerts.                                                     *)
Accepts(w) ==
    /\ pc[w] = "handling"
    /\ \/ Len(backlog'[w]) > Len(backlog[w])
       \/ pc'[w] = "degrading"

(* Deduplication is exact over the life of a process: an alert is let       *)
(* through only if none of its key was in the last Window, and dropped as   *)
(* duplicate only if one was, whatever the cache cleanup removed meanwhile  *)
(* (is_duplicate and cleanup_expired compare the same ages differently).    *)
DedupExact ==
    [][\A w \in Workers :
        /\ Accepts(w) => sinceAccept[w][KeyOf[hand[w]]] >= Window
        /\ \A a \in Alerts :
            hand[w] = a /\ outcome[a] = "pending" /\ outcome'[a] = "duplicate"
                => sinceAccept[w][KeyOf[a]] < Window]_vars

(* A breaker that refuses calls stays shut until a whole ResetTimeout has   *)
(* passed since the last failure, the late failures of running tasks        *)
(* included, or a running task succeeds; no task is created meanwhile.     *)
BreakerGate ==
    [][\A w \in Workers :
        /\ Refuses(breaker[w]) /\ pc'[w] # "stopped" =>
              \/ Refuses(breaker'[w])
              \/ breaker'[w].age > ResetTimeout
              \/ \E a \in running[w] : outcome'[a] = "processed"
        /\ Len(backlog'[w]) > Len(backlog[w]) => ~Refuses(breaker[w])]_vars

(* Every alert pushed to the list is settled on record, as long as a worker *)
(* runs: only the stop of a worker loses any.                              *)
AlertsSettle ==
    \A a \in Alerts :
        a \in published ~>
            \/ outcome[a] \in Recorded
            \/ outcome[a] = "lost" /\ \E w \in Workers : pc[w] = "stopped"
            \/ \A w \in Workers : pc[w] = "stopped"

(* A signalled worker ends: the poll has a time-out, so the loop reads the  *)
(* event again whatever the queue does.                                    *)
ShutdownHonoured ==
    \A w \in Workers : shutdown[w] ~> pc[w] = "stopped"

(* A graceful shutdown loses no alert the worker has taken (comments at     *)
(* lines 448 and 461).                                                     *)
NothingLost == \A a \in Alerts : outcome[a] # "lost"

(* The worker implements the delivery promise.                             *)
StatusOf(a) ==
    IF a \notin published THEN "new"
    ELSE IF outcome[a] # "pending" THEN outcome[a]
    ELSE IF a \in ToSet(queue) THEN "waiting" ELSE "taken"

Delivery == INSTANCE AlertDelivery
    WITH line <- queue, status <- [a \in Alerts |-> StatusOf(a)], Lost <- "lost"

(* Each alert leaves the list in arrival order, is taken by one worker at   *)
(* most once and has one outcome that never changes.                       *)
DeliverySpec == Delivery!Spec
=============================================================================
