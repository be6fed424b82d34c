------------------------------ MODULE AlertFeed ------------------------------
(***************************************************************************)
(* The alert workers and the dashboards of the API (alerts_websocket in     *)
(* src/src/api/main.py) together.  Each open dashboard runs a coroutine     *)
(* that pops alerts from the very list the workers consume.                 *)
(***************************************************************************)
EXTENDS AlertWorker

CONSTANTS
    Feeds,        \* web socket connections, each one opened once
    Tenants,
    TenantOf,     \* the tenant of each alert
    SubscribedTo  \* the tenant in the path of each connection

ASSUME AlertFeedAssumption ==
    /\ TenantOf \in [Alerts -> Tenants]
    /\ SubscribedTo \in [Feeds -> Tenants]

VARIABLES
    feed,       \* where the coroutine of each connection is
    parcel,     \* the alert it is sending
    connected,  \* connections whose client is still there, which the API may not know
    active,     \* ConnectionManager._active
    shown,      \* alerts sent on each connection
    discarded   \* alerts popped for a coroutine that reached no client

feedVars  == <<feed, parcel, connected, active, shown, discarded>>
allVars   == <<vars, feedVars>>
workerVars == <<published, outcome, loopVars, taskVars, breaker, dedupVars>>

FeedInit ==
    /\ Init
    /\ feed = [f \in Feeds |-> "new"]
    /\ parcel = [f \in Feeds |-> NoAlert]
    /\ connected = {}
    /\ active = {}
    /\ shown = [f \in Feeds |-> {}]
    /\ discarded = {}

Connect(f) ==
    /\ feed[f] = "new"
    /\ feed' = [feed EXCEPT ![f] = "popping"]
    /\ connected' = connected \cup {f}
    /\ active' = active \cup {f}
    /\ UNCHANGED <<vars, parcel, shown, discarded>>

(* The client goes away.  The coroutine only sends: it does not notice.     *)
Leave(f) ==
    /\ f \in connected
    /\ connected' = connected \ {f}
    /\ UNCHANGED <<vars, feed, parcel, active, shown, discarded>>

RpopNothing(f) ==
    /\ feed[f] = "popping"
    /\ queue = <<>>
    /\ feed' = [feed EXCEPT ![f] = "asleep"]
    /\ UNCHANGED <<vars, parcel, connected, active, shown, discarded>>

(* Mutant of Takes: the coroutine looks at the alert and leaves it.         *)
LooksAt(f, a) ==
    /\ feed[f] = "popping"
    /\ queue # <<>>
    /\ a = Head(queue)
    /\ UNCHANGED <<queue, workerVars, connected, shown>>

(* Mutant of Takes: LPOP, which takes the newest alert.                     *)
TakesNewest(f, a) ==
    /\ feed[f] = "popping"
    /\ queue # <<>>
    /\ a = Last(queue)
    /\ queue' = Front(queue)
    /\ UNCHANGED <<workerVars, connected, shown>>

(* RPOP, which does not wait.                                              *)
Takes(f, a) ==
    /\ feed[f] = "popping"
    /\ queue # <<>>
    /\ a = Head(queue)
    /\ queue' = Tail(queue)
    /\ UNCHANGED <<workerVars, connected, shown>>

(* Mutant of RpopOwn: the tenant is not compared.                          *)
RpopAny(f, a) ==
    /\ Takes(f, a)
    /\ a \notin Malformed
    /\ feed' = [feed EXCEPT ![f] = "sending"]
    /\ parcel' = [parcel EXCEPT ![f] = a]
    /\ UNCHANGED <<active, discarded>>

(* An alert of the tenant of the connection is sent on it.                 *)
RpopOwn(f, a) ==
    /\ Takes(f, a)
    /\ a \notin Malformed
    /\ TenantOf[a] = SubscribedTo[f]
    /\ feed' = [feed EXCEPT ![f] = "sending"]
    /\ parcel' = [parcel EXCEPT ![f] = a]
    /\ UNCHANGED <<active, discarded>>

(* The alerts of other tenants are popped all the same.                    *)
RpopOther(f, a) ==
    /\ Takes(f, a)
    /\ a \notin Malformed
    /\ TenantOf[a] # SubscribedTo[f]
    /\ feed' = [feed EXCEPT ![f] = "asleep"]
    /\ discarded' = discarded \cup {a}
    /\ UNCHANGED <<parcel, active>>

(* json.loads raises, and not what the handler catches: the coroutine ends  *)
(* and its connection stays registered.                                    *)
RpopMalformed(f, a) ==
    /\ Takes(f, a)
    /\ a \in Malformed
    /\ feed' = [feed EXCEPT ![f] = "ended"]
    /\ discarded' = discarded \cup {a}
    /\ UNCHANGED <<parcel, active>>

(* The call to Redis raises, and not what the handler catches: the          *)
(* coroutine ends and its connection stays registered.  Redis may have      *)
(* popped an alert, whose reply is lost, ...                               *)
RpopLost(f, a) ==
    /\ Takes(f, a)
    /\ feed' = [feed EXCEPT ![f] = "ended"]
    /\ discarded' = discarded \cup {a}
    /\ UNCHANGED <<parcel, active>>

(* ... or not.                                                             *)
RpopError(f) ==
    /\ feed[f] = "popping"
    /\ feed' = [feed EXCEPT ![f] = "ended"]
    /\ UNCHANGED <<vars, parcel, connected, active, shown, discarded>>

Send(f) ==
    /\ feed[f] = "sending"
    /\ f \in connected
    /\ feed' = [feed EXCEPT ![f] = "asleep"]
    /\ shown' = [shown EXCEPT ![f] = @ \cup {parcel[f]}]
    /\ parcel' = [parcel EXCEPT ![f] = NoAlert]
    /\ UNCHANGED <<vars, connected, active, discarded>>

(* The client has left and the send does not show it: send_json returns     *)
(* once the message is in the buffers of the server.                        *)
SendUnread(f) ==
    /\ feed[f] = "sending"
    /\ f \notin connected
    /\ feed' = [feed EXCEPT ![f] = "asleep"]
    /\ discarded' = discarded \cup {parcel[f]}
    /\ parcel' = [parcel EXCEPT ![f] = NoAlert]
    /\ UNCHANGED <<vars, connected, active, shown>>

(* Mutant of SendError: the alert is kept.                                 *)
SendErrorKeeps(f) ==
    /\ feed[f] = "sending"
    /\ f \notin connected
    /\ feed' = [feed EXCEPT ![f] = "ended"]
    /\ active' \in {active, active \ {f}}
    /\ discarded' = discarded \cup {parcel[f]}
    /\ UNCHANGED <<vars, parcel, connected, shown>>

(* Sending to a client that left raises WebSocketDisconnect, which          *)
(* unregisters the connection, or another exception, which does not.        *)
SendError(f) ==
    /\ feed[f] = "sending"
    /\ f \notin connected
    /\ feed' = [feed EXCEPT ![f] = "ended"]
    /\ active' \in {active, active \ {f}}
    /\ discarded' = discarded \cup {parcel[f]}
    /\ parcel' = [parcel EXCEPT ![f] = NoAlert]
    /\ UNCHANGED <<vars, connected, shown>>

(* The end of asyncio.sleep(1).                                            *)
WakeFeed(f) ==
    /\ feed[f] = "asleep"
    /\ feed' = [feed EXCEPT ![f] = "popping"]
    /\ UNCHANGED <<vars, parcel, connected, active, shown, discarded>>

FeedStep(f) ==
    \/ Connect(f) \/ Leave(f) \/ RpopNothing(f)
    \/ \E a \in Alerts : \/ RpopOwn(f, a) \/ RpopOther(f, a)
                         \/ RpopMalformed(f, a) \/ RpopLost(f, a)
    \/ RpopError(f)
    \/ Send(f) \/ SendUnread(f) \/ SendError(f) \/ WakeFeed(f)

(* A replica of the API dies with the connections it has, their coroutines  *)
(* and what these hold.  An alert whose pop or whose send is on its way is  *)
(* RpopLost or Send before this.  The replica is started again, and new     *)
(* connections open.                                                        *)
ApiDies(some) ==
    /\ some \subseteq active
    /\ feed' = [f \in Feeds |-> IF f \in some THEN "ended" ELSE feed[f]]
    /\ parcel' = [f \in Feeds |-> IF f \in some THEN NoAlert ELSE parcel[f]]
    /\ connected' = connected \ some
    /\ active' = active \ some
    /\ discarded' = discarded \cup {a \in Alerts : \E f \in some : a = parcel[f]}
    /\ UNCHANGED <<vars, shown>>

WorkerStep == Next /\ UNCHANGED feedVars

FeedNext ==
    \/ WorkerStep
    \/ \E f \in Feeds : FeedStep(f)
    \/ \E some \in SUBSET Feeds : ApiDies(some)

FeedSpec == FeedInit /\ [][FeedNext]_allVars

-----------------------------------------------------------------------------
(* Properties.                                                             *)

(* Every variable has the type the code gives it; a coroutine holds an      *)
(* alert exactly while it sends, and is registered while it runs.           *)
FeedTypeOK ==
    /\ feed \in [Feeds -> {"new", "popping", "asleep", "sending", "ended"}]
    /\ parcel \in [Feeds -> Alerts \cup {NoAlert}]
    /\ \A f \in Feeds : parcel[f] # NoAlert <=> feed[f] = "sending"
    /\ connected \subseteq Feeds
    /\ active \subseteq Feeds
    /\ \A f \in Feeds : feed[f] \in {"popping", "asleep", "sending"} => f \in active
    /\ shown \in [Feeds -> SUBSET Alerts]
    /\ discarded \subseteq Alerts

FeedPlaces(a) ==
    Places(a)
    \cup {<<"parcel", f>> : f \in {g \in Feeds : parcel[g] = a}}
    \cup {<<"shown", f>> : f \in {g \in Feeds : a \in shown[g]}}
    \cup (IF a \in discarded THEN {<<"discarded">>} ELSE {})

(* Replicas and dashboards that pop one list in any order never have the    *)
(* same alert twice, neither two of a kind nor a worker and a dashboard,    *)
(* and what a dashboard loses (a reply of Redis, an alert in the hands of a *)
(* replica of the API that dies, a message to a client that left) is lost   *)
(* once: it is not on the list again nor on another screen.                 *)
FeedConserved ==
    \A a \in Alerts :
        IF a \in published THEN \E p \in FeedPlaces(a) : FeedPlaces(a) = {p}
                           ELSE FeedPlaces(a) = {}

(* No dashboard shows an alert of another tenant, though every dashboard    *)
(* pops the alerts of all tenants.                                         *)
TenantIsolation ==
    \A f \in Feeds : \A a \in shown[f] : TenantOf[a] = SubscribedTo[f]

(* Every alert that leaves the list is handled by a worker, which triggers  *)
(* the agent for each unique alert (alert_processor.py, line 7).           *)
WorkersGetEveryAlert ==
    \A a \in published :
        \/ a \in ToSet(queue)
        \/ \E w \in Workers : a \in Custody(w)
        \/ outcome[a] # "pending"
=============================================================================
