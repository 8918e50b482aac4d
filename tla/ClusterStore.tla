---------------------------- MODULE ClusterStore ----------------------------
(***************************************************************************)
(* The cluster store (src/src/cluster): one fetch loop per endpoint, the   *)
(* subscriber registry that gates the expensive ones, the tokio Notify     *)
(* that wakes a loop, and the snapshot the UI task applies results to,     *)
(* driven by the worker registry's tab transitions (src/src/app/worker.rs).*)
(*                                                                         *)
(* Processes: the UI task (tab transitions, force refreshes, applying      *)
(* updates) and one fetch task per endpoint.  A transition is not atomic:  *)
(* fetch tasks run on other threads and may read a counter between two of  *)
(* its steps, so every counter operation and every notify is a step.       *)
(*                                                                         *)
(* The shared event channel is seen here as one FIFO per endpoint;         *)
(* EventLoop models its shared capacity.                                   *)
(***************************************************************************)
EXTENDS Naturals, Sequences, FiniteSets

CONSTANTS
    Endpoints,   \* ClusterEndpoint
    Gated,       \* endpoints spawned with gated: true
    ForcedIn,    \* ForcedIn[e]: views with a key that calls force(e)
    Feeds,       \* Feeds[e]: endpoints that e's data may force-refresh
    Views,       \* ViewId
    NoView,      \* WorkerRegistry.active = None
    Reads,       \* Reads[v]: endpoints view v subscribes to
    MaxCycle,    \* request numbers saturate here
    InboxBound   \* undelivered updates of one endpoint

ASSUME ClusterAssumption ==
    /\ Gated \subseteq Endpoints
    /\ ForcedIn \in [Endpoints -> SUBSET Views]
    /\ Feeds \in [Endpoints -> SUBSET Endpoints]
    /\ IsFiniteSet(Views)
    /\ NoView \notin Views
    /\ Reads \in [Views -> SUBSET Endpoints]
    /\ MaxCycle \in Nat \ {0}
    /\ InboxBound \in Nat \ {0}

VARIABLES
    \* UI task
    active,    \* the view that owns the subscriptions
    outgoing,  \* the view being left
    leaving,   \* endpoints transition_out has still to unsubscribe
    entering,  \* endpoints transition_in_subscribe has still to subscribe
    waking,    \* {e}: subscribe(e) has counted but not yet notified
    \* SubscriberRegistry
    sets,      \* sets[e]: the subscribed views
    counters,  \* counters[e]: the AtomicUsize the fetch task reads
    \* tokio Notify, one per endpoint, with its single possible waiter
    permits,   \* endpoints with a stored notification
    waiter,    \* "none", "waiting", or "notified" (granted, not yet polled)
    \* fetch tasks
    pc,        \* where the loop is
    cycle,     \* number of the latest request
    outcome,   \* its result, between the fetch and the send
    \* channel and snapshot
    inbox,     \* updates sent and not yet applied
    cell,      \* EndpointState
    \* history
    due        \* endpoints asked to fetch, whose fetch has not started

uiVars    == <<active, outgoing, leaving, entering, waking>>
regVars   == <<sets, counters>>
notifVars == <<permits, waiter>>
loopVars  == <<pc, cycle, outcome>>
dataVars  == <<inbox, cell>>
vars == <<uiVars, regVars, notifVars, loopVars, dataVars, due>>

Loading == [kind |-> "Loading", at |-> 0, data |-> 0]
Results  == [n : 1..MaxCycle, status : {"Ok", "Err"}]
NoResult == [n |-> 0, status |-> "Err"]
Cells    == [kind : {"Loading", "Ready", "Failed"}, at : 0..MaxCycle, data : 0..MaxCycle]
Grants   == {"none", "waiting", "notified"}
PCs      == {"gate", "arm", "park", "fetch", "send", "sleep", "doze"}

-----------------------------------------------------------------------------
(* Helpers, and beside some of them the mistake a run must notice *)

\* A failed fetch blanks the cell.
ApplyBlanking(c, r) == IF r.status = "Ok" THEN [kind |-> "Ready",  at |-> r.n, data |-> r.n]
                               ELSE [kind |-> "Failed", at |-> r.n, data |-> 0]

\* EndpointState::apply: a failure keeps whatever latest() returned.
Apply(c, r) == IF r.status = "Ok" THEN [kind |-> "Ready",  at |-> r.n, data |-> r.n]
                       ELSE [kind |-> "Failed", at |-> r.n, data |-> c.data]

\* The loop of e does not park: it is ungated or has a subscriber.
Open(e) == e \notin Gated \/ counters[e] > 0

\* notify_waiters instead of notify_one: nothing is stored.
NotifyWaiters(e) ==
    /\ waiter' = [waiter EXCEPT ![e] = IF @ = "waiting" THEN "notified" ELSE @]
    /\ UNCHANGED permits

\* Notify::notify_one: grant a registered waiter, else store one permit.
NotifyOne(e) ==
    /\ waiter' = [waiter EXCEPT ![e] = IF @ = "waiting" THEN "notified" ELSE @]
    /\ permits' = IF waiter[e] = "waiting" THEN permits ELSE permits \cup {e}

\* The first poll of notified(): take the permit or register.
PollNotified(e, woken, waiting) ==
    IF e \in permits
    THEN /\ permits' = permits \ {e}
         /\ pc' = [pc EXCEPT ![e] = woken]
         /\ UNCHANGED waiter
    ELSE /\ waiter' = [waiter EXCEPT ![e] = "waiting"]
         /\ pc' = [pc EXCEPT ![e] = waiting]
         /\ UNCHANGED permits

\* publish_node_addresses: new data of e, if it changes the list derived
\* from it, force-refreshes the endpoint that works on the list.
Feed(e) ==
    \/ UNCHANGED <<notifVars, due>>
    \/ /\ Head(inbox[e]).status = "Ok"
       /\ \E f \in Feeds[e] : NotifyOne(f) /\ due' = due \cup {f}

\* The UI task is between two events, its transition (if any) complete.
UiIdle == leaving = {} /\ entering = {} /\ waking = {}

-----------------------------------------------------------------------------
Init ==
    /\ active = NoView /\ outgoing = NoView
    /\ leaving = {} /\ entering = {} /\ waking = {}
    /\ sets     = [e \in Endpoints |-> {}]
    /\ counters = [e \in Endpoints |-> 0]
    /\ permits  = {}
    /\ waiter   = [e \in Endpoints |-> "none"]
    /\ pc       = [e \in Endpoints |-> "gate"]
    /\ cycle    = [e \in Endpoints |-> 0]
    /\ outcome  = [e \in Endpoints |-> NoResult]
    /\ inbox    = [e \in Endpoints |-> <<>>]
    /\ cell     = [e \in Endpoints |-> Loading]
    /\ due      = {}

-----------------------------------------------------------------------------
(* The UI task *)

\* Releasing subscriptions only of a view that owned a worker handle.
EnsureLeaking(view) ==
    /\ UiIdle
    /\ active # view
    /\ outgoing' = active
    /\ active'   = view
    /\ leaving'  = {}
    /\ entering' = Reads[view]
    /\ UNCHANGED <<waking, regVars, notifVars, loopVars, dataVars, due>>

\* WorkerRegistry::ensure(view) with another view active.
Ensure(view) ==
    /\ UiIdle
    /\ active # view
    /\ outgoing' = active
    /\ active'   = view
    /\ leaving'  = IF active = NoView THEN {} ELSE Reads[active]
    /\ entering' = Reads[view]
    /\ UNCHANGED <<waking, regVars, notifVars, loopVars, dataVars, due>>

\* ClusterStore::unsubscribe(e, outgoing), one line of transition_out.
Unsubscribe(e) ==
    /\ e \in leaving
    /\ leaving' = leaving \ {e}
    /\ sets' = [sets EXCEPT ![e] = @ \ {outgoing}]
    /\ counters' = IF outgoing \in sets[e]
                   THEN [counters EXCEPT ![e] = @ - 1] ELSE counters
    /\ UNCHANGED <<active, outgoing, entering, waking,
                   notifVars, loopVars, dataVars, due>>

\* The subscriber is counted but the loop is not notified.
SubscribeSilently(e) ==
    /\ leaving = {} /\ waking = {}
    /\ e \in entering
    /\ entering' = entering \ {e}
    /\ sets' = [sets EXCEPT ![e] = @ \cup {active}]
    /\ counters' = [counters EXCEPT ![e] = @ + 1]
    /\ UNCHANGED <<active, outgoing, leaving, waking, due,
                   notifVars, loopVars, dataVars>>

\* SubscriberRegistry::subscribe(e, active): insert and fetch_add.  Every
\* insertion, not only the first, goes on to notify.
Subscribe(e) ==
    /\ leaving = {} /\ waking = {}
    /\ e \in entering
    /\ entering' = entering \ {e}
    /\ sets' = [sets EXCEPT ![e] = @ \cup {active}]
    /\ IF active \in sets[e]
       THEN UNCHANGED <<counters, waking, due>>
       ELSE /\ counters' = [counters EXCEPT ![e] = @ + 1]
            /\ waking' = {e}
            /\ due' = due \cup {e}
    /\ UNCHANGED <<active, outgoing, leaving, notifVars, loopVars, dataVars>>

\* The notify_one of ClusterStore::subscribe.
NotifySubscribed(e) ==
    /\ e \in waking
    /\ waking' = {}
    /\ NotifyOne(e)
    /\ UNCHANGED <<active, outgoing, leaving, entering,
                   regVars, loopVars, dataVars, due>>

\* ClusterStore::force from a refresh key.
ForceRefresh(e) ==
    /\ UiIdle
    /\ active \in ForcedIn[e]
    /\ NotifyOne(e)
    /\ due' = due \cup {e}
    /\ UNCHANGED <<uiVars, regVars, loopVars, dataVars>>

\* The run loop's ClusterUpdate arm: apply_update on the next update of e,
\* then publish_node_addresses.
ApplyUpdate(e) ==
    /\ UiIdle
    /\ inbox[e] # <<>>
    /\ cell'  = [cell EXCEPT ![e] = Apply(@, Head(inbox[e]))]
    /\ inbox' = [inbox EXCEPT ![e] = Tail(@)]
    /\ Feed(e)
    /\ UNCHANGED <<uiVars, regVars, loopVars>>

-----------------------------------------------------------------------------
(* The fetch task of e *)

\* Top of the loop: load the counter; start a request or decide to park.
Gate(e) ==
    /\ pc[e] = "gate"
    /\ IF Open(e)
       THEN /\ pc' = [pc EXCEPT ![e] = "fetch"]
            /\ cycle' = [cycle EXCEPT ![e] = IF @ < MaxCycle THEN @ + 1 ELSE @]
            /\ due' = due \ {e}
       ELSE /\ pc' = [pc EXCEPT ![e] = "arm"]
            /\ UNCHANGED <<cycle, due>>
    /\ UNCHANGED <<uiVars, regVars, notifVars, outcome, dataVars>>

\* force.notified().await of the gated branch, first poll.
Arm(e) ==
    /\ pc[e] = "arm"
    /\ PollNotified(e, "gate", "park")
    /\ UNCHANGED <<uiVars, regVars, cycle, outcome, dataVars, due>>

\* A woken loop fetches without re-checking the gate.
UnparkUnchecked(e) ==
    /\ pc[e] = "park"
    /\ waiter[e] = "notified"
    /\ waiter' = [waiter EXCEPT ![e] = "none"]
    /\ pc' = [pc EXCEPT ![e] = "fetch"]
    /\ UNCHANGED <<uiVars, regVars, permits, cycle, outcome, dataVars, due>>

\* ... and its wake-up; the loop re-checks the gate.
Unpark(e) ==
    /\ pc[e] = "park"
    /\ waiter[e] = "notified"
    /\ waiter' = [waiter EXCEPT ![e] = "none"]
    /\ pc' = [pc EXCEPT ![e] = "gate"]
    /\ UNCHANGED <<uiVars, regVars, permits, cycle, outcome, dataVars, due>>

\* The NiFi call answers, or fails.
Fetch(e) ==
    /\ pc[e] = "fetch"
    /\ \E status \in {"Ok", "Err"} :
          outcome' = [outcome EXCEPT ![e] = [n |-> cycle[e], status |-> status]]
    /\ pc' = [pc EXCEPT ![e] = "send"]
    /\ UNCHANGED <<uiVars, regVars, notifVars, cycle, dataVars, due>>

\* tx.send(ClusterUpdate).await
Send(e) ==
    /\ pc[e] = "send"
    /\ Len(inbox[e]) < InboxBound
    /\ inbox' = [inbox EXCEPT ![e] = Append(@, outcome[e])]
    /\ outcome' = [outcome EXCEPT ![e] = NoResult]
    /\ pc' = [pc EXCEPT ![e] = "sleep"]
    /\ UNCHANGED <<uiVars, regVars, notifVars, cycle, cell, due>>

\* A force that came during the request is taken to be served by it.
SleepDraining(e) ==
    /\ pc[e] = "sleep"
    /\ waiter' = [waiter EXCEPT ![e] = "waiting"]
    /\ permits' = permits \ {e}
    /\ pc' = [pc EXCEPT ![e] = "doze"]
    /\ UNCHANGED <<uiVars, regVars, cycle, outcome, dataVars, due>>

\* sleep_with_jitter: the first poll of its select!.
Sleep(e) ==
    /\ pc[e] = "sleep"
    /\ PollNotified(e, "gate", "doze")
    /\ UNCHANGED <<uiVars, regVars, cycle, outcome, dataVars, due>>

\* The force branch of the select! fires.
WakeByForce(e) ==
    /\ pc[e] = "doze"
    /\ waiter[e] = "notified"
    /\ waiter' = [waiter EXCEPT ![e] = "none"]
    /\ pc' = [pc EXCEPT ![e] = "gate"]
    /\ UNCHANGED <<uiVars, regVars, permits, cycle, outcome, dataVars, due>>

\* The timer branch fires.  Dropping a Notified that was already granted
\* puts the notification back.
WakeByTimer(e) ==
    /\ pc[e] = "doze"
    /\ waiter' = [waiter EXCEPT ![e] = "none"]
    /\ permits' = IF waiter[e] = "notified" THEN permits \cup {e} ELSE permits
    /\ pc' = [pc EXCEPT ![e] = "gate"]
    /\ UNCHANGED <<uiVars, regVars, cycle, outcome, dataVars, due>>

-----------------------------------------------------------------------------
UiStep == \/ \E view \in Views : Ensure(view)
          \/ \E e \in Endpoints : \/ Unsubscribe(e) \/ Subscribe(e)
                                  \/ NotifySubscribed(e)
                                  \/ ForceRefresh(e) \/ ApplyUpdate(e)

FetchStep(e) == \/ Gate(e) \/ Arm(e) \/ Unpark(e)
                \/ Fetch(e) \/ Send(e)
                \/ Sleep(e) \/ WakeByForce(e) \/ WakeByTimer(e)

Next == UiStep \/ \E e \in Endpoints : FetchStep(e)

Spec == Init /\ [][Next]_vars

(* The tokio scheduler runs every ready task, HTTP calls return (reqwest   *)
(* times out) and timers fire: each fetch task is weakly fair.  The UI     *)
(* task finishes the transition it is in and drains every endpoint's       *)
(* updates; the user is not obliged to press anything.                     *)
Fairness ==
    \A e \in Endpoints :
        /\ WF_vars(FetchStep(e))
        /\ WF_vars(Unsubscribe(e)) /\ WF_vars(Subscribe(e))
        /\ WF_vars(NotifySubscribed(e))
        /\ SF_vars(ApplyUpdate(e))

FairSpec == Spec /\ Fairness

-----------------------------------------------------------------------------
(* Properties *)

\* Every variable has its type (one conjunct per group of variables).
UiType ==
    /\ active \in Views \cup {NoView}
    /\ outgoing \in Views \cup {NoView}
    /\ leaving \subseteq Endpoints
    /\ entering \subseteq Endpoints
    /\ waking \subseteq Endpoints
RegistryType ==
    /\ sets \in [Endpoints -> SUBSET Views]
    /\ counters \in [Endpoints -> Nat]
NotifyType ==
    /\ permits \subseteq Endpoints
    /\ waiter \in [Endpoints -> Grants]
LoopType ==
    /\ pc \in [Endpoints -> PCs]
    /\ cycle \in [Endpoints -> 0..MaxCycle]
    /\ outcome \in [Endpoints -> Results \cup {NoResult}]
DataType ==
    /\ inbox \in [Endpoints -> Seq(Results)]
    /\ cell \in [Endpoints -> Cells]
    /\ due \subseteq Endpoints
TypeOK == UiType /\ RegistryType /\ NotifyType /\ LoopType /\ DataType

\* The counter the fetch tasks read without a lock is the size of the set
\* the UI task owns (subscriber.rs: counters[endpoint] next to sets).
CountersMirrorSets ==
    \A e \in Endpoints : counters[e] = Cardinality(sets[e])

\* Between two events the subscriptions are exactly those of the active
\* view: no transition sequence leaks or loses one (worker.rs, ensure).
SubscriptionsMatchView ==
    UiIdle => \A e \in Endpoints :
                 sets[e] = IF active # NoView /\ e \in Reads[active]
                           THEN {active} ELSE {}

\* No lost wake-up: a loop that decided to park, or did, on a count it read
\* as zero is never left behind by a subscription: a notification is on
\* its way (store.rs subscribe against the gated branch of the loops).
NoLostWakeup ==
    \A e \in Endpoints :
       pc[e] \in {"arm", "park"} /\ counters[e] > 0
          => e \in permits \/ waiter[e] = "notified" \/ e \in waking

\* A refresh that nobody has served yet is still remembered somewhere: a
\* force during a request, its send or its sleep is not swallowed by it.
DemandRemembered ==
    \A e \in Endpoints :
       e \in due /\ Open(e)
          => \/ pc[e] = "gate"
             \/ e \in permits \/ waiter[e] = "notified" \/ e \in waking

\* The snapshot implements the store's promise to its readers: no request
\* is shown before an older one, and a failure keeps the last good data.
Promise == INSTANCE PolledCells WITH asked <- cycle
CellsKeepPromise == Promise!Spec

\* A demanded refresh of an open endpoint is eventually started.
DemandServed ==
    \A e \in Endpoints : (e \in due /\ Open(e)) ~> (e \notin due \/ ~Open(e))

\* A view that stays active eventually gets an answer, good or bad, from
\* every endpoint it reads.
ViewGetsAnswer ==
    \A v \in Views : \A e \in Reads[v] :
       (active = v) ~> (cell[e].kind # "Loading" \/ active # v)

\* A gated endpoint nobody reads any more stops calling NiFi, however
\* often it is force-refreshed.
UnreadGoesQuiet ==
    \A e \in Gated : <>[](counters[e] = 0) => <>[](pc[e] # "fetch")

=============================================================================
