------------------------------ MODULE EventLoop ------------------------------
(***************************************************************************)
(* The one bounded tokio mpsc channel every task reports on and the UI     *)
(* loop that drains it (src/src/app/mod.rs, run).  The loop is also a      *)
(* sender on its own channel: having applied a ClusterUpdate it awaits     *)
(* tx.send(ClusterChanged), and only the ClusterChanged refreshes the      *)
(* views' projections.                                                     *)
(*                                                                         *)
(* tokio's bounded channel is a fair semaphore: a freed slot is handed to  *)
(* the longest-waiting sender, and a sender that finds none free queues.   *)
(* That is taken from tokio, and a waiting sender that is aborted (which   *)
(* tokio takes out of the queue) is left out.                              *)
(***************************************************************************)
EXTENDS Naturals, Sequences, FiniteSets

CONSTANTS
    Fetchers,     \* tasks that send ClusterUpdate
    Others,       \* input, tick and view workers: any other event
    Ui,           \* the UI loop as a sender
    Burst,        \* Burst[p]: events p sends back to back in one cycle
    Capacity,     \* APP_EVENT_CHANNEL_CAPACITY
    BrowserOnly   \* fetchers whose projection is rebuilt on the Browser tab only

Producers == Fetchers \cup Others
Senders   == Producers \cup {Ui}
NoOne     == "none"

ASSUME EventLoopAssumption ==
    /\ Fetchers \cap Others = {}
    /\ Ui \notin Producers
    /\ NoOne \notin Producers
    /\ Burst \in [Producers -> Nat \ {0}]
    /\ Capacity \in Nat \ {0}
    /\ BrowserOnly \subseteq Fetchers

Events == [kind : {"Update", "Changed", "Other"}, from : Producers]

VARIABLES
    buf,      \* the messages in the channel
    free,     \* slots neither occupied nor handed to a waiter
    waiting,  \* senders queued for a slot, in order
    granted,  \* senders handed a slot they have not used yet
    left,     \* left[p]: sends remaining in p's cycle, 0 between cycles
    hasty,    \* history: has a task begun a cycle with events of its last
              \* one still unhandled?
    ui,       \* "recv" at the top of the loop, "fanout" before its own send,
              \* "send" inside it
    updated,  \* the endpoint being fanned out, or NoOne
    tab,      \* is the Browser the current tab?
    stale     \* fetchers whose projection lags the snapshot

chanVars == <<buf, free, waiting, granted>>
taskVars == <<left, hasty>>
uiVars   == <<ui, updated, tab, stale>>
vars     == <<chanVars, taskVars, uiVars>>

-----------------------------------------------------------------------------
(* The channel *)

\* The event a sender has to deliver.
Message(s) ==
    IF s = Ui THEN [kind |-> "Changed", from |-> updated]
    ELSE [kind |-> IF s \in Fetchers THEN "Update" ELSE "Other", from |-> s]

\* send().await finds a slot free and delivers in the same poll.
SendNow(s) ==
    /\ free > 0
    /\ free' = free - 1
    /\ buf' = Append(buf, Message(s))
    /\ UNCHANGED <<waiting, granted>>

\* send().await finds none and queues.
SendQueue(s) ==
    /\ free = 0
    /\ waiting' = Append(waiting, s)
    /\ UNCHANGED <<buf, free, granted>>

\* A sender handed a slot is polled and delivers.
SendGranted(s) ==
    /\ s \in granted
    /\ granted' = granted \ {s}
    /\ buf' = Append(buf, Message(s))
    /\ UNCHANGED <<free, waiting>>

\* A slot nobody waits for is not given back.
TakeLeaking ==
    /\ buf # <<>>
    /\ buf' = Tail(buf)
    /\ IF waiting = <<>>
       THEN UNCHANGED <<free, granted, waiting>>
       ELSE /\ granted' = granted \cup {Head(waiting)}
            /\ waiting' = Tail(waiting)
            /\ UNCHANGED free

\* recv() takes the oldest message; its slot goes to the oldest waiter.
Take ==
    /\ buf # <<>>
    /\ buf' = Tail(buf)
    /\ IF waiting = <<>>
       THEN free' = free + 1 /\ UNCHANGED <<granted, waiting>>
       ELSE /\ granted' = granted \cup {Head(waiting)}
            /\ waiting' = Tail(waiting)
            /\ UNCHANGED free

Queued(s) == \E i \in 1..Len(waiting) : waiting[i] = s
Blocked(s) == Queued(s) \/ s \in granted

\* Some event of p, or the fan-out of one, has not been handled yet.
InFlight(p) ==
    \/ \E i \in 1..Len(buf) : buf[i].from = p
    \/ updated = p

-----------------------------------------------------------------------------
Init ==
    /\ buf = <<>> /\ free = Capacity /\ waiting = <<>> /\ granted = {}
    /\ left = [p \in Producers |-> 0] /\ hasty = FALSE
    /\ ui = "recv" /\ updated = NoOne /\ tab = FALSE /\ stale = {}

(* Producers *)

\* A cycle begins.
Begin(p) ==
    /\ left[p] = 0
    /\ left' = [left EXCEPT ![p] = Burst[p]]
    /\ hasty' = (hasty \/ InFlight(p))
    /\ UNCHANGED <<chanVars, uiVars>>

\* The next send of the cycle.
Send(p) ==
    /\ left[p] > 0
    /\ ~Blocked(p)
    /\ \/ SendNow(p) /\ left' = [left EXCEPT ![p] = @ - 1]
       \/ SendQueue(p) /\ UNCHANGED left
    /\ UNCHANGED <<hasty, uiVars>>

\* ... completed after waiting.
Resume(p) ==
    /\ SendGranted(p)
    /\ left' = [left EXCEPT ![p] = @ - 1]
    /\ UNCHANGED <<hasty, uiVars>>

(* The UI loop *)

\* AppEvent::ClusterUpdate: apply_update, then on to the fan-out.
RecvUpdate ==
    /\ ui = "recv"
    /\ buf # <<>> /\ Head(buf).kind = "Update"
    /\ Take
    /\ updated' = Head(buf).from
    /\ stale' = stale \cup {Head(buf).from}
    /\ ui' = "fanout"
    /\ UNCHANGED <<taskVars, tab>>

\* The loop retries until the channel is empty before it announces.
FanOutWhenIdle ==
    /\ ui = "fanout"
    /\ \/ buf = <<>> /\ SendNow(Ui) /\ ui' = "recv" /\ updated' = NoOne
       \/ buf # <<>> /\ UNCHANGED <<chanVars, ui, updated>>
    /\ UNCHANGED <<taskVars, tab, stale>>

\* tx.send(ClusterChanged).await on its own channel.  A send that has to
\* queue never completes: slots are freed by recv() alone, and it is this
\* loop that would call it.
FanOut ==
    /\ ui = "fanout"
    /\ \/ SendNow(Ui) /\ ui' = "recv" /\ updated' = NoOne
       \/ SendQueue(Ui) /\ ui' = "send" /\ UNCHANGED updated
    /\ UNCHANGED <<taskVars, tab, stale>>

\* Every projection is rebuilt on the Browser tab only.
RecvChangedOnTab ==
    /\ ui = "recv"
    /\ buf # <<>> /\ Head(buf).kind = "Changed"
    /\ Take
    /\ stale' = IF tab THEN stale \ {Head(buf).from} ELSE stale
    /\ UNCHANGED <<taskVars, ui, updated, tab>>

\* AppEvent::ClusterChanged: redraw the projections; the Browser's arena is
\* rebuilt only while the Browser is the current tab.
RecvChanged ==
    /\ ui = "recv"
    /\ buf # <<>> /\ Head(buf).kind = "Changed"
    /\ Take
    /\ stale' = IF Head(buf).from \in BrowserOnly /\ ~tab
                THEN stale ELSE stale \ {Head(buf).from}
    /\ UNCHANGED <<taskVars, ui, updated, tab>>

\* Any other event: update(), which may change the tab.
RecvOther ==
    /\ ui = "recv"
    /\ buf # <<>> /\ Head(buf).kind = "Other"
    /\ Take
    /\ tab' \in BOOLEAN
    /\ UNCHANGED <<taskVars, ui, updated, stale>>

-----------------------------------------------------------------------------
ProducerStep(p) == Begin(p) \/ Send(p) \/ Resume(p)
UiStep == RecvUpdate \/ FanOut \/ RecvChanged \/ RecvOther

Next == UiStep \/ \E p \in Producers : ProducerStep(p)

Spec == Init /\ [][Next]_vars

(* Every ready task is polled, so a cycle that has begun is sent to its    *)
(* end, and a fetch loop begins another at the latest once its last one    *)
(* has been handled.  It is not obliged to before: with the pace as a      *)
(* premise, that would oblige the loop to keep up, which is to be shown.   *)
Fairness == /\ WF_vars(UiStep)
            /\ \A p \in Producers : WF_vars(Send(p) \/ Resume(p))
            /\ \A p \in Fetchers : WF_vars(~InFlight(p) /\ Begin(p))

FairSpec == Spec /\ Fairness

-----------------------------------------------------------------------------
(* Properties *)

TypeOK ==
    /\ buf \in Seq(Events)
    /\ free \in 0..Capacity
    /\ waiting \in Seq(Senders)
    /\ granted \subseteq Senders
    /\ left \in [Producers -> Nat] /\ hasty \in BOOLEAN
    /\ ui \in {"recv", "fanout", "send"}
    /\ updated \in Fetchers \cup {NoOne}
    /\ tab \in BOOLEAN
    /\ stale \subseteq Fetchers

\* No applied update goes unannounced: a projection that lags has its
\* ClusterChanged on the way, unless it was dropped on another tab.
LagIsAnnounced ==
    \A p \in stale \ BrowserOnly :
        \/ updated = p
        \/ \E i \in 1..Len(buf) : buf[i] = [kind |-> "Changed", from |-> p]

\* The "healthy render cadence" the capacity is chosen for (app/mod.rs): the
\* loop has handled one cycle of a task before the task begins the next.
HealthyCadence == []~hasty

\* The channel is "sized for bursty cluster fanouts without backpressuring
\* producers under healthy render cadence": nobody waits for a slot, least of all
\* the loop in its own send, until a task begins a cycle too early.
NoBackpressure == ~hasty => waiting = <<>> /\ granted = {} /\ ui # "send"

\* At a healthy cadence the loop keeps coming back to recv(): it drains the
\* channel and is never caught in its own send.
UiKeepsReceiving == HealthyCadence => []<>(ui = "recv")

\* ... and a projection in view catches up with the snapshot.
ProjectionCatchesUp ==
    HealthyCadence =>
        \A p \in Fetchers :
            (p \in stale) ~> (p \notin stale \/ (p \in BrowserOnly /\ ~tab))
=============================================================================
