---------------------------- MODULE BulletinFeed ----------------------------
(***************************************************************************)
(* How bulletins get from NiFi to the screen: the cursor of the fetch task *)
(* (src/src/cluster/fetcher_tasks.rs, spawn_bulletins), the bounded ring   *)
(* it is merged into (cluster/snapshot.rs, BulletinRing), and the mirror   *)
(* the Bulletins tab draws (view/bulletins/state/mod.rs, redraw_bulletins),*)
(* across errors, answers cut at their limit, and a context switch, which  *)
(* replaces the client, then the store, the task and its cursor.           *)
(*                                                                         *)
(* A bulletin is named by the context it was recorded in and its id there; *)
(* ids count up from 1.  The switch itself is ContextSwitch's; here one    *)
(* may be under way at a time.                                             *)
(***************************************************************************)
EXTENDS Naturals, Sequences

CONSTANTS
    Contexts,
    First,       \* the context the program starts with
    NoContext,
    Capacity,    \* config.bulletins.ring_size
    Limit,       \* the page limit of one request, 1000 in the code
    MaxId,       \* bulletins each context records
    MaxStores,   \* stores the program makes: one, and one more per switch
    ChanBound    \* undelivered messages

ASSUME FeedAssumption ==
    /\ First \in Contexts
    /\ NoContext \notin Contexts
    /\ Capacity \in Nat \ {0} /\ Limit \in Nat \ {0}
    /\ MaxId \in Nat /\ MaxStores \in Nat \ {0} /\ ChanBound \in Nat \ {0}

VARIABLES
    recorded,   \* recorded[c]: bulletins NiFi has recorded in c
    client,     \* the context behind the client's lock
    switching,  \* the context a dispatcher task has still to report, or NoContext
    header,     \* AppState.context_name
    store,      \* history: the number of the current store
    pc,         \* the store's fetch task: "idle", "asked" or "send"
    after,      \* the cursor value its request was made with
    update,     \* the message it is sending
    cursor,     \* its AtomicI64
    dying,      \* messages of aborted tasks whose send may yet complete
    chan,       \* the event channel
    ring,       \* BulletinRing.buf, each bulletin with the store it came by
    mirror,     \* BulletinsState.ring
    cut         \* history: ids the current store's answers left out for good

nifi  == <<recorded, client>>
task  == <<pc, after, update, cursor>>
shown == <<ring, mirror, header, store>>
vars  == <<nifi, switching, task, dying, chan, shown, cut>>

Bulletins == [ctx : Contexts, id : 1..MaxId]
Entries   == [store : 1..MaxStores, ctx : Contexts, id : 1..MaxId]

Delta(s, c, ids) == [kind |-> "Delta", store |-> s, ctx |-> c, ids |-> ids]
Failed(s)        == [kind |-> "Failed", store |-> s]
Changed          == [kind |-> "Changed"]
Switched(c)      == [kind |-> "Switched", ctx |-> c]
Nothing          == [kind |-> "Nothing"]

\* An answer lists its bulletins in the order of their ids.
Ascending(s) == \A i, j \in 1..Len(s) : i < j => s[i] < s[j]
Batches == UNION {{s \in [1..n -> 1..MaxId] : Ascending(s)} : n \in 0..MaxId}

Updates  == {Delta(s, c, ids) : s \in 1..MaxStores, c \in Contexts, ids \in Batches}
              \cup {Failed(s) : s \in 1..MaxStores}
Messages == Updates \cup {Changed} \cup {Switched(c) : c \in Contexts}

Ids(s) == {s[i] : i \in 1..Len(s)}
Newest(n, s) == IF Len(s) <= n THEN s ELSE SubSeq(s, Len(s) - n + 1, Len(s))

\* No switch is under way.
Settled ==
    /\ switching = NoContext
    /\ \A i \in 1..Len(chan) : chan[i].kind # "Switched"

Deliver(m) == Len(chan) < ChanBound /\ chan' = Append(chan, m)

Init ==
    /\ recorded = [c \in Contexts |-> 0]
    /\ client = First /\ switching = NoContext /\ header = First /\ store = 1
    /\ pc = "idle" /\ after = 0 /\ update = Nothing /\ cursor = 0
    /\ dying = {} /\ chan = <<>> /\ ring = <<>> /\ mirror = <<>> /\ cut = {}

-----------------------------------------------------------------------------
(* NiFi *)

\* A component posts a bulletin.
Record(c) ==
    /\ recorded[c] < MaxId
    /\ recorded' = [recorded EXCEPT ![c] = @ + 1]
    /\ UNCHANGED <<client, switching, task, dying, chan, shown, cut>>

\* What NiFi may answer: the bulletins after the cursor (all of them for a
\* cursor of 0), or as many of them as the limit admits.
Due(c) == (after + 1)..recorded[c]
Answers(c) ==
    {s \in Batches : /\ Ids(s) \subseteq Due(c)
                     /\ Len(s) <= Limit
                     /\ Ids(s) # Due(c) => Len(s) = Limit}

-----------------------------------------------------------------------------
(* The fetch task *)

\* The cursor is loaded, the read guard taken and the request made.
Ask ==
    /\ pc = "idle"
    /\ pc' = "asked" /\ after' = cursor
    /\ UNCHANGED <<nifi, switching, update, cursor, dying, chan, shown, cut>>

Highest(s, n) == IF s = <<>> \/ s[Len(s)] < n THEN n ELSE s[Len(s)]

\* Ok: the cursor advances to the highest id of the batch.
AnswerOk ==
    /\ pc = "asked"
    /\ \E ids \in Answers(client) :
          /\ cursor' = Highest(ids, after)
          /\ update' = Delta(store, client, ids)
          /\ cut' = cut \cup {n \in (after + 1)..Highest(ids, after) : n \notin Ids(ids)}
    /\ pc' = "send"
    /\ UNCHANGED <<nifi, switching, after, dying, chan, shown>>

\* The cursor is advanced when the request is made, whatever the answer.
AnswerErrAdvanced ==
    /\ pc = "asked"
    /\ update' = Failed(store)
    /\ cursor' = IF recorded[client] < after THEN after ELSE recorded[client]
    /\ pc' = "send"
    /\ UNCHANGED <<nifi, switching, after, dying, chan, shown, cut>>

\* Err: the cursor stays.
AnswerErr ==
    /\ pc = "asked"
    /\ update' = Failed(store)
    /\ pc' = "send"
    /\ UNCHANGED <<nifi, switching, after, cursor, dying, chan, shown, cut>>

\* tx.send(..).await, then the sleep.
Send ==
    /\ pc = "send"
    /\ Deliver(update)
    /\ pc' = "idle" /\ update' = Nothing
    /\ UNCHANGED <<nifi, switching, after, cursor, dying, shown, cut>>

\* An aborted task completes the send it was in, or is dropped before.
Expire ==
    \E m \in dying :
        /\ dying' = dying \ {m}
        /\ Deliver(m) \/ UNCHANGED chan
        /\ UNCHANGED <<nifi, switching, task, shown, cut>>

-----------------------------------------------------------------------------
(* The context switch *)

\* *client.write().await = new_client, which waits for the task's guard.
SwapClient(c) ==
    /\ Settled /\ store < MaxStores
    /\ pc # "asked"
    /\ client' = c /\ switching' = c
    /\ UNCHANGED <<recorded, task, dying, chan, shown, cut>>

\* The dispatcher task sends its outcome.
Report ==
    /\ switching # NoContext
    /\ Deliver(Switched(switching))
    /\ switching' = NoContext
    /\ UNCHANGED <<nifi, task, dying, shown, cut>>

Receive(kind) == chan # <<>> /\ Head(chan).kind = kind

\* The old store's ring is kept: it has a cursor of its own.
HandleSwitchedKeepingCursor ==
    /\ Receive("Switched")
    /\ chan' = Tail(chan)
    /\ header' = Head(chan).ctx /\ store' = store + 1
    /\ ring' = <<>> /\ mirror' = <<>>
    /\ dying' = IF pc = "send" THEN dying \cup {update} ELSE dying
    /\ pc' = "idle" /\ after' = 0 /\ update' = Nothing
    /\ cut' = {}
    /\ UNCHANGED <<nifi, switching, cursor>>

\* ContextSwitched: a new BulletinsState, a new store with an empty ring, and
\* a new fetch task whose cursor is the ring's last_id, none.
HandleSwitched ==
    /\ Receive("Switched")
    /\ chan' = Tail(chan)
    /\ header' = Head(chan).ctx /\ store' = store + 1
    /\ ring' = <<>> /\ mirror' = <<>>
    /\ dying' = IF pc = "send" THEN dying \cup {update} ELSE dying
    /\ pc' = "idle" /\ after' = 0 /\ update' = Nothing /\ cursor' = 0
    /\ cut' = {}
    /\ UNCHANGED <<nifi, switching>>

-----------------------------------------------------------------------------
(* The UI loop *)

Tagged(m) == [i \in 1..Len(m.ids) |-> [store |-> m.store, ctx |-> m.ctx, id |-> m.ids[i]]]

\* BulletinRing::merge: push_back each, pop_front over capacity.
Merge(m) == Newest(Capacity, ring \o Tagged(m))

\* ClusterUpdate(BulletinsDelta): applied to whatever store there is, and
\* announced by the loop's send to itself.
HandleDelta ==
    /\ Receive("Delta")
    /\ ring' = Merge(Head(chan))
    /\ chan' = Append(Tail(chan), Changed)
    /\ UNCHANGED <<nifi, switching, task, dying, mirror, header, store, cut>>

\* A failed fetch: last_error and meta, announced all the same.
HandleFailed ==
    /\ Receive("Failed")
    /\ chan' = Append(Tail(chan), Changed)
    /\ UNCHANGED <<nifi, switching, task, dying, shown, cut>>

\* ClusterChanged(Bulletins): redraw_bulletins, whatever the tab.
HandleChanged ==
    /\ Receive("Changed")
    /\ chan' = Tail(chan)
    /\ mirror' = ring
    /\ UNCHANGED <<nifi, switching, task, dying, ring, header, store, cut>>

-----------------------------------------------------------------------------
Fetching == Ask \/ AnswerOk \/ AnswerErr \/ Send
UiStep   == HandleSwitched \/ HandleDelta \/ HandleFailed \/ HandleChanged

Next == \/ Fetching \/ Expire \/ Report \/ UiStep
        \/ \E c \in Contexts : Record(c) \/ SwapClient(c)

Spec == Init /\ [][Next]_vars

(* Every ready task is polled, the channel is fair, and a request made for *)
(* ever does not fail for ever.  Nobody is obliged to switch.              *)
Fairness ==
    /\ WF_vars(UiStep) /\ WF_vars(Ask)
    /\ SF_vars(AnswerOk) /\ WF_vars(AnswerOk \/ AnswerErr)
    /\ SF_vars(Send) /\ SF_vars(Report) /\ WF_vars(Expire)

FairSpec == Spec /\ Fairness

-----------------------------------------------------------------------------
(* Properties *)

\* Every variable has its type.
TypeOK ==
    /\ recorded \in [Contexts -> 0..MaxId]
    /\ client \in Contexts /\ switching \in Contexts \cup {NoContext}
    /\ header \in Contexts /\ store \in 1..MaxStores
    /\ pc \in {"idle", "asked", "send"} /\ after \in 0..MaxId
    /\ update \in Updates \cup {Nothing} /\ cursor \in 0..MaxId
    /\ dying \subseteq Updates /\ chan \in Seq(Messages)
    /\ ring \in Seq(Entries) /\ Len(ring) <= Capacity
    /\ mirror \in Seq(Entries) /\ Len(mirror) <= Capacity
    /\ cut \subseteq 1..MaxId

Own(e) == e.store = store
OwnIn(s) == {s[i].id : i \in {j \in 1..Len(s) : Own(s[j])}}

\* What the current store's task has fetched and the ring has not merged yet.
UnderWay ==
    UNION ({Ids(chan[i].ids) : i \in {j \in 1..Len(chan) :
                chan[j].kind = "Delta" /\ chan[j].store = store}}
           \cup {IF update.kind = "Delta" THEN Ids(update.ids) ELSE {}})

\* The ring shows what its store fetched once each and in order, and from the
\* oldest it still shows up to the cursor nothing is missing, except what is
\* under way and what a cut answer left out: errors, retries and the ring's
\* limit lose and repeat nothing (the cursor of spawn_bulletins).
RingIsTail ==
    /\ TypeOK
    /\ \A i, j \in 1..Len(ring) :
          i < j /\ Own(ring[i]) /\ Own(ring[j]) => ring[i].id < ring[j].id
    /\ \A n \in OwnIn(ring) : \A m \in n..cursor :
          m \in OwnIn(ring) \cup UnderWay \cup cut

\* What was recorded is fetched, whatever fails on the way: it is shown, or
\* newer ones have taken its place, unless an answer left it out, the user
\* switched away, or bulletins of an earlier store take up the ring.
EveryBulletinArrives ==
    \A c \in Contexts : \A n \in 1..MaxId :
        (recorded[c] >= n /\ header = c) ~>
            \/ header # c \/ client # c
            \/ n \in cut
            \/ \E i \in 1..Len(ring) : ~Own(ring[i])
            \/ \E i \in 1..Len(mirror) : Own(mirror[i]) /\ mirror[i].id >= n

\* Said of the code, and not so.

\* The switch clears all view state "so stale data from the previous context
\* doesn't linger until the next worker poll" (app/state/mod.rs).
Stale == \E i \in 1..Len(mirror) : mirror[i].ctx # header
StaleDataLeaves == Stale ~> ~Stale
=============================================================================
