----------------------------- MODULE QueueListing -----------------------------
(***************************************************************************)
(* The flowfile listing of a connection's queue.  NiFi makes it in two     *)
(* phases: a listing request is POSTed, then polled until it is finished,  *)
(* and it stays on the server until it is DELETEd.  The Browser keeps one  *)
(* listing, for the selected connection; its QueueListingHandle owns the   *)
(* worker task and the request: dropping it aborts the one and DELETEs the *)
(* other (src/src/view/browser/worker.rs).                                 *)
(*                                                                         *)
(* JoinHandle::abort takes effect where the task next waits.  A task that  *)
(* is running finishes its poll, which may include a send.                 *)
(*                                                                         *)
(* A worker makes at most one request, so a worker's number names it.      *)
(***************************************************************************)
EXTENDS Naturals, Sequences, FiniteSets

CONSTANTS
    Queues,      \* connections with a listing panel
    NoQueue,     \* any other selection
    MaxWorkers,  \* listings started in all
    ChanBound    \* undelivered payloads

ASSUME QueueListingAssumption ==
    /\ NoQueue \notin Queues
    /\ MaxWorkers \in Nat \ {0}
    /\ ChanBound \in Nat \ {0}

Workers  == 1..MaxWorkers
NoWorker == 0

VARIABLES
    \* workers
    started,  \* workers spawned
    queue,    \* queue[w]: the connection it lists
    phase,    \* where its task is
    next,     \* what follows the progress report being sent
    aborted,  \* workers whose handle has been dropped
    slot,     \* workers that have written their request id for Drop to read
    \* DELETEs
    cleanup,  \* spawned DELETE tasks that have not run
    deleted,  \* requests a DELETE was sent for
    \* the UI
    chan,     \* payloads under way
    listing,  \* BrowserState.queue_listing
    \* history
    told      \* workers whose request id the UI learned while they were current

taskVars == <<started, queue, phase, next, aborted, slot>>
deleteVars == <<cleanup, deleted>>
vars == <<taskVars, deleteVars, chan, listing, told>>

Phases   == {"unborn", "post", "posted", "announce", "sleep", "poll", "progress",
             "complete", "error", "timeout", "done"}
Kinds    == {"Id", "Progress", "Complete", "Error", "Timeout"}
Nothing  == [queue |-> NoQueue, handle |-> NoWorker, rows |-> NoWorker,
             error |-> FALSE]
Listings == [queue : Queues \cup {NoQueue}, handle : Workers \cup {NoWorker},
             rows : Workers \cup {NoWorker}, error : BOOLEAN]
Payloads == [kind : Kinds, from : Workers]

-----------------------------------------------------------------------------
Init ==
    /\ started = 0
    /\ queue = [w \in Workers |-> NoQueue]
    /\ phase = [w \in Workers |-> "unborn"] /\ next = [w \in Workers |-> "sleep"]
    /\ aborted = {} /\ slot = {}
    /\ cleanup = {} /\ deleted = {}
    /\ chan = <<>> /\ listing = Nothing /\ told = {}

-----------------------------------------------------------------------------
(* The worker task *)

Goto(w, p) == phase' = [phase EXCEPT ![w] = p]

Send(w, kind) ==
    /\ Len(chan) < ChanBound
    /\ chan' = Append(chan, [kind |-> kind, from |-> w])

\* submit_listing_request answers, with an id, without one, or not at all.
Post(w) ==
    /\ phase[w] = "post" /\ w \notin aborted
    /\ Goto(w, "posted") \/ Goto(w, "error")
    /\ UNCHANGED <<started, queue, next, aborted, slot, deleteVars, chan, listing, told>>

\* The id is written where Drop finds it.
WriteId(w) ==
    /\ phase[w] = "posted"
    /\ Goto(w, "announce")
    /\ slot' = slot \cup {w}
    /\ UNCHANGED <<started, queue, next, aborted, deleteVars, chan, listing, told>>

\* QueueListingRequestIdAssigned
Announce(w) ==
    /\ phase[w] = "announce"
    /\ Send(w, "Id")
    /\ Goto(w, "sleep")
    /\ UNCHANGED <<started, queue, next, aborted, slot, deleteVars, listing, told>>

\* A 500 ms tick, the timeout not having elapsed.
Wake(w) ==
    /\ phase[w] = "sleep" /\ w \notin aborted
    /\ Goto(w, "poll")
    /\ UNCHANGED <<started, queue, next, aborted, slot, deleteVars, chan, listing, told>>

\* A tick after it has.
WakeLate(w) ==
    /\ phase[w] = "sleep" /\ w \notin aborted
    /\ Goto(w, "timeout")
    /\ UNCHANGED <<started, queue, next, aborted, slot, deleteVars, chan, listing, told>>

\* poll_listing_request answers: unfinished, finished, FAILED; or not.
Poll(w) ==
    /\ phase[w] = "poll" /\ w \notin aborted
    /\ \/ /\ Goto(w, "progress")
          /\ \E n \in {"sleep", "complete", "error"} : next' = [next EXCEPT ![w] = n]
       \/ Goto(w, "error") /\ UNCHANGED next
    /\ UNCHANGED <<started, queue, aborted, slot, deleteVars, chan, listing, told>>

\* QueueListingProgress
Progress(w) ==
    /\ phase[w] = "progress"
    /\ Send(w, "Progress")
    /\ Goto(w, next[w])
    /\ next' = [next EXCEPT ![w] = "sleep"]
    /\ UNCHANGED <<started, queue, aborted, slot, deleteVars, listing, told>>

\* A worker that times out just returns.
FinishSilently(w) ==
    /\ \/ phase[w] = "complete" /\ Send(w, "Complete")
       \/ phase[w] = "error"    /\ Send(w, "Error")
       \/ phase[w] = "timeout"  /\ UNCHANGED chan
    /\ Goto(w, "done")
    /\ UNCHANGED <<started, queue, next, aborted, slot, deleteVars, listing, told>>

\* The terminal payload.
Finish(w) ==
    /\ \/ phase[w] = "complete" /\ Send(w, "Complete")
       \/ phase[w] = "error"    /\ Send(w, "Error")
       \/ phase[w] = "timeout"  /\ Send(w, "Timeout")
    /\ Goto(w, "done")
    /\ UNCHANGED <<started, queue, next, aborted, slot, deleteVars, listing, told>>

\* The runtime drops an aborted task where it waits: in a request, in its
\* sleep, or in a send.
Cancel(w) ==
    /\ w \in aborted
    /\ phase[w] \notin {"posted", "done"}
    /\ Goto(w, "done")
    /\ next' = [next EXCEPT ![w] = "sleep"]
    /\ UNCHANGED <<started, queue, aborted, slot, deleteVars, chan, listing, told>>

\* The DELETE of spawn_cleanup.  NiFi may refuse it, which is logged.
Cleanup(w) ==
    /\ w \in cleanup
    /\ cleanup' = cleanup \ {w}
    /\ deleted' = deleted \cup {w}
    /\ UNCHANGED <<taskVars, chan, listing, told>>

-----------------------------------------------------------------------------
(* The UI *)

\* The task is detached, as dropping a bare JoinHandle does.
DropDetached(w) ==
    /\ aborted' = aborted
    /\ cleanup' = IF w \in slot THEN cleanup \cup {w} ELSE cleanup

\* The request is left to NiFi once the listing is complete.
DropFinished(w) ==
    /\ aborted' = aborted \cup ({w} \ {NoWorker})
    /\ cleanup' = IF w \in slot /\ phase[w] # "done" THEN cleanup \cup {w} ELSE cleanup

\* impl Drop for QueueListingHandle, of a handle or of none.
Drop(w) ==
    /\ aborted' = aborted \cup ({w} \ {NoWorker})
    /\ cleanup' = IF w \in slot THEN cleanup \cup {w} ELSE cleanup

\* spawn_queue_listing_fetch
Spawn(q) ==
    /\ started < MaxWorkers
    /\ started' = started + 1
    /\ queue' = [queue EXCEPT ![started'] = q]
    /\ Goto(started', "post")

SpawnNothing == UNCHANGED <<started, queue, phase>>

\* refresh_queue_listing_for_selection, the selection having changed: a
\* worker is spawned if the connection has flowfiles queued.
Select(q) ==
    /\ q # listing.queue
    /\ Drop(listing.handle)
    /\ \/ q \in Queues /\ Spawn(q)
          /\ listing' = [Nothing EXCEPT !.queue = q, !.handle = started']
       \/ SpawnNothing
          /\ listing' = [Nothing EXCEPT !.queue = q]
    /\ UNCHANGED <<next, slot, deleted, chan, told>>

\* The Refresh verb, and SpawnQueueListingRefresh right after it.
Refresh ==
    /\ listing.queue # NoQueue
    /\ Drop(listing.handle)
    /\ Spawn(listing.queue)
    /\ listing' = [Nothing EXCEPT !.queue = listing.queue, !.handle = started']
    /\ UNCHANGED <<next, slot, deleted, chan, told>>

\* QueueListingState::apply_*: payloads are told apart by queue, not by
\* worker.
Apply(l, m) ==
    IF l.queue # queue[m.from] THEN l
    ELSE CASE m.kind = "Id"       -> l
           [] m.kind = "Progress" -> [l EXCEPT !.error = FALSE]
           [] m.kind = "Complete" -> [l EXCEPT !.rows = m.from, !.error = FALSE]
           [] OTHER               -> [l EXCEPT !.error = TRUE]

\* handle_browser_payload
Handle ==
    /\ chan # <<>>
    /\ chan' = Tail(chan)
    /\ listing' = Apply(listing, Head(chan))
    /\ told' = IF Head(chan).kind = "Id" /\ Head(chan).from = listing.handle
               THEN told \cup {listing.handle} ELSE told
    /\ UNCHANGED <<taskVars, deleteVars>>

\* ContextSwitched: BrowserState::new() drops the listing.
HandleSwitched ==
    /\ Drop(listing.handle)
    /\ listing' = Nothing
    /\ SpawnNothing
    /\ UNCHANGED <<next, slot, deleted, chan, told>>

-----------------------------------------------------------------------------
WorkerStep(w) == \/ Post(w) \/ WriteId(w) \/ Announce(w) \/ Wake(w) \/ WakeLate(w)
                 \/ Poll(w) \/ Progress(w) \/ Finish(w) \/ Cancel(w)

User == Refresh \/ HandleSwitched \/ \E q \in Queues \cup {NoQueue} : Select(q)

Next == \/ User \/ Handle
        \/ \E w \in Workers : WorkerStep(w) \/ Cleanup(w)

Spec == Init /\ [][Next]_vars

(* Requests return or time out, ticks come, one of them after the timeout, *)
(* the UI drains its channel and the channel is fair.  The user need not   *)
(* do anything.                                                            *)
Fairness ==
    /\ WF_vars(Handle)
    /\ \A w \in Workers :
          /\ WF_vars(Post(w) \/ WriteId(w) \/ Wake(w) \/ Poll(w) \/ Cancel(w))
          /\ SF_vars(WakeLate(w))
          /\ SF_vars(Announce(w) \/ Progress(w) \/ Finish(w))
          /\ WF_vars(Cleanup(w))

FairSpec == Spec /\ Fairness

-----------------------------------------------------------------------------
(* Properties *)

\* Every variable has its type.
TypeOK ==
    /\ started \in 0..MaxWorkers
    /\ queue \in [Workers -> Queues \cup {NoQueue}]
    /\ phase \in [Workers -> Phases]
    /\ next \in [Workers -> {"sleep", "complete", "error"}]
    /\ aborted \subseteq Workers /\ slot \subseteq Workers
    /\ cleanup \subseteq Workers /\ deleted \subseteq Workers
    /\ chan \in Seq(Payloads) /\ listing \in Listings
    /\ told \subseteq Workers

\* No poller outlives its listing: a task that is neither finished nor
\* aborted belongs to the listing on the screen, and to its queue.
OnePoller ==
    \A w \in Workers :
        phase[w] \notin {"unborn", "done"} /\ w \notin aborted
           => listing.handle = w /\ listing.queue = queue[w]

\* The rows on the screen are of the queue on the screen, however late the
\* worker of another queue reports.
RowsOfQueue == listing.rows # NoWorker => queue[listing.rows] = listing.queue

\* A listing ends: its worker's rows, error or timeout reach the screen,
\* unless the listing goes first.
ListingEnds ==
    \A w \in Workers :
        (listing.handle = w /\ phase[w] # "done")
           ~> (listing.rows # NoWorker \/ listing.error \/ listing.handle # w)

\* A request the UI knows of is DELETEd, or about to be, once its listing is
\* gone from the screen.
KnownRequestDeleted ==
    \A w \in told : listing.handle = w \/ w \in cleanup \/ w \in deleted

\* Said of the code, and not so.

\* worker.rs: "Write id so Drop can DELETE it even if we exit before
\* completing": an id that was written is DELETEd with its handle.
WrittenIdDeleted == slot \cap aborted \subseteq cleanup \cup deleted
=============================================================================
