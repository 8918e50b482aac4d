------------------------------ MODULE EventsWatch ------------------------------
(***************************************************************************)
(* The watch sub-mode of the Events tab: a worker that tails NiFi's        *)
(* provenance by submitting one narrow query after another, each from      *)
(* where a cursor stands (src/src/view/events/worker.rs, spawn_watch), and *)
(* the session it feeds (state.rs, mod.rs).  The worker lives while the    *)
(* tab is active; the session survives leaving the tab                     *)
(* (src/src/app/worker.rs, ensure and restart_events_watch).               *)
(*                                                                         *)
(* Events are numbered in the order NiFi records them, and time is counted *)
(* in ticks, PerSecond of them to a second: the cursor has the event's     *)
(* time, the query's start date only its second.                           *)
(***************************************************************************)
EXTENDS Naturals, Sequences, FiniteSets

CONSTANTS
    MaxEvents,   \* events recorded in all
    MaxTime,     \* the clock stops here
    PerSecond,   \* ticks (milliseconds) in a second
    BufferCap,   \* WatchSession.buffer_cap
    MaxResults,  \* of a query: ProvenanceQuery.max_results
    ChanBound    \* undelivered payloads

ASSUME EventsWatchAssumption ==
    /\ MaxEvents \in Nat \ {0}
    /\ MaxTime \in Nat
    /\ PerSecond \in Nat \ {0}
    /\ BufferCap \in Nat \ {0}
    /\ MaxResults \in Nat \ {0}
    /\ ChanBound \in Nat \ {0}

Events  == 1..MaxEvents
NoEvent == 0

VARIABLES
    \* NiFi
    now,      \* the clock
    recorded, \* recorded[e]: the time of event e
    \* the worker
    phase,    \* where it stands, or "none"
    cursor,   \* the last event it advanced to
    batch,    \* events of its query whose details are still to fetch
    scanned,  \* events it has fetched the details of, or failed to (history)
    cut,      \* events left out of an answer that was full (history)
    \* the UI
    tab,      \* is Events the active tab?
    status,   \* WatchSession.status, or "off" outside the watch sub-mode
    buffer,   \* the matched events, oldest first
    chan,     \* payloads under way
    \* history
    gone      \* events the session had, could not get or did not want

nifiVars   == <<now, recorded>>
workerVars == <<phase, cursor, batch, scanned, cut>>
uiVars     == <<tab, status, buffer, gone>>
vars       == <<nifiVars, workerVars, uiVars, chan>>

Phases   == {"none", "submit", "poll", "detail", "fail", "sleep"}
Statuses == {"off", "Waiting", "Tailing", "Paused", "NarrowRequired", "Failed"}
Tick     == [kind |-> "Tick", event |-> NoEvent]
Failure  == [kind |-> "Failed", event |-> NoEvent]
Payloads == [kind : {"Match"}, event : Events] \cup {Tick, Failure}

Init ==
    /\ now = 0 /\ recorded = <<>>
    /\ phase = "none" /\ cursor = NoEvent /\ batch = {} /\ scanned = {} /\ cut = {}
    /\ tab = FALSE /\ status = "off" /\ buffer = <<>> /\ gone = {}
    /\ chan = <<>>

-----------------------------------------------------------------------------
(* NiFi *)

Record ==
    /\ Len(recorded) < MaxEvents
    /\ recorded' = Append(recorded, now)
    /\ UNCHANGED <<now, workerVars, uiVars, chan>>

Elapse ==
    /\ now < MaxTime
    /\ now' = now + 1
    /\ UNCHANGED <<recorded, workerVars, uiVars, chan>>

-----------------------------------------------------------------------------
(* The worker *)

Send(m) == Len(chan) < ChanBound /\ chan' = Append(chan, m)

Second(t) == (t \div PerSecond) * PerSecond

\* The bump past the cursor is a whole second.
StartNextSecond == IF cursor = NoEvent THEN 0 ELSE Second(recorded[cursor] + PerSecond)

\* The start date: one millisecond past the cursor, as far as a date with
\* seconds can tell; the narrow's own, here the beginning, without a cursor.
Start == IF cursor = NoEvent THEN 0 ELSE Second(recorded[cursor] + 1)

\* submit_provenance_query.  NiFi answers with MaxResults events at most,
\* and nothing here says which; `truncated` is not looked at.
SubmitOk ==
    /\ phase = "submit"
    /\ phase' = "poll"
    /\ LET found == {e \in 1..Len(recorded) : recorded[e] >= Start}
       IN \E page \in SUBSET found :
             /\ \/ page = found /\ Cardinality(found) <= MaxResults
                \/ Cardinality(page) = MaxResults
             /\ batch' = page
             /\ cut' = cut \cup (found \ page)
    /\ UNCHANGED <<nifiVars, cursor, scanned, uiVars, chan>>

SubmitErr ==
    /\ phase = "submit"
    /\ phase' = "fail"
    /\ UNCHANGED <<nifiVars, cursor, batch, scanned, cut, uiVars, chan>>

\* The query is polled to its end; or fails, or times out.
PollOk ==
    /\ phase = "poll"
    /\ phase' = "detail"
    /\ UNCHANGED <<nifiVars, cursor, batch, scanned, cut, uiVars, chan>>

PollErr ==
    /\ phase = "poll"
    /\ phase' = "fail" /\ batch' = {}
    /\ UNCHANGED <<nifiVars, cursor, scanned, cut, uiVars, chan>>

\* WatchFailed, then the backoff.
Fail ==
    /\ phase = "fail"
    /\ Send(Failure)
    /\ phase' = "sleep"
    /\ UNCHANGED <<nifiVars, cursor, batch, scanned, cut, uiVars>>

\* The details of some event of the batch arrive (up to detail_concurrency
\* are being fetched, in no order): it matches the predicate or does not,
\* and the cursor advances.
DetailOk ==
    /\ phase = "detail"
    /\ \E e \in batch :
          /\ \/ Send([kind |-> "Match", event |-> e]) /\ UNCHANGED gone
             \/ UNCHANGED chan /\ gone' = gone \cup {e}
          /\ cursor' = IF e > cursor THEN e ELSE cursor
          /\ batch' = batch \ {e} /\ scanned' = scanned \cup {e}
    /\ UNCHANGED <<nifiVars, phase, cut, tab, status, buffer>>

\* A failure ends the round, to be tried again after the backoff.
DetailErrRetried ==
    /\ phase = "detail" /\ batch # {}
    /\ phase' = "fail" /\ batch' = {}
    /\ UNCHANGED <<nifiVars, cursor, scanned, cut, uiVars, chan>>

\* ... or they fail to, which is counted.
DetailErr ==
    /\ phase = "detail"
    /\ \E e \in batch :
          /\ batch' = batch \ {e} /\ scanned' = scanned \cup {e}
          /\ gone' = gone \cup {e}
    /\ UNCHANGED <<nifiVars, phase, cursor, cut, tab, status, buffer, chan>>

\* A round that found nothing does not report.
FinishQuietly ==
    /\ phase = "detail" /\ batch = {}
    /\ IF cursor = NoEvent THEN UNCHANGED chan ELSE Send(Tick)
    /\ phase' = "sleep"
    /\ UNCHANGED <<nifiVars, cursor, batch, scanned, cut, uiVars>>

\* WatchTick, and the guard's DELETE.
Finish ==
    /\ phase = "detail" /\ batch = {}
    /\ Send(Tick)
    /\ phase' = "sleep"
    /\ UNCHANGED <<nifiVars, cursor, batch, scanned, cut, uiVars>>

\* The cadence, or the backoff, is over.
Wake ==
    /\ phase = "sleep"
    /\ phase' = "submit"
    /\ UNCHANGED <<nifiVars, cursor, batch, scanned, cut, uiVars, chan>>

Worker == SubmitOk \/ SubmitErr \/ PollOk \/ PollErr \/ Fail \/ DetailOk \/ DetailErr \/ Finish \/ Wake

-----------------------------------------------------------------------------
(* The UI *)

\* WorkerRegistry aborts the worker it holds, if any, ...
Abort == phase' = "none" /\ cursor' = NoEvent /\ batch' = {} /\ scanned' = {} /\ cut' = {}

\* ... and spawns another with the session's cursor, which nobody sets.
Spawn == phase' = "submit" /\ cursor' = NoEvent /\ batch' = {} /\ scanned' = {} /\ cut' = {}

NewSession(s) == status' = s /\ buffer' = <<>> /\ gone' = {}

\* w on the tab: a session, and no worker yet.
EnterWatch ==
    /\ tab /\ status = "off"
    /\ \E s \in {"Waiting", "NarrowRequired"} : NewSession(s)
    /\ UNCHANGED <<nifiVars, workerVars, tab, chan>>

\* w on a component elsewhere.  The worker is spawned by the tab change,
\* so not if the user was already here when the outcome arrived.
LandOnWatch ==
    /\ NewSession("Waiting")
    /\ tab' = TRUE
    /\ IF tab THEN UNCHANGED workerVars ELSE Spawn
    /\ UNCHANGED <<nifiVars, chan>>

\* Enter in the predicate: restart_events_watch.
Commit ==
    /\ tab /\ status # "off"
    /\ Spawn
    /\ UNCHANGED <<nifiVars, uiVars, chan>>

\* p: the status alone.
Pause ==
    /\ tab /\ status \in {"Tailing", "Waiting", "Paused"}
    /\ status' = IF status = "Paused" THEN "Waiting" ELSE "Paused"
    /\ UNCHANGED <<nifiVars, workerVars, tab, buffer, chan, gone>>

\* Shift+C
ClearBuffer ==
    /\ tab /\ status # "off"
    /\ buffer' = <<>>
    /\ UNCHANGED <<nifiVars, workerVars, tab, status, chan, gone>>

\* The handle is dropped and the task goes on.
LeaveTabDetached ==
    /\ tab
    /\ tab' = FALSE
    /\ UNCHANGED workerVars
    /\ status' = IF status = "off" THEN "off" ELSE "Paused"
    /\ UNCHANGED <<nifiVars, buffer, chan, gone>>

\* ensure(another view): abort and pause_watch, ...
LeaveTab ==
    /\ tab
    /\ tab' = FALSE
    /\ Abort
    /\ status' = IF status = "off" THEN "off" ELSE "Paused"
    /\ UNCHANGED <<nifiVars, buffer, chan, gone>>

\* ... ensure(Events): resume_watch and a new worker for the session.
EnterTab ==
    /\ ~tab
    /\ tab' = TRUE
    /\ IF status = "off" THEN UNCHANGED workerVars ELSE Spawn
    /\ status' = IF status = "Paused" THEN "Waiting" ELSE status
    /\ UNCHANGED <<nifiVars, buffer, chan, gone>>

\* A context switch: EventsState::new() and invalidate.
HandleSwitched ==
    /\ NewSession("off")
    /\ Abort
    /\ UNCHANGED <<nifiVars, tab, chan>>

\* WatchSession::push_event: a full buffer loses its oldest event, or the
\* one after it while the user's cursor is on the oldest.
Push(e) ==
    /\ \E i \in {1, 2} :
          /\ i = 2 => Len(buffer) >= 2
          /\ buffer' = Append(IF Len(buffer) < BufferCap THEN buffer
                              ELSE SubSeq(buffer, 1, i - 1)
                                     \o SubSeq(buffer, i + 1, Len(buffer)), e)
    /\ gone' = gone \cup {e}

\* handle_watch_payload: nothing outside the sub-mode.
HandleOff   == status = "off" /\ UNCHANGED <<status, buffer, gone>>

HandleMatch == /\ status # "off" /\ Head(chan).kind = "Match"
               /\ Push(Head(chan).event)
               /\ UNCHANGED status

HandleTick  == /\ status # "off" /\ Head(chan) = Tick
               /\ status' = IF status = "Waiting" THEN "Tailing" ELSE status
               /\ UNCHANGED <<buffer, gone>>

HandleFail  == /\ status # "off" /\ Head(chan) = Failure
               /\ status' = "Failed"
               /\ UNCHANGED <<buffer, gone>>

Handle ==
    /\ chan # <<>>
    /\ chan' = Tail(chan)
    /\ HandleOff \/ HandleMatch \/ HandleTick \/ HandleFail
    /\ UNCHANGED <<nifiVars, workerVars, tab>>

-----------------------------------------------------------------------------
User == \/ EnterWatch \/ LandOnWatch \/ Commit \/ Pause \/ ClearBuffer
        \/ LeaveTab \/ EnterTab \/ HandleSwitched

Next == Record \/ Elapse \/ Worker \/ User \/ Handle

Spec == Init /\ [][Next]_vars

(* The worker is polled, its timers fire, the channel is fair and drained, *)
(* and a query submitted again and again does not fail for ever.           *)
Fairness ==
    /\ WF_vars(Handle)
    /\ WF_vars(SubmitOk \/ SubmitErr \/ Wake \/ PollOk \/ PollErr)
    /\ SF_vars(SubmitOk) /\ SF_vars(PollOk)
    /\ SF_vars(Fail) /\ SF_vars(DetailOk) /\ SF_vars(Finish)

FairSpec == Spec /\ Fairness

-----------------------------------------------------------------------------
(* Properties *)

\* Every variable has its type; the buffer keeps to its capacity.
TypeOK ==
    /\ now \in 0..MaxTime
    /\ recorded \in Seq(0..MaxTime) /\ Len(recorded) <= MaxEvents
    /\ phase \in Phases /\ cursor \in Events \cup {NoEvent}
    /\ batch \subseteq Events /\ scanned \subseteq Events /\ cut \subseteq Events
    /\ tab \in BOOLEAN /\ status \in Statuses
    /\ buffer \in Seq(Events) /\ Len(buffer) <= BufferCap
    /\ gone \subseteq Events
    /\ chan \in Seq(Payloads) /\ Len(chan) <= ChanBound

\* NiFi is tailed only for the active tab, and for a session.
TailOnlyInView == phase # "none" => tab /\ status # "off"

\* The cursor passes no event over but one that was cut from a full answer,
\* or that NiFi recorded in the same millisecond as, and after, one already
\* scanned.
OnlyTwinsSkipped ==
    \A e \in 1..cursor :
        \/ e \in scanned \cup batch \cup cut
        \/ \E f \in scanned : f < e /\ recorded[f] = recorded[e]

\* The user does not change the predicate in the middle of a round, and so
\* start the tail anew, again and again for ever.
RoundsEnd == <>[][phase # "sleep" => ~Commit]_vars

\* "waiting" ends while a worker runs: with a tick or a failure.
WaitingEnds ==
    RoundsEnd =>
       ((status = "Waiting" /\ phase # "none") ~> (status # "Waiting" \/ phase = "none"))

\* An event the running tail has not scanned gets into the session's buffer
\* (or does not match, is lost to an error or a full answer, or has a twin),
\* unless the tail ends.
EventArrives ==
    RoundsEnd =>
       \A e \in Events :
          (e \in DOMAIN recorded \ scanned /\ phase # "none")
             ~> \/ e \in gone \cup cut \/ phase = "none"
                \/ e \in DOMAIN recorded /\ \E f \in 1..(e - 1) : recorded[f] = recorded[e]

\* Said of the code, and not so.

\* spawn_watch: a "cursor-derived start date so we only see strictly-newer
\* events"; TailCursor: "strictly newer than what we've already scanned".
StrictlyNewer == [][SubmitOk => \A e \in batch' : e > cursor]_vars
=============================================================================
