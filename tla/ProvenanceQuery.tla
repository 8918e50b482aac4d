---------------------------- MODULE ProvenanceQuery ----------------------------
(***************************************************************************)
(* A one-shot provenance query of the Events tab.  NiFi runs it on the     *)
(* server: a worker submits it, announces its id, polls it to its end and  *)
(* reports, and a guard DELETEs it when the worker returns                 *)
(* (src/src/view/events/worker.rs, spawn_query).  The worker is detached:  *)
(* a new query neither waits for the old one nor stops it, and the reducer *)
(* tells their reports apart by query id (state.rs, apply_payload).        *)
(*                                                                         *)
(* A worker makes at most one query, so a worker's number names it.        *)
(***************************************************************************)
EXTENDS Naturals, Sequences

CONSTANTS
    MaxQueries,  \* queries submitted in all
    ChanBound    \* undelivered payloads

ASSUME ProvenanceQueryAssumption ==
    /\ MaxQueries \in Nat \ {0}
    /\ ChanBound \in Nat \ {0}

Queries == 1..MaxQueries
NoQuery == 0

VARIABLES
    started,    \* workers spawned
    phase,      \* where each stands
    server,     \* queries NiFi holds
    cleanup,    \* guards dropped, whose DELETE has not been sent
    chan,       \* payloads under way
    status,     \* EventsState.status; `of` is the query_id of Running
    rows,       \* the query whose events are shown
    \* history
    deleted,    \* queries a DELETE was sent for
    announced   \* the last query whose QueryStarted was handled

taskVars == <<started, phase>>
nifiVars == <<server, cleanup, deleted>>
viewVars == <<status, rows, announced>>
vars == <<taskVars, nifiVars, chan, viewVars>>

Phases   == {"unborn", "submit", "refused", "announce", "sleep", "poll", "progress",
             "complete", "failed", "done"}
Payloads == [kind : {"Started", "Progress", "Done", "Failed"}, of : Queries]
              \cup {[kind |-> "Failed", of |-> NoQuery]}
Statuses == [kind : {"Idle", "Running", "Done", "Failed"}, of : Queries \cup {NoQuery}]

Is(kind)      == [kind |-> kind, of |-> NoQuery]
Running(q)    == [kind |-> "Running", of |-> q]

Init ==
    /\ started = 0
    /\ phase = [q \in Queries |-> "unborn"]
    /\ server = {} /\ cleanup = {} /\ deleted = {}
    /\ chan = <<>>
    /\ status = Is("Idle") /\ rows = NoQuery /\ announced = NoQuery

-----------------------------------------------------------------------------
(* The worker *)

Goto(q, p) == phase' = [phase EXCEPT ![q] = p]

Send(kind, q) ==
    /\ Len(chan) < ChanBound
    /\ chan' = Append(chan, [kind |-> kind, of |-> q])

\* submit_provenance_query answers with an id, or fails.  The POST may have
\* reached NiFi even so; then nobody knows the id.
Submit(q) ==
    /\ phase[q] = "submit"
    /\ \/ Goto(q, "announce") /\ server' = server \cup {q}
       \/ Goto(q, "refused")  /\ UNCHANGED server
    /\ UNCHANGED <<started, cleanup, deleted, chan, viewVars>>

\* QueryFailed without an id; there is no guard yet.
Refuse(q) ==
    /\ phase[q] = "refused"
    /\ Send("Failed", NoQuery)
    /\ Goto(q, "done")
    /\ UNCHANGED <<started, nifiVars, viewVars>>

\* QueryStarted
Announce(q) ==
    /\ phase[q] = "announce"
    /\ Send("Started", q)
    /\ Goto(q, "sleep")
    /\ UNCHANGED <<started, nifiVars, viewVars>>

\* The top of the loop before POLL_TIMEOUT, and the pause that follows.
Wake(q) ==
    /\ phase[q] = "sleep"
    /\ Goto(q, "poll")
    /\ UNCHANGED <<started, nifiVars, chan, viewVars>>

\* ... and after it.
TimeOut(q) ==
    /\ phase[q] = "sleep"
    /\ Goto(q, "failed")
    /\ UNCHANGED <<started, nifiVars, chan, viewVars>>

\* poll_provenance_query: unfinished, finished, or an error.
Poll(q) ==
    /\ phase[q] = "poll"
    /\ \E p \in {"progress", "complete", "failed"} : Goto(q, p)
    /\ UNCHANGED <<started, nifiVars, chan, viewVars>>

\* QueryProgress
Progress(q) ==
    /\ phase[q] = "progress"
    /\ Send("Progress", q)
    /\ Goto(q, "sleep")
    /\ UNCHANGED <<started, nifiVars, viewVars>>

\* Only the happy path DELETEs.
FinishUnguarded(q) ==
    /\ \/ phase[q] = "complete" /\ Send("Done", q)   /\ cleanup' = cleanup \cup {q}
       \/ phase[q] = "failed"   /\ Send("Failed", q) /\ UNCHANGED cleanup
    /\ Goto(q, "done")
    /\ UNCHANGED <<started, server, deleted, viewVars>>

\* A worker that timed out or failed does not report.
FinishSilently(q) ==
    /\ \/ phase[q] = "complete" /\ Send("Done", q)
       \/ phase[q] = "failed"   /\ UNCHANGED chan
    /\ Goto(q, "done")
    /\ cleanup' = cleanup \cup {q}
    /\ UNCHANGED <<started, server, deleted, viewVars>>

\* The terminal payload; returning drops the guard.
Finish(q) ==
    /\ \/ phase[q] = "complete" /\ Send("Done", q)
       \/ phase[q] = "failed"   /\ Send("Failed", q)
    /\ Goto(q, "done")
    /\ cleanup' = cleanup \cup {q}
    /\ UNCHANGED <<started, server, deleted, viewVars>>

\* The guard's DELETE, which NiFi may refuse; that is only logged.
Cleanup(q) ==
    /\ q \in cleanup
    /\ cleanup' = cleanup \ {q}
    /\ deleted' = deleted \cup {q}
    /\ server' \in {server \ {q}, server}
    /\ UNCHANGED <<taskVars, chan, viewVars>>

-----------------------------------------------------------------------------
(* The UI *)

\* Enter on the filter bar, Refresh, or arriving from another tab.
SubmitQuery ==
    /\ started < MaxQueries
    /\ started' = started + 1
    /\ Goto(started', "submit")
    /\ status' = Running(NoQuery) /\ rows' = NoQuery
    /\ UNCHANGED <<nifiVars, chan, announced>>

\* n clears the tab, and so does a context switch.
NewQuery ==
    /\ status' = Is("Idle") /\ rows' = NoQuery
    /\ UNCHANGED <<taskVars, nifiVars, chan, announced>>

\* Leaving the tab clears a failure.
LeaveTab ==
    /\ status.kind = "Failed"
    /\ status' = Is("Idle")
    /\ UNCHANGED <<taskVars, nifiVars, chan, rows, announced>>

\* The reducer's four arms, of which three ask for the query's id.
HandleStarted(m) ==
    /\ m.kind = "Started"
    /\ status' = Running(m.of) /\ rows' = NoQuery
    /\ announced' = m.of

HandleProgress(m) ==
    /\ m.kind = "Progress"
    /\ UNCHANGED viewVars

\* Any running query is taken for the one that is done.
HandleDoneOfAny(m) ==
    /\ m.kind = "Done"
    /\ IF status.kind = "Running"
       THEN status' = Is("Done") /\ rows' = m.of
       ELSE UNCHANGED <<status, rows>>
    /\ UNCHANGED announced

HandleDone(m) ==
    /\ m.kind = "Done"
    /\ IF status = Running(m.of)
       THEN status' = Is("Done") /\ rows' = m.of
       ELSE UNCHANGED <<status, rows>>
    /\ UNCHANGED announced

\* A failure without an id is any running query's.
HandleFailed(m) ==
    /\ m.kind = "Failed"
    /\ status' = IF status.kind = "Running" /\ m.of \in {NoQuery, status.of}
                 THEN Is("Failed") ELSE status
    /\ UNCHANGED <<rows, announced>>

Handle ==
    /\ chan # <<>>
    /\ chan' = Tail(chan)
    /\ LET m == Head(chan)
       IN HandleStarted(m) \/ HandleProgress(m) \/ HandleDone(m) \/ HandleFailed(m)
    /\ UNCHANGED <<taskVars, nifiVars>>

-----------------------------------------------------------------------------
Worker(q) == \/ Submit(q) \/ Refuse(q) \/ Announce(q) \/ Wake(q) \/ TimeOut(q)
             \/ Poll(q) \/ Progress(q) \/ Finish(q)

User == SubmitQuery \/ NewQuery \/ LeaveTab

Next == User \/ Handle \/ \E q \in Queries : Worker(q) \/ Cleanup(q)

Spec == Init /\ [][Next]_vars

(* Requests return or time out, timers fire, among them the one after      *)
(* POLL_TIMEOUT, and the channel is fair and drained.                      *)
Fairness ==
    /\ WF_vars(Handle)
    /\ \A q \in Queries :
          /\ WF_vars(Submit(q) \/ Wake(q) \/ Poll(q))
          /\ SF_vars(TimeOut(q))
          /\ SF_vars(Refuse(q) \/ Announce(q) \/ Progress(q) \/ Finish(q))
          /\ WF_vars(Cleanup(q))

FairSpec == Spec /\ Fairness

-----------------------------------------------------------------------------
(* Properties *)

\* Every variable has its type.
TypeOK ==
    /\ started \in 0..MaxQueries
    /\ phase \in [Queries -> Phases]
    /\ server \subseteq Queries /\ cleanup \subseteq Queries /\ deleted \subseteq Queries
    /\ chan \in Seq(Payloads)
    /\ status \in Statuses
    /\ rows \in Queries \cup {NoQuery} /\ announced \in Queries \cup {NoQuery}

\* The events on the screen are of the query announced last: the answer of
\* one that was overtaken does not replace or survive it (apply_payload).
RowsOfAnnounced == rows \in {NoQuery, announced}

\* Events are shown exactly under the status Done: none of an earlier query
\* under "running", none under a failure.
RowsWhenDone == rows # NoQuery <=> status.kind = "Done"

\* The tab does not stay in "running": whatever queries were started,
\* refused or overtaken meanwhile, some report ends it.
RunningEnds == (status.kind = "Running") ~> (status.kind # "Running")

\* A query NiFi accepted is eventually DELETEd, however its worker ends
\* (ProvenanceQueryGuard).
QueryDeleted == \A q \in Queries : (q \in server) ~> (q \in deleted)
=============================================================================
