------------------------------- MODULE Tracer -------------------------------
(***************************************************************************)
(* The lineage query behind the Tracer tab: submitted to NiFi, polled and  *)
(* deleted by a one-shot task (view/tracer/worker.rs), followed by the     *)
(* mode of the tab (view/tracer/state/mod.rs, intent/mod.rs).              *)
(*                                                                         *)
(* Three parties: the UI task, which takes messages in order and handles   *)
(* keys between them; the tasks the dispatcher spawns, whose answers come  *)
(* back through the one event channel; and NiFi, which keeps a query until *)
(* it is deleted.  That a task was spawned is told by a message of its own *)
(* (TracerLineageStarted), sent by another task than the worker: the two   *)
(* race.                                                                   *)
(*                                                                         *)
(* Abstracted: a flowfile is a value, a query is named by its task, and    *)
(* the timeline a finished query opens is its flowfile (its details are    *)
(* not modelled).  LineagePartial changes the percentage shown and nothing *)
(* else, and is left out; so is LatestEvents mode, which the program never *)
(* enters: nothing sends CrossLink::TraceComponent.                        *)
(***************************************************************************)
EXTENDS Integers, Sequences

CONSTANTS
    Uuids,          \* Uuids[t]: flowfiles the t-th trace can be of
    MaxTraces,      \* bound: traces in a behaviour
    MaxSwitches     \* bound: context switches in a behaviour

ASSUME TracerAssumption ==
    /\ DOMAIN Uuids = 1 .. MaxTraces
    /\ MaxTraces \in Nat /\ MaxSwitches \in Nat

VARIABLES
    mode,       \* TracerState.mode
    tasks,      \* the spawned tasks, oldest first
    unsaid,     \* tasks whose TracerLineageStarted is still to be sent
    queue,      \* the event channel, restricted to what the tab hears
    server,     \* per trace: its query on NiFi, and the cluster it was put on
    deletes,    \* traces with a DELETE on its way
    client,     \* the cluster the shared client talks to
    orphans,    \* history: traces whose query is past what a DELETE reaches
    early       \* history: traces that ended before they were announced

vars == <<mode, tasks, unsaid, queue, server, deletes, client, orphans, early>>

(***************************************************************************)
(* Modes, tasks and messages                                               *)
(***************************************************************************)
NoTask == 0
TraceIds == 1 .. MaxTraces
Task == 1 .. Len(tasks)

Entry == [is |-> "entry"]
\* start_lineage: the query is not known yet.
Running(u, t) == [is |-> "running", uuid |-> u, query |-> NoTask, task |-> t]
Timeline(u) == [is |-> "lineage", uuid |-> u]

Tell(t, what) == queue' = Append(queue, [task |-> t, what |-> what])
At(t, stage) == tasks[t].stage = stage
Enter(t, stage) == tasks' = [tasks EXCEPT ![t].stage = stage]

\* LineageQueryGuard::drop and DeleteLineageQuery send a DELETE.  In a cluster
\* NiFi deletes a query only when the request names its node: without it the
\* DELETE does nothing, so it is not followed any further.
Delete(ts) == deletes' = deletes \cup ts

(***************************************************************************)
(* NiFi and the tasks                                                      *)
(***************************************************************************)
\* The dispatcher task sends the outcome of the intent that spawned t.
Announce(t) ==
    /\ t \in unsaid
    /\ unsaid' = unsaid \ {t}
    /\ Tell(t, "started")
    /\ UNCHANGED <<mode, tasks, server, deletes, client, orphans, early>>

\* The POST reaches NiFi, which opens the query.
Post(t) ==
    /\ At(t, "call")
    /\ Enter(t, "posted")
    /\ server' = [server EXCEPT ![t] = [query |-> "open", at |-> client]]
    /\ UNCHANGED <<mode, unsaid, queue, deletes, client, orphans, early>>

\* Its answer comes: the guard is built and LineageSubmitted sent.
Submitted(t) ==
    /\ At(t, "posted")
    /\ Enter(t, "poll")
    /\ Tell(t, "submitted")
    /\ UNCHANGED <<mode, unsaid, server, deletes, client, orphans, early>>

\* The task returns without a word when the submit fails.
SubmitErrSilently(t) ==
    /\ At(t, "call") \/ At(t, "posted")
    /\ Enter(t, "over")
    /\ orphans' = orphans \cup (IF At(t, "posted") THEN {t} ELSE {})
    /\ UNCHANGED <<mode, unsaid, queue, server, deletes, client, early>>

\* submit_lineage fails: no guard, no query id in the message.
SubmitErr(t) ==
    /\ At(t, "call") \/ At(t, "posted")
    /\ Enter(t, "over")
    /\ Tell(t, "refused")
    /\ orphans' = orphans \cup (IF At(t, "posted") THEN {t} ELSE {})
    /\ UNCHANGED <<mode, unsaid, server, deletes, client, early>>

\* Only a finished query is deleted: on an error the task just ends.
PollEndLeaking(t, what) ==
    /\ At(t, "poll")
    /\ what = "done" => server[t] = [query |-> "open", at |-> client]
    /\ Enter(t, "over")
    /\ Tell(t, what)
    /\ Delete(IF what = "done" THEN {t} ELSE {})
    /\ UNCHANGED <<mode, unsaid, server, client, orphans, early>>

\* The last poll: finished, or an error (a query the current client's cluster
\* does not have).  The task ends, and dropping the guard sends the DELETE.
PollEnd(t, what) ==
    /\ At(t, "poll")
    /\ what = "done" => server[t] = [query |-> "open", at |-> client]
    /\ Enter(t, "over")
    /\ Tell(t, what)
    /\ Delete({t})
    /\ UNCHANGED <<mode, unsaid, server, client, orphans, early>>

PollDone(t) == PollEnd(t, "done")
PollErr(t) == PollEnd(t, "failed")

\* A DELETE ends: it goes to the cluster the client talks to by now.  (One that
\* is lost is only logged; that NiFi answers is assumed here.)
DeleteEnd(t) ==
    /\ t \in deletes
    /\ deletes' = deletes \ {t}
    /\ IF server[t].at = client
       THEN server' = [server EXCEPT ![t].query = "gone"] /\ UNCHANGED orphans
       ELSE orphans' = orphans \cup {t} /\ UNCHANGED server
    /\ UNCHANGED <<mode, tasks, unsaid, queue, client, early>>

\* switch_context replaces the client, once no request holds its read lock; its
\* outcome is a message like any other.
SwitchClient ==
    /\ client < MaxSwitches
    /\ \A t \in Task : ~At(t, "posted")
    /\ client' = client + 1
    /\ Tell(NoTask, "switched")
    /\ UNCHANGED <<mode, tasks, unsaid, server, deletes, orphans, early>>

(***************************************************************************)
(* Messages                                                                *)
(***************************************************************************)
Taking(what) == queue # <<>> /\ Head(queue).what = what /\ queue' = Tail(queue)
Sender == Head(queue).task

\* start_lineage, whatever mode the tab is in.  A trace that is running keeps
\* running: its abort handle is dropped, not used.
TakeStarted ==
    /\ Taking("started")
    /\ mode' = Running(tasks[Sender].uuid, Sender)
    /\ UNCHANGED <<tasks, unsaid, server, deletes, client, orphans, early>>

\* Whatever flowfile the query is for.
TakeSubmittedAny ==
    /\ Taking("submitted")
    /\ mode' = IF mode.is = "running" /\ mode.query = NoTask
               THEN [mode EXCEPT !.query = Sender] ELSE mode
    /\ UNCHANGED <<tasks, unsaid, server, deletes, client, orphans, early>>

\* LineageSubmitted: for this flowfile, and no query known yet.
TakeSubmitted ==
    /\ Taking("submitted")
    /\ mode' = IF /\ mode.is = "running" /\ mode.uuid = tasks[Sender].uuid
                  /\ mode.query = NoTask
               THEN [mode EXCEPT !.query = Sender] ELSE mode
    /\ UNCHANGED <<tasks, unsaid, server, deletes, client, orphans, early>>

\* The test LineageDone and LineageFailed share: this query, or none known.
Expected(t) == mode.is = "running" /\ mode.query \in {t, NoTask}
Announced(t) == t \notin unsaid /\ \A k \in DOMAIN queue : queue[k] # [task |-> t, what |-> "started"]
EndsEarly == IF Announced(Sender) THEN early ELSE early \cup {Sender}

\* LineageDone opens the timeline of the flowfile it names; expected or not, the
\* query is deleted once more, with the node only if a LineageSubmitted told it.
TakeDone ==
    /\ Taking("done")
    /\ mode' = IF Expected(Sender) THEN Timeline(tasks[Sender].uuid) ELSE mode
    /\ Delete(IF mode.is = "running" /\ mode.query = Sender THEN {Sender} ELSE {})
    /\ early' = EndsEarly
    /\ UNCHANGED <<tasks, unsaid, server, client, orphans>>

\* LineageFailed: a submit that failed names no query, and the empty id matches
\* only a run that knows none.
TakeFailed ==
    /\ \/ Taking("failed") /\ mode' = IF Expected(Sender) THEN Entry ELSE mode
       \/ Taking("refused") /\ mode' = IF Expected(NoTask) THEN Entry ELSE mode
    /\ early' = EndsEarly
    /\ UNCHANGED <<tasks, unsaid, server, deletes, client, orphans>>

\* ContextSwitched: TracerState::new(); no task is aborted.
TakeSwitched ==
    /\ Taking("switched")
    /\ mode' = Entry
    /\ UNCHANGED <<tasks, unsaid, server, deletes, client, orphans, early>>

Take == TakeStarted \/ TakeSubmitted \/ TakeDone \/ TakeFailed \/ TakeSwitched

(***************************************************************************)
(* Keys                                                                    *)
(***************************************************************************)
\* TraceFlowfile, TraceByUuid and RefreshLineage: Enter on the entry field, `t`
\* on another tab, `r` on a timeline.  The mode changes only when the outcome
\* of the intent is taken, so the key can be pressed again before.
Trace(u) ==
    /\ tasks' = Append(tasks, [uuid |-> u, stage |-> "call"])
    /\ unsaid' = unsaid \cup {Len(tasks) + 1}
    /\ UNCHANGED <<mode, queue, server, deletes, client, orphans, early>>

\* Esc on a running trace: abort its task; if its query is known, delete that.
\* An aborted task drops its guard if it has one.
Cancel ==
    /\ mode.is = "running"
    /\ mode' = Entry
    /\ LET t == mode.task IN
       /\ Enter(t, "over")
       /\ Delete((IF At(t, "poll") THEN {t} ELSE {}) \cup ({mode.query} \ {NoTask}))
       /\ orphans' = orphans \cup (IF At(t, "posted") THEN {t} ELSE {})
    /\ UNCHANGED <<unsaid, queue, server, client, early>>

\* Esc on the timeline.
Leave ==
    /\ mode.is = "lineage"
    /\ mode' = Entry
    /\ UNCHANGED <<tasks, unsaid, queue, server, deletes, client, orphans, early>>

Key == \/ Len(tasks) < MaxTraces /\ \E u \in Uuids[Len(tasks) + 1] : Trace(u)
       \/ Cancel \/ Leave

Worker(t) == Post(t) \/ Submitted(t) \/ SubmitErr(t) \/ PollDone(t) \/ PollErr(t)

Init ==
    /\ mode = Entry /\ tasks = <<>> /\ unsaid = {} /\ queue = <<>>
    /\ server = [t \in TraceIds |-> [query |-> "none", at |-> 0]]
    /\ deletes = {} /\ client = 0 /\ orphans = {} /\ early = {}

Next ==
    \/ Take \/ Key \/ SwitchClient
    \/ \E t \in Task : Announce(t) \/ Worker(t)
    \/ \E t \in deletes : DeleteEnd(t)

Spec == Init /\ [][Next]_vars

\* The run loop takes messages, spawned tasks run, requests are answered (the
\* client has a timeout) and NiFi finishes a query or fails it.
FairSpec ==
    /\ Spec
    /\ WF_vars(Take)
    /\ \A t \in TraceIds :
         WF_vars(t \in Task /\ Announce(t)) /\ WF_vars(t \in Task /\ Worker(t))
    /\ WF_vars(\E t \in deletes : DeleteEnd(t))

(***************************************************************************)
(* Properties                                                              *)
(***************************************************************************)
\* Types, among them: what a message or the mode names is a task that exists.
Flowfiles == UNION {Uuids[t] : t \in TraceIds}
Words == {"started", "submitted", "refused", "done", "failed"}
ModeType ==
    \/ mode = Entry
    \/ mode \in [is : {"running"}, uuid : Flowfiles, query : Task \cup {NoTask}, task : Task]
    \/ mode \in [is : {"lineage"}, uuid : Flowfiles]
TaskType ==
    /\ tasks \in Seq([uuid : Flowfiles, stage : {"call", "posted", "poll", "over"}])
    /\ Len(tasks) <= MaxTraces
ChannelType ==
    /\ queue \in Seq([task : Task, what : Words] \cup [task : {NoTask}, what : {"switched"}])
    /\ unsaid \subseteq Task
ServerType ==
    /\ server \in [TraceIds -> [query : {"none", "open", "gone"}, at : Nat]]
    /\ client \in Nat /\ deletes \subseteq Task /\ orphans \subseteq Task /\ early \subseteq Task
TypeOK == ModeType /\ TaskType /\ ChannelType /\ ServerType

\* The safety half of QueriesAreDeleted: a query on NiFi has a task that will
\* drop its guard, or a DELETE on its way, or is one of the exceptions.
QueryHeld ==
    \A t \in Task : server[t].query = "open" =>
        At(t, "posted") \/ At(t, "poll") \/ t \in deletes \/ t \in orphans

\* The query a running trace knows is of the flowfile it was asked for.
KnownIsOwn ==
    mode.is = "running" /\ mode.query # NoTask => tasks[mode.query].uuid = mode.uuid

\* No query is left behind: one that NiFi opened is deleted in the end, whether
\* the trace finished, failed, was cancelled or was overtaken by another, except
\* when the POST was aborted or failed after NiFi had taken it, or the DELETE went
\* to another cluster (view/tracer/worker.rs:22-25, 115-119).
QueriesAreDeleted ==
    \A t \in TraceIds :
        server[t].query = "open" ~> (server[t].query = "gone" \/ t \in orphans)

\* A trace that has learned its query shows the flowfile it was asked for, whatever
\* answers of cancelled or overtaken traces are still in the channel.
ShowsTheKnown ==
    [][mode.is = "running" /\ mode.query # NoTask /\ mode'.is = "lineage"
         => mode'.uuid = mode.uuid]_vars

\* A running trace ends, if it was announced before its result was in and has
\* not taken the query of another trace of the same flowfile for its own.
Waiting(t) == mode.is = "running" /\ mode.task = t
OwnQuery(t) == mode.query \in {NoTask, t}
TraceEnds ==
    \A t \in TraceIds :
        (Waiting(t) /\ t \notin early) ~> (~Waiting(t) \/ ~OwnQuery(t))

(***************************************************************************)
(* Said of the code, and not so                                            *)
(***************************************************************************)
\* The trace that is waited for always ends.  It does not when its result comes
\* before its announcement, nor when the query it holds is one that Esc killed.
EveryTraceEnds == \A t \in TraceIds : Waiting(t) ~> ~Waiting(t)

\* The timeline shows the flowfile asked for last (tests.rs:265: a stale result
\* leaves the mode alone).  A result already in the channel when its trace is
\* cancelled is taken by the next trace as long as that knows no query.
ShowsTheAsked == [][mode.is = "running" /\ mode'.is = "lineage" => mode'.uuid = mode.uuid]_vars
=============================================================================
