---------------------------- MODULE Tracer_proofs ----------------------------
(***************************************************************************)
(* Proofs about the two modules of the Tracer tab, Tracer (the lineage     *)
(* query) and ContentModal (the content viewer), for any traces, any       *)
(* contents and ceilings, and any number of steps.                         *)
(*                                                                         *)
(* Tracer: the argument is about what outlives a handler: a task keeps the *)
(* flowfile it was given (Old), so a query learned from a message is of    *)
(* the flowfile the mode names (KnownIsOwn), and a query leaves the hands  *)
(* of its task only for a DELETE or an orphan (QueryHeld).  A trace the    *)
(* tab waits for is at work or has its last answer in the channel          *)
(* (TraceIsServed).                                                        *)
(*                                                                         *)
(* ContentModal: see there.                                                *)
(***************************************************************************)
EXTENDS Tracer, ContentModal, SequenceTheorems, TLAPS

\* NiFi has no query of a trace that was not asked for yet.
Unborn == \A t \in TraceIds : t > Len(tasks) => server[t].query # "open"

IInv == TypeOK /\ KnownIsOwn /\ QueryHeld /\ Unborn

Stages == {"call", "posted", "poll", "over"}
TaskRecords == [uuid : Flowfiles, stage : Stages]
Messages == [task : Task, what : Words] \cup [task : {NoTask}, what : {"switched"}]

USE TracerAssumption

LEMMA InitInv == Init => IInv
<1> SUFFICES ASSUME Init PROVE IInv
    OBVIOUS
<1>1. tasks \in Seq(TaskRecords) /\ queue \in Seq(Messages) /\ Len(tasks) = 0
    BY DEF Init
<1>2. ModeType /\ TaskType /\ ChannelType
    BY <1>1 DEF Init, ModeType, TaskType, ChannelType, TaskRecords, Stages, Messages
<1>3. ServerType
    BY DEF Init, ServerType
<1>4. KnownIsOwn /\ QueryHeld /\ Unborn
    BY <1>1 DEF Init, KnownIsOwn, QueryHeld, Unborn, Entry, Task
<1> QED
    BY <1>2, <1>3, <1>4 DEF IInv, TypeOK

-----------------------------------------------------------------------------
(* What the steps do to the tasks.                                         *)

\* The tasks of now are tasks later on, of the same flowfile.
Old ==
    /\ Len(tasks') \in Nat
    /\ Len(tasks) <= Len(tasks')
    /\ \A t \in Task : tasks'[t].uuid = tasks[t].uuid

LEMMA EnterKeeps ==
    ASSUME TypeOK, NEW t \in Task, NEW stage \in Stages, Enter(t, stage)
    PROVE  /\ TaskType' /\ Old /\ Task' = Task
           /\ \A o \in Task : At(o, stage)' <=> (o = t \/ At(o, stage))
           /\ \A o \in Task \ {t} : tasks'[o] = tasks[o]
<1>1. tasks \in Seq(TaskRecords)
    BY DEF TypeOK, TaskType, TaskRecords, Stages
<1>2. t \in 1 .. Len(tasks) /\ Len(tasks) \in Nat
    BY <1>1 DEF Task
<1>3. tasks' = [tasks EXCEPT ![t].stage = stage]
    BY DEF Enter
<1>4. tasks[t] \in TaskRecords
    BY <1>1, <1>2
<1>5. [tasks[t] EXCEPT !.stage = stage] \in TaskRecords
    BY <1>4 DEF TaskRecords
<1>6. tasks' = [tasks EXCEPT ![t] = [tasks[t] EXCEPT !.stage = stage]]
    BY <1>3
<1>7. tasks' \in Seq(TaskRecords) /\ Len(tasks') = Len(tasks)
    BY <1>1, <1>2, <1>5, <1>6
<1>8. \A o \in 1 .. Len(tasks) : o # t => tasks'[o] = tasks[o]
    BY <1>1, <1>6
<1>9. tasks'[t] = [tasks[t] EXCEPT !.stage = stage]
    BY <1>1, <1>2, <1>6
<1>10. tasks'[t].stage = stage /\ tasks'[t].uuid = tasks[t].uuid
    BY <1>4, <1>9 DEF TaskRecords
<1>11. TaskType'
    BY <1>7 DEF TypeOK, TaskType, TaskRecords, Stages
<1>12. Task' = Task
    BY <1>7 DEF Task
<1> QED
    BY <1>2, <1>7, <1>8, <1>10, <1>11, <1>12 DEF Old, At, Task

LEMMA AppendKeeps ==
    ASSUME TypeOK, Len(tasks) < MaxTraces, NEW u \in Uuids[Len(tasks) + 1], Trace(u)
    PROVE  /\ TaskType' /\ Old
           /\ Len(tasks') = Len(tasks) + 1
           /\ \A o \in Task : tasks'[o] = tasks[o]
<1> DEFINE r == [uuid |-> u, stage |-> "call"]
<1>1. tasks \in Seq(TaskRecords) /\ Len(tasks) \in Nat
    BY DEF TypeOK, TaskType, TaskRecords, Stages
<1>2. Len(tasks) + 1 \in TraceIds
    BY <1>1 DEF TraceIds
<1>3. r \in TaskRecords
    BY <1>2 DEF TaskRecords, Stages, Flowfiles
<1>4. tasks' = Append(tasks, r)
    BY DEF Trace
<1> HIDE DEF r
<1>5. tasks' \in Seq(TaskRecords) /\ Len(tasks') = Len(tasks) + 1
    BY <1>1, <1>3, <1>4
<1>6. \A o \in 1 .. Len(tasks) : tasks'[o] = tasks[o]
    BY <1>1, <1>4
<1>7. TaskType'
    BY <1>1, <1>5 DEF TypeOK, TaskType, TaskRecords, Stages
<1> QED
    BY <1>1, <1>5, <1>6, <1>7 DEF Old, Task

\* A message a task sends is a message.
LEMMA TellType ==
    ASSUME TypeOK, Task' = Task, NEW t, NEW what, Tell(t, what),
           [task |-> t, what |-> what] \in Messages
    PROVE  queue' \in Seq(Messages')
<1>1. Messages' = Messages
    BY DEF Messages
<1>2. queue \in Seq(Messages)
    BY DEF TypeOK, ChannelType, Messages
<1> QED
    BY <1>1, <1>2 DEF Tell

\* The task a channel or the mode names stays a task when tasks are added.
LEMMA TaskGrows ==
    ASSUME TypeOK, Old
    PROVE  Task \subseteq Task' /\ Messages \subseteq Messages'
BY DEF Old, Task, Messages, TypeOK, TaskType

LEMMA KeptModeType ==
    ASSUME TypeOK, Old, mode' = mode
    PROVE  ModeType'
<1>1. Task \subseteq Task'
    BY TaskGrows
<1> QED
    BY <1>1 DEF TypeOK, ModeType

LEMMA HeadMessage ==
    ASSUME TypeOK, queue # <<>>
    PROVE  Head(queue) \in Messages /\ Tail(queue) \in Seq(Messages)
<1>1. queue \in Seq(Messages)
    BY DEF TypeOK, ChannelType, Messages
<1> QED
    BY <1>1

-----------------------------------------------------------------------------
(* Types.                                                                  *)

\* A task that enters its next stage and tells of it, or not.
LEMMA EnterType ==
    ASSUME TypeOK, NEW t \in Task, NEW stage \in Stages, Enter(t, stage),
           mode' = mode, unsaid' = unsaid, early' = early, client' = client,
           \/ queue' = queue
           \/ \E what \in Words : Tell(t, what),
           server' \in [TraceIds -> [query : {"none", "open", "gone"}, at : Nat]],
           deletes' \subseteq Task, orphans' \subseteq Task
    PROVE  TypeOK'
<1>1. TaskType' /\ Old /\ Task' = Task
    BY EnterKeeps
<1>2. ModeType'
    BY <1>1, KeptModeType
<1>3. queue' \in Seq(Messages')
    <2>1. CASE queue' = queue
        <3>1. Messages' = Messages
            BY <1>1 DEF Messages
        <3> QED
            BY <2>1, <3>1 DEF TypeOK, ChannelType, Messages
    <2>2. CASE \E what \in Words : Tell(t, what)
        <3> PICK what \in Words : Tell(t, what)
            BY <2>2
        <3>1. [task |-> t, what |-> what] \in Messages
            BY DEF Messages
        <3> QED
            BY <1>1, <3>1, TellType
    <2> QED
        BY <2>1, <2>2
<1>4. ChannelType'
    BY <1>1, <1>3 DEF TypeOK, ChannelType, Messages
<1>5. ServerType'
    BY <1>1 DEF TypeOK, ServerType
<1> QED
    BY <1>1, <1>2, <1>4, <1>5 DEF TypeOK

LEMMA TaskIds ==
    ASSUME TypeOK
    PROVE  Task \subseteq TraceIds /\ Len(tasks) \in Nat
BY DEF TypeOK, TaskType, Task, TraceIds

LEMMA FlowfileOf ==
    ASSUME TypeOK, NEW t \in Task
    PROVE  tasks[t].uuid \in Flowfiles
<1>1. tasks \in Seq(TaskRecords) /\ t \in 1 .. Len(tasks)
    BY DEF TypeOK, TaskType, TaskRecords, Stages, Task
<1>2. tasks[t] \in TaskRecords
    BY <1>1
<1> QED
    BY <1>2 DEF TaskRecords

LEMMA WorkerType ==
    ASSUME TypeOK, NEW t \in Task, Worker(t)
    PROVE  TypeOK'
<1> USE DEF Stages
<1>1. t \in TraceIds
    BY TaskIds
<1>2. CASE Post(t)
    <2>1. server' \in [TraceIds -> [query : {"none", "open", "gone"}, at : Nat]]
        BY <1>1, <1>2 DEF Post, TypeOK, ServerType
    <2> QED
        BY <1>2, <2>1, EnterType DEF Post, TypeOK, ServerType
<1>3. CASE Submitted(t)
    BY <1>3, EnterType DEF Submitted, TypeOK, ServerType, Words
<1>4. CASE SubmitErr(t)
    BY <1>4, EnterType DEF SubmitErr, TypeOK, ServerType, Words
<1>5. CASE PollDone(t) \/ PollErr(t)
    BY <1>5, EnterType DEF PollDone, PollErr, PollEnd, Delete, TypeOK, ServerType, Words
<1> QED
    BY <1>2, <1>3, <1>4, <1>5 DEF Worker

\* What a step that leaves the tasks alone has to keep.
LEMMA SameTasks ==
    ASSUME TypeOK, tasks' = tasks, ModeType', queue' \in Seq(Messages), unsaid' \subseteq Task,
           ServerType'
    PROVE  TypeOK'
BY DEF TypeOK, TaskType, ChannelType, Messages, Task

LEMMA SameMode ==
    ASSUME TypeOK, tasks' = tasks, mode' = mode
    PROVE  ModeType'
BY DEF TypeOK, ModeType, Task

LEMMA SameServer ==
    ASSUME TypeOK, tasks' = tasks, server' = server, deletes' \subseteq Task, orphans' = orphans,
           early' \subseteq Task, client' = client
    PROVE  ServerType'
BY DEF TypeOK, ServerType, Task

LEMMA OtherType ==
    ASSUME TypeOK,
           SwitchClient \/ (\E t \in Task : Announce(t)) \/ (\E t \in deletes : DeleteEnd(t))
    PROVE  TypeOK'
<1>1. queue \in Seq(Messages)
    BY DEF TypeOK, ChannelType, Messages
<1>2. CASE SwitchClient
    <2>1. queue' \in Seq(Messages)
        BY <1>1, <1>2 DEF SwitchClient, Tell, Messages
    <2>2. ServerType'
        BY <1>2 DEF SwitchClient, TypeOK, ServerType, Task
    <2> QED
        BY <1>2, <2>1, <2>2, SameTasks, SameMode DEF SwitchClient, TypeOK, ChannelType
<1>3. CASE \E t \in Task : Announce(t)
    <2> PICK t \in Task : Announce(t)
        BY <1>3
    <2>1. [task |-> t, what |-> "started"] \in Messages
        BY DEF Messages, Words
    <2>2. queue' \in Seq(Messages)
        BY <1>1, <2>1 DEF Announce, Tell
    <2> QED
        BY <2>2, SameTasks, SameMode, SameServer
        DEF Announce, TypeOK, ChannelType, ServerType
<1>4. CASE \E t \in deletes : DeleteEnd(t)
    <2> PICK t \in deletes : DeleteEnd(t)
        BY <1>4
    <2>1. t \in Task /\ t \in TraceIds
        BY TaskIds DEF TypeOK, ServerType
    <2>2. server' \in [TraceIds -> [query : {"none", "open", "gone"}, at : Nat]]
        BY <2>1 DEF DeleteEnd, TypeOK, ServerType
    <2>3. ServerType'
        BY <2>1, <2>2 DEF DeleteEnd, TypeOK, ServerType, Task
    <2> QED
        BY <1>1, <2>3, SameTasks, SameMode DEF DeleteEnd, TypeOK, ChannelType
<1> QED
    BY <1>2, <1>3, <1>4

LEMMA TakeType ==
    ASSUME TypeOK, Take
    PROVE  TypeOK'
<1>1. queue # <<>> /\ tasks' = tasks /\ unsaid' = unsaid /\ queue' = Tail(queue)
    BY DEF Take, TakeStarted, TakeSubmitted, TakeDone, TakeFailed, TakeSwitched, Taking
<1>2. queue' \in Seq(Messages) /\ Head(queue) \in Messages
    BY <1>1, HeadMessage
<1>3. Head(queue).what # "switched" => Sender \in Task
    BY <1>2 DEF Messages, Sender
<1>4. Task' = Task
    BY <1>1 DEF Task
<1>5. Sender \in Task => tasks[Sender].uuid \in Flowfiles
    <2>1. \A t \in Task : tasks[t].uuid \in Flowfiles
        BY FlowfileOf
    <2> QED
        BY <2>1
<1>6. ModeType'
    <2>1. CASE TakeStarted
        BY <1>3, <1>4, <1>5, <2>1 DEF TakeStarted, Taking, ModeType, Running
    <2>2. CASE TakeSubmitted
        BY <1>3, <1>4, <2>2 DEF TakeSubmitted, Taking, TypeOK, ModeType, Entry
    <2>3. CASE TakeDone
        BY <1>3, <1>4, <1>5, <2>3 DEF TakeDone, Taking, TypeOK, ModeType, Timeline
    <2>4. CASE TakeFailed \/ TakeSwitched
        BY <1>4, <2>4 DEF TakeFailed, TakeSwitched, TypeOK, ModeType
    <2> QED
        BY <2>1, <2>2, <2>3, <2>4 DEF Take
<1>7. deletes' \subseteq Task /\ early' \subseteq Task
    BY <1>3 DEF Take, TakeStarted, TakeSubmitted, TakeDone, TakeFailed, TakeSwitched, Taking,
                Delete, EndsEarly, TypeOK, ServerType
<1>8. ServerType'
    BY <1>1, <1>7, SameServer
    DEF Take, TakeStarted, TakeSubmitted, TakeDone, TakeFailed, TakeSwitched
<1> QED
    BY <1>1, <1>2, <1>6, <1>8, SameTasks DEF TypeOK, ChannelType

LEMMA KeyType ==
    ASSUME TypeOK, Key
    PROVE  TypeOK'
<1>1. CASE Len(tasks) < MaxTraces /\ \E u \in Uuids[Len(tasks) + 1] : Trace(u)
    <2> PICK u \in Uuids[Len(tasks) + 1] : Trace(u)
        BY <1>1
    <2>1. TaskType' /\ Old /\ Len(tasks') = Len(tasks) + 1
        BY <1>1, AppendKeeps
    <2>2. Task \subseteq Task' /\ Messages \subseteq Messages'
        BY <2>1, TaskGrows
    <2>3. Len(tasks) + 1 \in Task'
        BY <2>1, TaskIds DEF Task
    <2>4. queue \in Seq(Messages)
        BY DEF TypeOK, ChannelType, Messages
    <2>5. queue' \in Seq(Messages')
        BY <2>2, <2>4 DEF Trace
    <2>6. unsaid' \subseteq Task'
        BY <2>2, <2>3 DEF Trace, TypeOK, ChannelType
    <2>7. ChannelType'
        BY <2>5, <2>6 DEF ChannelType, Messages
    <2>8. ServerType'
        BY <2>2 DEF Trace, TypeOK, ServerType
    <2>9. ModeType'
        BY <2>1, KeptModeType DEF Trace
    <2> QED
        BY <2>1, <2>7, <2>8, <2>9 DEF TypeOK
<1>2. CASE Cancel
    <2>1. mode.task \in Task /\ mode.query \in Task \cup {NoTask}
        BY <1>2 DEF Cancel, TypeOK, ModeType, Entry
    <2>2. Enter(mode.task, "over") /\ queue' = queue /\ unsaid' = unsaid
        BY <1>2 DEF Cancel
    <2>3. TaskType' /\ Task' = Task
        BY <2>1, <2>2, EnterKeeps DEF Stages
    <2>4. Messages' = Messages
        BY <2>3 DEF Messages
    <2>5. ChannelType'
        BY <2>2, <2>3 DEF TypeOK, ChannelType
    <2>6. deletes' \subseteq Task /\ orphans' \subseteq Task
        BY <1>2, <2>1 DEF Cancel, Delete, TypeOK, ServerType
    <2>7. ServerType'
        BY <1>2, <2>3, <2>6 DEF Cancel, TypeOK, ServerType
    <2>8. ModeType'
        BY <1>2 DEF Cancel, ModeType
    <2> QED
        BY <2>3, <2>5, <2>7, <2>8 DEF TypeOK
<1>3. CASE Leave
    <2>1. ModeType'
        BY <1>3 DEF Leave, ModeType
    <2> QED
        BY <1>3, <2>1, SameTasks, SameServer
        DEF Leave, TypeOK, ChannelType, ServerType, Messages
<1> QED
    BY <1>1, <1>2, <1>3 DEF Key

-----------------------------------------------------------------------------
(* What a running trace knows.                                             *)

\* Every step keeps the tasks and their flowfiles.
LEMMA StepOld ==
    ASSUME TypeOK, [Next]_vars
    PROVE  Old
<1>1. CASE tasks' = tasks
    BY <1>1, TaskIds DEF Old
<1>2. CASE \E t \in Task : Worker(t)
    <2> PICK t \in Task : Worker(t)
        BY <1>2
    <2>1. \E stage \in Stages : Enter(t, stage)
        BY DEF Worker, Post, Submitted, SubmitErr, PollDone, PollErr, PollEnd, Stages
    <2> QED
        BY <2>1, EnterKeeps
<1>3. CASE Len(tasks) < MaxTraces /\ \E u \in Uuids[Len(tasks) + 1] : Trace(u)
    BY <1>3, AppendKeeps
<1>4. CASE Cancel
    <2>1. mode.task \in Task /\ Enter(mode.task, "over")
        BY <1>4 DEF Cancel, TypeOK, ModeType, Entry
    <2> QED
        BY <2>1, EnterKeeps DEF Stages
<1>5. Take \/ Leave \/ SwitchClient \/ (\E t \in Task : Announce(t))
          \/ (\E t \in deletes : DeleteEnd(t)) \/ UNCHANGED vars => tasks' = tasks
    BY DEF Take, TakeStarted, TakeSubmitted, TakeDone, TakeFailed, TakeSwitched, Leave,
           SwitchClient, Announce, DeleteEnd, vars
<1> QED
    BY <1>1, <1>2, <1>3, <1>4, <1>5 DEF Next, Key

LEMMA StepKnown ==
    ASSUME TypeOK, KnownIsOwn, [Next]_vars
    PROVE  KnownIsOwn'
<1>1. CASE mode' = mode
    <2> SUFFICES ASSUME mode.is = "running", mode.query # NoTask
                 PROVE  tasks'[mode.query].uuid = mode.uuid
        BY <1>1 DEF KnownIsOwn
    <2>1. mode.query \in Task
        BY DEF TypeOK, ModeType, Entry
    <2> QED
        BY <2>1, StepOld DEF Old, KnownIsOwn
<1>2. CASE TakeStarted
    BY <1>2 DEF TakeStarted, KnownIsOwn, Running
<1>3. CASE TakeSubmitted
    <2>1. CASE mode' = mode
        BY <2>1, <1>1
    <2>2. CASE /\ mode.is = "running" /\ mode.uuid = tasks[Sender].uuid
               /\ mode' = [mode EXCEPT !.query = Sender]
        <3>1. mode \in [is : {"running"}, uuid : Flowfiles, query : Task \cup {NoTask}, task : Task]
            BY <2>2 DEF TypeOK, ModeType, Entry
        <3>2. mode'.query = Sender /\ mode'.uuid = tasks[Sender].uuid
            BY <2>2, <3>1
        <3>3. tasks' = tasks
            BY <1>3 DEF TakeSubmitted
        <3> QED
            BY <3>2, <3>3 DEF KnownIsOwn
    <2> QED
        BY <1>3, <2>1, <2>2 DEF TakeSubmitted
<1>4. CASE TakeDone
    BY <1>1, <1>4 DEF TakeDone, Timeline, KnownIsOwn
<1>5. CASE TakeFailed \/ TakeSwitched \/ Cancel \/ Leave
    BY <1>1, <1>5 DEF TakeFailed, TakeSwitched, Cancel, Leave, Entry, KnownIsOwn
<1>6. CASE \E t \in Task : Worker(t)
    BY <1>1, <1>6 DEF Worker, Post, Submitted, SubmitErr, PollDone, PollErr, PollEnd
<1>7. CASE SwitchClient \/ (\E t \in Task : Announce(t)) \/ (\E t \in deletes : DeleteEnd(t))
               \/ UNCHANGED vars \/ \E u \in Uuids[Len(tasks) + 1] : Trace(u)
    BY <1>1, <1>7 DEF SwitchClient, Announce, DeleteEnd, vars, Trace
<1> QED
    BY <1>2, <1>3, <1>4, <1>5, <1>6, <1>7 DEF Next, Key, Take

\* The step that opens a timeline is a LineageDone that the test let through.
LEMMA StepShows ==
    ASSUME TypeOK, KnownIsOwn, [Next]_vars,
           mode.is = "running", mode.query # NoTask, mode'.is = "lineage"
    PROVE  mode'.uuid = mode.uuid
<1>1. mode' # mode
    OBVIOUS
<1>2. CASE TakeDone
    <2>1. Expected(Sender) /\ mode' = Timeline(tasks[Sender].uuid)
        BY <1>1, <1>2 DEF TakeDone
    <2>2. mode.query = Sender
        BY <2>1 DEF Expected
    <2> QED
        BY <2>1, <2>2 DEF KnownIsOwn, Timeline
<1>3. CASE TakeStarted \/ TakeFailed \/ TakeSwitched \/ Cancel \/ Leave
    BY <1>1, <1>3 DEF TakeStarted, TakeFailed, TakeSwitched, Cancel, Leave, Entry, Running
<1>4. CASE TakeSubmitted
    <2>1. mode' = [mode EXCEPT !.query = Sender]
        BY <1>1, <1>4 DEF TakeSubmitted
    <2>2. mode \in [is : {"running"}, uuid : Flowfiles, query : Task \cup {NoTask}, task : Task]
        BY DEF TypeOK, ModeType, Entry
    <2> QED
        BY <2>1, <2>2
<1>5. CASE \E t \in Task : Worker(t)
    BY <1>1, <1>5 DEF Worker, Post, Submitted, SubmitErr, PollDone, PollErr, PollEnd
<1>6. CASE SwitchClient \/ (\E t \in Task : Announce(t)) \/ (\E t \in deletes : DeleteEnd(t))
               \/ UNCHANGED vars \/ \E u \in Uuids[Len(tasks) + 1] : Trace(u)
    BY <1>1, <1>6 DEF SwitchClient, Announce, DeleteEnd, vars, Trace
<1> QED
    BY <1>2, <1>3, <1>4, <1>5, <1>6 DEF Next, Key, Take

-----------------------------------------------------------------------------
(* Who holds a query.                                                      *)

LEMMA StepHeld ==
    ASSUME TypeOK, QueryHeld, Unborn, [Next]_vars
    PROVE  QueryHeld' /\ Unborn'
<1> USE DEF QueryHeld, Unborn
<1>1. CASE UNCHANGED <<tasks, server>> /\ deletes \subseteq deletes' /\ orphans \subseteq orphans'
    BY <1>1 DEF Task, At
<1>2. CASE Take \/ Leave \/ SwitchClient \/ (\E t \in Task : Announce(t)) \/ UNCHANGED vars
    BY <1>1, <1>2 DEF Take, TakeStarted, TakeSubmitted, TakeDone, TakeFailed, TakeSwitched,
                      Leave, SwitchClient, Announce, vars, Delete
<1>3. CASE \E t \in deletes : DeleteEnd(t)
    <2> PICK t \in deletes : DeleteEnd(t)
        BY <1>3
    <2>1. t \in TraceIds
        BY TaskIds DEF TypeOK, ServerType
    <2>2. UNCHANGED tasks
        BY DEF DeleteEnd
    <2>3. \A o \in TraceIds : o # t => server'[o] = server[o]
        BY <2>1 DEF DeleteEnd, TypeOK, ServerType
    <2>4. server'[t].query = "open" => t \in orphans' /\ server' = server
        BY <2>1 DEF DeleteEnd, TypeOK, ServerType
    <2>5. deletes' = deletes \ {t} /\ orphans \subseteq orphans'
        BY DEF DeleteEnd
    <2>6. Task' = Task /\ Task \subseteq TraceIds /\ \A o \in Task : tasks'[o] = tasks[o]
        BY <2>2, TaskIds DEF Task
    <2> QED
        BY <2>2, <2>3, <2>4, <2>5, <2>6 DEF At
<1>4. CASE Len(tasks) < MaxTraces /\ \E u \in Uuids[Len(tasks) + 1] : Trace(u)
    <2> PICK u \in Uuids[Len(tasks) + 1] : Trace(u)
        BY <1>4
    <2>1. Len(tasks') = Len(tasks) + 1 /\ \A o \in Task : tasks'[o] = tasks[o]
        BY <1>4, AppendKeeps
    <2>2. UNCHANGED <<server, deletes, orphans>>
        BY DEF Trace
    <2>3. \A t \in Task' : t \in Task \/ (t = Len(tasks) + 1 /\ t \in TraceIds)
        BY <1>4, <2>1, TaskIds DEF Task, TraceIds
    <2>4. Len(tasks) \in Nat
        BY TaskIds
    <2>5. QueryHeld'
        BY <2>1, <2>2, <2>3, <2>4 DEF At
    <2>6. Unborn'
        BY <2>1, <2>2, <2>4 DEF TraceIds
    <2> QED
        BY <2>5, <2>6
<1>5. CASE Cancel
    <2> DEFINE c == mode.task
    <2>1. c \in Task
        BY <1>5 DEF Cancel, TypeOK, ModeType, Entry
    <2>2. Enter(c, "over") /\ server' = server
        BY <1>5 DEF Cancel
    <2>3. deletes \subseteq deletes' /\ orphans \subseteq orphans'
        BY <1>5 DEF Cancel, Delete
    <2>4. (At(c, "poll") => c \in deletes') /\ (At(c, "posted") => c \in orphans')
        BY <1>5 DEF Cancel, Delete
    <2> HIDE DEF c
    <2>5. Task' = Task /\ \A o \in Task \ {c} : tasks'[o] = tasks[o]
        BY <2>1, <2>2, EnterKeeps DEF Stages
    <2>6. Len(tasks') = Len(tasks)
        BY <2>2 DEF Enter
    <2> QED
        BY <2>1, <2>2, <2>3, <2>4, <2>5, <2>6 DEF At
<1>6. CASE \E t \in Task : Worker(t)
    <2> PICK t \in Task : Worker(t)
        BY <1>6
    <2>1. \E stage \in Stages : Enter(t, stage)
        BY DEF Worker, Post, Submitted, SubmitErr, PollDone, PollErr, PollEnd, Stages
    <2>2. Task' = Task /\ \A o \in Task \ {t} : tasks'[o] = tasks[o]
        BY <2>1, EnterKeeps
    <2>3. Len(tasks') = Len(tasks) /\ t \in TraceIds /\ t <= Len(tasks) /\ Task \subseteq TraceIds
        BY <2>1, TaskIds DEF Enter, Task
    <2>4. \A o \in TraceIds \ {t} : server'[o] = server[o]
        BY <2>3 DEF Worker, Post, Submitted, SubmitErr, PollDone, PollErr, PollEnd, TypeOK,
                    ServerType
    <2>5. deletes \subseteq deletes' /\ orphans \subseteq orphans'
        BY DEF Worker, Post, Submitted, SubmitErr, PollDone, PollErr, PollEnd, Delete
    <2>6. Unborn'
        BY <2>3, <2>4 DEF TraceIds
    <2>7. At(t, "posted")' \/ At(t, "poll")' \/ t \in deletes' \/ t \in orphans'
              \/ server'[t].query # "open"
        <3>1. CASE Post(t)
            BY <3>1, EnterKeeps DEF Post, Stages
        <3>2. CASE Submitted(t)
            BY <3>2, EnterKeeps DEF Submitted, Stages
        <3>3. CASE SubmitErr(t)
            <4>1. At(t, "posted") => t \in orphans'
                BY <3>3 DEF SubmitErr
            <4>2. At(t, "call") => ~At(t, "posted") /\ ~At(t, "poll")
                BY DEF At
            <4>3. server' = server /\ (At(t, "call") \/ At(t, "posted"))
                BY <3>3 DEF SubmitErr
            <4> QED
                BY <4>1, <4>2, <4>3, <2>5
        <3>4. CASE PollDone(t) \/ PollErr(t)
            BY <3>4 DEF PollDone, PollErr, PollEnd, Delete
        <3> QED
            BY <3>1, <3>2, <3>3, <3>4 DEF Worker
    <2>8. QueryHeld'
        BY <2>2, <2>3, <2>4, <2>5, <2>7 DEF At
    <2> QED
        BY <2>6, <2>8
<1> QED
    BY <1>2, <1>3, <1>4, <1>5, <1>6 DEF Next, Key

LEMMA Invariance == Spec => []IInv
<1>1. IInv /\ [Next]_vars => IInv'
    <2> SUFFICES ASSUME IInv, [Next]_vars PROVE IInv'
        OBVIOUS
    <2>1. TypeOK'
        <3>1. CASE UNCHANGED vars
            BY <3>1 DEF IInv, TypeOK, ModeType, TaskType, ChannelType, ServerType, vars, Task
        <3> QED
            BY <3>1, WorkerType, OtherType, TakeType, KeyType DEF IInv, Next
    <2> QED
        BY <2>1, StepKnown, StepHeld DEF IInv
<1> QED
    BY <1>1, InitInv, PTL DEF Spec

-----------------------------------------------------------------------------
\* Type correctness: in particular, whatever the channel or the mode names is a
\* task that was spawned.
THEOREM TypeCorrect == Spec => []TypeOK
BY Invariance, PTL DEF IInv

\* LineageQueryGuard and DeleteLineageQuery: a query on NiFi has a task that will
\* drop its guard or a DELETE on its way, or is one of the stated exceptions.
THEOREM QueriesHeld == Spec => []QueryHeld
BY Invariance, PTL DEF IInv

\* apply_payload: a trace that knows its query opens the timeline of the flowfile
\* it was asked for, in whatever order the answers of older traces come.
THEOREM KnownShown == Spec => ShowsTheKnown
<1>1. IInv /\ [Next]_vars =>
          [mode.is = "running" /\ mode.query # NoTask /\ mode'.is = "lineage"
             => mode'.uuid = mode.uuid]_vars
    BY StepShows DEF IInv
<1> QED
    BY <1>1, Invariance, PTL DEF Spec, ShowsTheKnown

-----------------------------------------------------------------------------
(* A running trace is waited for: the safety half of TraceEnds.            *)

InQueue(q, t, what) == \E k \in DOMAIN q : q[k] = [task |-> t, what |-> what]

\* A message that ends the trace t is on its way, or its task is at work.
Ending(ts, q, t) ==
    \/ ts[t].stage # "over"
    \/ InQueue(q, t, "done") \/ InQueue(q, t, "failed") \/ InQueue(q, t, "refused")

\* The announcement of t is still to come.
Coming(q, u, t) == t \in u \/ InQueue(q, t, "started")

SaidOnce(q) == \A j, k \in DOMAIN q : q[j] = q[k] /\ q[j].what = "started" => j = k

\* A trace is announced once.
AnnouncedOnce ==
    /\ SaidOnce(queue)
    /\ \A t \in Task : t \in unsaid => ~InQueue(queue, t, "started")
    /\ \A t \in Task : Coming(queue, unsaid, t) => ~Waiting(t)

ComingEnds ==
    \A t \in Task : Coming(queue, unsaid, t) => t \in early \/ Ending(tasks, queue, t)

\* Nobody has heard of a query whose submission is not over or has failed.
RefusedUnknown ==
    \A t \in Task :
        /\ InQueue(queue, t, "refused") => At(t, "over")
        /\ At(t, "call") \/ At(t, "posted") \/ InQueue(queue, t, "refused") =>
               ~InQueue(queue, t, "submitted") /\ ~(mode.is = "running" /\ mode.query = t)

TraceIsServed ==
    \A t \in Task : Waiting(t) /\ OwnQuery(t) /\ t \notin early => Ending(tasks, queue, t)

ServedInv == AnnouncedOnce /\ ComingEnds /\ RefusedUnknown /\ TraceIsServed

LEMMA Told ==
    ASSUME TypeOK, NEW t, NEW what, Tell(t, what)
    PROVE  /\ \A o, x : InQueue(queue', o, x) <=> InQueue(queue, o, x) \/ (o = t /\ x = what)
           /\ SaidOnce(queue) /\ (what = "started" => ~InQueue(queue, t, "started"))
                  => SaidOnce(queue')
<1> DEFINE m == [task |-> t, what |-> what]
<1>1. queue \in Seq(Messages) /\ queue' = Append(queue, m)
    BY DEF TypeOK, ChannelType, Messages, Tell
<1>2. m.what = what
    OBVIOUS
<1>3. \A o, x : m = [task |-> o, what |-> x] <=> o = t /\ x = what
    OBVIOUS
<1> HIDE DEF m
<1>4. /\ Len(queue) \in Nat /\ DOMAIN queue = 1 .. Len(queue)
      /\ DOMAIN queue' = 1 .. Len(queue) + 1
      /\ queue'[Len(queue) + 1] = m
      /\ \A k \in 1 .. Len(queue) : queue'[k] = queue[k]
    BY <1>1
<1>5. ASSUME NEW o, NEW x
      PROVE  InQueue(queue', o, x) <=> InQueue(queue, o, x) \/ (o = t /\ x = what)
    <2> DEFINE n == [task |-> o, what |-> x]
    <2>1. m = n <=> o = t /\ x = what
        BY <1>3
    <2>2. (\E k \in DOMAIN queue' : queue'[k] = n) <=> (\E k \in DOMAIN queue : queue[k] = n) \/ m = n
        <3> HIDE DEF n
        <3> QED
            BY <1>4
    <2> QED
        BY <2>1, <2>2, Zenon DEF InQueue
<1>6. ASSUME SaidOnce(queue), what = "started" => ~InQueue(queue, t, "started"),
             NEW j \in DOMAIN queue', NEW k \in DOMAIN queue',
             queue'[j] = queue'[k], queue'[j].what = "started"
      PROVE  j = k
    <2>1. CASE j \in DOMAIN queue /\ k \in DOMAIN queue
        BY <1>4, <1>6, <2>1 DEF SaidOnce
    <2>2. ASSUME NEW i \in DOMAIN queue, queue[i] = m PROVE what # "started"
        BY <1>3, <1>6, <2>2 DEF InQueue
    <2> QED
        BY <1>2, <1>4, <1>6, <2>1, <2>2
<1> QED
    BY <1>5, <1>6 DEF SaidOnce

LEMMA Taken ==
    ASSUME TypeOK, NEW what, Taking(what)
    PROVE  /\ \A o, x : InQueue(queue', o, x) => InQueue(queue, o, x)
           /\ \A o, x : InQueue(queue, o, x) => InQueue(queue', o, x) \/ (o = Sender /\ x = what)
           /\ InQueue(queue, Sender, what)
           /\ SaidOnce(queue) => /\ SaidOnce(queue')
                                 /\ what = "started" => ~InQueue(queue', Sender, "started")
<1>1. queue \in Seq(Messages) /\ queue # <<>> /\ queue' = Tail(queue) /\ Head(queue).what = what
    BY DEF TypeOK, ChannelType, Messages, Taking
<1>2. /\ Len(queue) \in Nat /\ DOMAIN queue = 1 .. Len(queue) /\ 1 \in DOMAIN queue
      /\ DOMAIN queue' = 1 .. Len(queue) - 1
      /\ Head(queue) = queue[1] /\ queue[1] \in Messages
      /\ \A k \in 1 .. Len(queue) - 1 : queue'[k] = queue[k + 1]
    BY <1>1
<1>3. queue[1] = [task |-> Sender, what |-> what]
    BY <1>1, <1>2 DEF Messages, Sender
<1>4. \A k \in DOMAIN queue' : k + 1 \in DOMAIN queue /\ queue'[k] = queue[k + 1]
    BY <1>2
<1>5. \A k \in DOMAIN queue : k = 1 \/ (k - 1 \in DOMAIN queue' /\ queue'[k - 1] = queue[k])
    BY <1>2
<1>6. ASSUME NEW o, NEW x, InQueue(queue', o, x) PROVE InQueue(queue, o, x)
    BY <1>4, <1>6 DEF InQueue
<1>7. ASSUME NEW o, NEW x, InQueue(queue, o, x)
      PROVE  InQueue(queue', o, x) \/ (o = Sender /\ x = what)
    BY <1>3, <1>5, <1>7 DEF InQueue
<1>8. InQueue(queue, Sender, what)
    BY <1>2, <1>3 DEF InQueue
<1>9. ASSUME SaidOnce(queue)
      PROVE  SaidOnce(queue') /\ (what = "started" => ~InQueue(queue', Sender, "started"))
    <2>1. ASSUME NEW j \in DOMAIN queue', NEW k \in DOMAIN queue',
                 queue'[j] = queue'[k], queue'[j].what = "started"
          PROVE  j = k
        <3>1. j + 1 = k + 1
            BY <1>4, <1>9, <2>1 DEF SaidOnce
        <3> QED
            BY <1>2, <3>1
    <2>2. ASSUME what = "started", NEW k \in DOMAIN queue', queue'[k] = [task |-> Sender, what |-> what]
          PROVE  FALSE
        <3>1. k + 1 = 1
            BY <1>2, <1>3, <1>4, <1>9, <2>2 DEF SaidOnce
        <3> QED
            BY <1>2, <3>1
    <2> QED
        BY <2>1, <2>2 DEF SaidOnce, InQueue
<1> QED
    BY <1>6, <1>7, <1>8, <1>9

LEMMA WorkerServed ==
    ASSUME TypeOK, ServedInv, NEW t \in Task, Worker(t)
    PROVE  ServedInv'
<1> USE DEF ServedInv
<1>1. UNCHANGED <<mode, unsaid, early>>
    BY DEF Worker, Post, Submitted, SubmitErr, PollDone, PollErr, PollEnd
<1>2. PICK stage \in Stages : Enter(t, stage)
    BY DEF Worker, Post, Submitted, SubmitErr, PollDone, PollErr, PollEnd, Stages
<1>3. /\ Task' = Task
      /\ \A o \in Task \ {t} : tasks'[o] = tasks[o]
      /\ tasks'[t].stage = stage
    BY <1>2, EnterKeeps DEF At
\* What is said, if anything, and by a task at which stage.
<1>4. PICK what \in Words \cup {"none"} :
        /\ what \notin {"none", "started"} => Tell(t, what)
        /\ what = "none" => queue' = queue
        /\ \/ what = "none" /\ stage = "posted" /\ At(t, "call")
           \/ what = "submitted" /\ stage = "poll" /\ At(t, "posted")
           \/ what = "refused" /\ stage = "over" /\ (At(t, "call") \/ At(t, "posted"))
           \/ what \in {"done", "failed"} /\ stage = "over" /\ At(t, "poll")
    <2>1. CASE Post(t)
        BY <1>3, <2>1, EnterKeeps DEF Post, At, Stages, Words
    <2>2. CASE Submitted(t)
        BY <1>3, <2>2, EnterKeeps DEF Submitted, At, Stages, Words
    <2>3. CASE SubmitErr(t)
        BY <1>3, <2>3, EnterKeeps DEF SubmitErr, At, Stages, Words
    <2>4. CASE PollDone(t) \/ PollErr(t)
        BY <1>3, <2>4, EnterKeeps DEF PollDone, PollErr, PollEnd, At, Stages, Words
    <2> QED
        BY <2>1, <2>2, <2>3, <2>4 DEF Worker
<1>5. \A o, x : x # "none" =>
          (InQueue(queue', o, x) <=> InQueue(queue, o, x) \/ (o = t /\ x = what))
    BY <1>4, Told
<1>6. SaidOnce(queue')
    BY <1>4, Told DEF AnnouncedOnce
<1>7. what # "started"
    BY <1>4
<1>8. AnnouncedOnce'
    BY <1>1, <1>3, <1>5, <1>6, <1>7 DEF AnnouncedOnce, Coming, Waiting
<1>9. \A o \in Task : Ending(tasks, queue, o) => Ending(tasks', queue', o)
    BY <1>3, <1>4, <1>5 DEF Ending
<1>10. ComingEnds'
    BY <1>1, <1>3, <1>5, <1>7, <1>9 DEF ComingEnds, Coming
<1>11. TraceIsServed'
    BY <1>1, <1>3, <1>9 DEF TraceIsServed, Waiting, OwnQuery
<1>12. ASSUME NEW o \in Task
       PROVE  /\ InQueue(queue', o, "refused") => tasks'[o].stage = "over"
              /\ \/ tasks'[o].stage = "call" \/ tasks'[o].stage = "posted"
                 \/ InQueue(queue', o, "refused")
                 => ~InQueue(queue', o, "submitted") /\ ~(mode'.is = "running" /\ mode'.query = o)
    <2>1. CASE o # t
        BY <1>1, <1>3, <1>5, <2>1 DEF RefusedUnknown, At
    <2>2. CASE o = t
        BY <1>1, <1>3, <1>4, <1>5, <2>2 DEF RefusedUnknown, At
    <2> QED
        BY <2>1, <2>2
<1>13. RefusedUnknown'
    BY <1>3, <1>12 DEF RefusedUnknown, At
<1> QED
    BY <1>8, <1>10, <1>11, <1>13

LEMMA AnnounceServed ==
    ASSUME TypeOK, ServedInv, NEW t \in Task, Announce(t)
    PROVE  ServedInv'
<1> USE DEF ServedInv
<1>1. /\ t \in unsaid /\ unsaid' = unsaid \ {t} /\ UNCHANGED <<mode, tasks, early>>
      /\ Tell(t, "started")
    BY DEF Announce
<1>2. Task' = Task
    BY <1>1 DEF Task
<1>3. \A o, x : InQueue(queue', o, x) <=> InQueue(queue, o, x) \/ (o = t /\ x = "started")
    BY <1>1, Told
<1>4. \A o \in Task : Coming(queue', unsaid', o) <=> Coming(queue, unsaid, o)
    BY <1>1, <1>3 DEF Coming
<1>5. SaidOnce(queue')
    BY <1>1, Told DEF AnnouncedOnce
<1>6. AnnouncedOnce'
    BY <1>1, <1>2, <1>3, <1>4, <1>5 DEF AnnouncedOnce, Waiting
<1>7. \A o \in Task : Ending(tasks, queue, o) => Ending(tasks', queue', o)
    BY <1>1, <1>3 DEF Ending
<1>8. ComingEnds' /\ TraceIsServed'
    BY <1>1, <1>2, <1>4, <1>7 DEF ComingEnds, TraceIsServed, Waiting, OwnQuery
<1>9. RefusedUnknown'
    BY <1>1, <1>2, <1>3 DEF RefusedUnknown, At
<1> QED
    BY <1>6, <1>8, <1>9

LEMMA QuietServed ==
    ASSUME TypeOK, ServedInv, mode' = mode \/ mode' = Entry,
           UNCHANGED <<tasks, unsaid, early>>,
           UNCHANGED queue \/ Tell(NoTask, "switched")
    PROVE  ServedInv'
<1> USE DEF ServedInv
<1>1. Task' = Task /\ NoTask \notin Task
    BY DEF Task, NoTask
<1>2. \A o \in Task : \A x : InQueue(queue', o, x) <=> InQueue(queue, o, x)
    BY <1>1, Told
<1>3. SaidOnce(queue')
    BY Told DEF AnnouncedOnce
<1>4. /\ \A o \in Task : mode'.is = "running" /\ mode'.task = o => Waiting(o)
      /\ mode'.is = "running" => mode' = mode
    BY DEF Entry, Waiting
<1>5. AnnouncedOnce'
    BY <1>1, <1>2, <1>3, <1>4 DEF AnnouncedOnce, Waiting, Coming
<1>6. ComingEnds' /\ TraceIsServed'
    BY <1>1, <1>2, <1>4 DEF ComingEnds, TraceIsServed, Ending, Coming, Waiting, OwnQuery
<1>7. RefusedUnknown'
    BY <1>1, <1>2, <1>4 DEF RefusedUnknown, At
<1> QED
    BY <1>5, <1>6, <1>7

LEMMA TraceServed ==
    ASSUME TypeOK, ServedInv, Len(tasks) < MaxTraces, NEW u \in Uuids[Len(tasks) + 1], Trace(u)
    PROVE  ServedInv'
<1> USE DEF ServedInv
<1> DEFINE n == Len(tasks) + 1
<1>1. /\ Len(tasks) \in Nat /\ Len(tasks') = n
      /\ \A o \in Task : tasks'[o] = tasks[o]
    BY AppendKeeps, TaskIds
<1>2. /\ UNCHANGED <<mode, queue, early>> /\ unsaid' = unsaid \cup {n}
      /\ tasks' = Append(tasks, [uuid |-> u, stage |-> "call"])
    BY DEF Trace
<1>3. tasks'[n].stage = "call"
    <2>1. tasks \in Seq(TaskRecords)
        BY DEF TypeOK, TaskType, TaskRecords, Stages
    <2> QED
        BY <1>2, <2>1
<1>4. Task' = Task \cup {n} /\ n \notin Task
    BY <1>1 DEF Task
<1>5. n # NoTask
    BY <1>1 DEF NoTask
<1> HIDE DEF n
<1>6. \A x : ~InQueue(queue, n, x)
    <2>1. queue \in Seq(Messages)
        BY DEF TypeOK, ChannelType, Messages
    <2>2. \A k \in DOMAIN queue : queue[k].task \in Task \cup {NoTask}
        BY <2>1 DEF Messages
    <2> QED
        BY <1>4, <1>5, <2>2 DEF InQueue
<1>7. mode.is = "running" => mode.query # n /\ mode.task # n
    BY <1>4, <1>5 DEF TypeOK, ModeType, Entry
<1>8. AnnouncedOnce'
    <2>1. ASSUME NEW o \in Task, Coming(queue', unsaid', o) PROVE ~Waiting(o)
        BY <1>2, <1>4, <2>1 DEF AnnouncedOnce, Coming
    <2> QED
        BY <1>2, <1>4, <1>6, <1>7, <2>1 DEF AnnouncedOnce, Waiting
<1>9. ComingEnds' /\ TraceIsServed'
    BY <1>1, <1>2, <1>3, <1>4, <1>7
    DEF ComingEnds, TraceIsServed, Ending, Coming, Waiting, OwnQuery
<1>10. RefusedUnknown'
    <2>1. ASSUME NEW o \in Task
          PROVE  /\ InQueue(queue', o, "refused") => tasks'[o].stage = "over"
                 /\ \/ tasks'[o].stage = "call" \/ tasks'[o].stage = "posted"
                    \/ InQueue(queue', o, "refused")
                    => ~InQueue(queue', o, "submitted") /\ ~(mode'.is = "running" /\ mode'.query = o)
        BY <1>1, <1>2 DEF RefusedUnknown, At
    <2>2. /\ ~InQueue(queue', n, "refused") /\ ~InQueue(queue', n, "submitted")
          /\ ~(mode'.is = "running" /\ mode'.query = n)
        BY <1>2, <1>6, <1>7
    <2> QED
        BY <1>4, <2>1, <2>2 DEF RefusedUnknown, At
<1> QED
    BY <1>8, <1>9, <1>10

\* The task Esc aborts is that of the running trace, so no announcement of it is
\* still to come.
LEMMA CancelServed ==
    ASSUME TypeOK, ServedInv, Cancel
    PROVE  ServedInv'
<1> USE DEF ServedInv
<1> DEFINE c == mode.task
<1>1. c \in Task /\ Waiting(c)
    BY DEF Cancel, TypeOK, ModeType, Entry, Waiting
<1>2. /\ Enter(c, "over") /\ UNCHANGED <<unsaid, queue, early>>
      /\ mode' = Entry
    BY DEF Cancel
<1> HIDE DEF c
<1>3. /\ Task' = Task
      /\ \A o \in Task \ {c} : tasks'[o] = tasks[o]
      /\ tasks'[c].stage = "over"
    BY <1>1, <1>2, EnterKeeps DEF Stages, At
<1>4. mode'.is # "running"
    BY <1>2 DEF Entry
<1>5. AnnouncedOnce' /\ TraceIsServed'
    BY <1>2, <1>3, <1>4 DEF AnnouncedOnce, TraceIsServed, Waiting
<1>6. ComingEnds'
    <2>1. \A o \in Task : Coming(queue, unsaid, o) => o # c
        BY <1>1 DEF AnnouncedOnce
    <2> QED
        BY <1>2, <1>3, <2>1 DEF ComingEnds, Ending, Coming
<1>7. RefusedUnknown'
    BY <1>2, <1>3, <1>4 DEF RefusedUnknown, At
<1> QED
    BY <1>5, <1>6, <1>7

\* A message that ends a trace ends the one that runs, if that may take it for its
\* own; the trace it belongs to is early if it was not announced.
LEMMA TakeServed ==
    ASSUME TypeOK, ServedInv, Take
    PROVE  ServedInv'
<1> USE DEF ServedInv
<1>1. UNCHANGED <<tasks, unsaid>> /\ early \subseteq early'
    BY DEF Take, TakeStarted, TakeSubmitted, TakeDone, TakeFailed, TakeSwitched, EndsEarly
<1>2. Task' = Task
    BY <1>1 DEF Task
<1>3. PICK what \in Words \cup {"switched"} : Taking(what) /\
          \/ what = "started" /\ TakeStarted
          \/ what = "submitted" /\ TakeSubmitted
          \/ what = "done" /\ TakeDone
          \/ what \in {"failed", "refused"} /\ TakeFailed
          \/ what = "switched" /\ TakeSwitched
    BY DEF Take, TakeStarted, TakeSubmitted, TakeDone, TakeFailed, TakeSwitched, Words
<1>4. /\ \A o, x : InQueue(queue', o, x) => InQueue(queue, o, x)
      /\ \A o, x : InQueue(queue, o, x) => InQueue(queue', o, x) \/ (o = Sender /\ x = what)
      /\ InQueue(queue, Sender, what)
    BY <1>3, Taken
<1>5. SaidOnce(queue') /\ (what = "started" => ~InQueue(queue', Sender, "started"))
    BY <1>3, Taken DEF AnnouncedOnce
<1>6. \A o \in Task : Coming(queue', unsaid', o) => Coming(queue, unsaid, o)
    BY <1>1, <1>4 DEF Coming
<1>7. what # "switched" => Sender \in Task
    <2>1. Head(queue) \in Messages /\ Head(queue).what = what
        BY <1>3, HeadMessage DEF Taking
    <2> QED
        BY <2>1 DEF Messages, Sender
\* What the step does to the mode.
<1>8. /\ mode.is = "running" => mode = Running(mode.uuid, mode.task) \/ mode.query # NoTask
      /\ mode'.is = "running" =>
            \/ mode' = mode
            \/ what = "started" /\ mode'.task = Sender /\ mode'.query = NoTask
            \/ /\ what = "submitted" /\ mode.is = "running" /\ mode.query = NoTask
               /\ mode'.task = mode.task /\ mode'.query = Sender
    <2>1. mode.is = "running" =>
              mode \in [is : {"running"}, uuid : Flowfiles, query : Task \cup {NoTask}, task : Task]
        BY DEF TypeOK, ModeType, Entry
    <2>2. CASE TakeStarted /\ what = "started"
        BY <2>1, <2>2 DEF TakeStarted, Running
    <2>3. CASE TakeSubmitted /\ what = "submitted"
        BY <2>1, <2>3 DEF TakeSubmitted, Running
    <2>4. CASE TakeDone \/ TakeFailed \/ TakeSwitched
        BY <2>1, <2>4 DEF TakeDone, TakeFailed, TakeSwitched, Timeline, Entry, Running
    <2> QED
        BY <1>3, <2>2, <2>3, <2>4
<1>9. what = "started" => Coming(queue, unsaid, Sender) /\ Sender \notin unsaid
    BY <1>4, <1>7 DEF Coming, AnnouncedOnce
<1>10. AnnouncedOnce'
    BY <1>1, <1>2, <1>4, <1>5, <1>6, <1>8, <1>9 DEF AnnouncedOnce, Waiting, Coming
<1>11. what \in {"done", "failed", "refused"} /\ Coming(queue, unsaid, Sender) => Sender \in early'
    <2>1. Coming(queue, unsaid, Sender) => ~Announced(Sender)
        BY DEF Coming, Announced, InQueue
    <2>2. what \in {"done", "failed", "refused"} => early' = EndsEarly
        BY <1>3 DEF TakeDone, TakeFailed
    <2> QED
        BY <2>1, <2>2 DEF EndsEarly
<1>12. \A o \in Task : Ending(tasks, queue, o) =>
           Ending(tasks', queue', o) \/ (o = Sender /\ what \in {"done", "failed", "refused"})
    BY <1>1, <1>4 DEF Ending
<1>13. ComingEnds'
    BY <1>1, <1>2, <1>6, <1>11, <1>12 DEF ComingEnds
<1>14. RefusedUnknown'
    BY <1>1, <1>2, <1>4, <1>7, <1>8 DEF RefusedUnknown, At, NoTask, Task
<1>15. ASSUME NEW o \in Task, mode'.is = "running", mode'.task = o,
              mode'.query \in {NoTask, o}, o \notin early'
       PROVE  Ending(tasks', queue', o)
    <2>1. CASE what = "started" /\ o = Sender
        BY <1>1, <1>9, <1>12, <1>15, <2>1 DEF ComingEnds
    <2>2. CASE ~(what = "started" /\ o = Sender)
        <3>1. Waiting(o) /\ OwnQuery(o) /\ o \notin early
            BY <1>1, <1>8, <1>15, <2>2 DEF Waiting, OwnQuery
        <3>2. Ending(tasks, queue, o)
            BY <3>1 DEF TraceIsServed
        <3>3. ASSUME o = Sender, what \in {"done", "failed", "refused"} PROVE FALSE
            <4>1. mode' = mode
                BY <1>8, <1>15, <3>3
            <4>2. what = "refused" => mode.query = NoTask
                BY <1>4, <3>1, <3>3 DEF RefusedUnknown, Waiting, OwnQuery
            <4>3. Expected(Sender) /\ (what = "refused" => Expected(NoTask))
                BY <3>1, <3>3, <4>2 DEF Expected, Waiting, OwnQuery
            <4>4. mode'.is # "running"
                BY <1>3, <3>3, <4>3 DEF TakeDone, TakeFailed, Taking, Timeline, Entry
            <4> QED
                BY <1>15, <4>4
        <3> QED
            BY <1>12, <3>2, <3>3
    <2> QED
        BY <2>1, <2>2
<1>16. TraceIsServed'
    BY <1>2, <1>15 DEF TraceIsServed, Waiting, OwnQuery
<1> QED
    BY <1>10, <1>13, <1>14, <1>16

\* A running trace that was announced before its result was in, and has not taken
\* another trace's query for its own, is waited for: its task is at work, or a
\* message that ends it is in the channel, whatever traces were cancelled or
\* overtaken before (apply_payload, start_lineage).
THEOREM TracesStayServed == Spec => []TraceIsServed
<1>1. Init => ServedInv
    BY DEF Init, ServedInv, AnnouncedOnce, SaidOnce, ComingEnds, RefusedUnknown, TraceIsServed,
           Task, Entry, Waiting
<1>2. TypeOK /\ ServedInv /\ [Next]_vars => ServedInv'
    <2> SUFFICES ASSUME TypeOK, ServedInv, [Next]_vars PROVE ServedInv'
        OBVIOUS
    <2>1. CASE SwitchClient \/ Leave \/ (\E t \in deletes : DeleteEnd(t)) \/ UNCHANGED vars
        BY <2>1, QuietServed DEF SwitchClient, Leave, DeleteEnd, vars
    <2> QED
        BY <2>1, WorkerServed, AnnounceServed, TraceServed, CancelServed, TakeServed DEF Next, Key
<1> QED
    BY <1>1, <1>2, TypeCorrect, PTL DEF Spec, ServedInv

-----------------------------------------------------------------------------
(* The content viewer.  The inductive invariant ModalInv relates the open  *)
(* viewer to the jobs under way, whatever viewer started them:             *)
(*   - each side holds a prefix of its content (Good); a chunk is applied  *)
(*     only where it continues one, so those of earlier viewers are        *)
(*     harmless (ExtendedOk);                                              *)
(*   - what a flag waits for is among the jobs (SideWaits, DiffWaits): a   *)
(*     job leaves the bag only in the step that clears the flag, or that   *)
(*     sets lost;                                                          *)
(*   - the diffs under way are of earlier generations or of what is shown  *)
(*     (DiffsOk), once no diff of an earlier viewer is among them (heir).  *)
(*                                                                         *)
(* The handlers end alike, so one lemma serves each ending: ConcludeStep   *)
(* (another look at the diff), DiscardStep, EndStep, FireStep (fetches).   *)

HIDE TracerAssumption

Decodes == [kind : Renders, of : Seq(Nat)]
Buffers == [loaded : Seq(Nat), decoded : Decodes, full : BOOLEAN, hit : BOOLEAN,
            flying : BOOLEAN, ceiling : Nat, decoding : BOOLEAN, prettying : BOOLEAN]
Modals  == [event : Events, tab : Tabs, diffable : {"Pending", "Ok", "No"},
            buf : [Sides -> Buffers], cache : (Decodes \X Decodes) \cup {NoDiff},
            gen : Nat, inflight : Nat]

\* b holds the beginning of side s of event e, no more than its ceiling admits.
BufferOk(e, s, b) ==
    /\ b \in Buffers
    /\ \A i \in 1..Len(b.loaded) : b.loaded[i] = i
    /\ Len(b.loaded) <= Size[e][s] /\ Len(b.loaded) <= CapOf(b)
    /\ b.ceiling = Unknown => b.loaded = <<>> /\ ~b.full
    /\ b.full => Len(b.loaded) \in {Size[e][s], CapOf(b)}

Good(m) ==
    m \in Modals /\ m.inflight <= m.gen /\ \A s \in Sides : BufferOk(m.event, s, m.buf[s])

JobOk(j) ==
    /\ j.kind \in {"chunk", "decode", "pretty", "diff"} /\ j.event \in Events
    /\ j.kind = "chunk" => j.side \in Sides /\ j.offset \in Nat /\ j.len \in Nat
    /\ j.kind \in {"decode", "pretty"} => j.side \in Sides /\ j.bytes \in Seq(Nat)
    /\ j.kind = "diff" => j.gen \in Nat /\ j.diff \in Decodes \X Decodes

\* What side s of event e, of buffer b, and a viewer m wait for is among the
\* jobs K; l: a result was lost.
SideWait(e, s, b, K, l) ==
    /\ b.flying => \E j \in K : /\ j.kind = "chunk" /\ j.event = e /\ j.side = s
                                /\ j.offset = Len(b.loaded)
    /\ b.decoding /\ ~l => \E j \in K : j.kind = "decode" /\ j.event = e /\ j.side = s
    /\ b.prettying /\ ~l => \E j \in K : j.kind = "pretty" /\ j.event = e /\ j.side = s
SideWaits(m, K, l) == \A s \in Sides : SideWait(m.event, s, m.buf[s], K, l)
DiffWaits(m, K, l) ==
    m.inflight = m.gen /\ m.gen > 0 /\ ~l =>
        \E j \in K : j.kind = "diff" /\ j.event = m.event /\ j.gen = m.gen

\* The diffs of K are of earlier generations, or of what m shows.
DiffsOk(m, K) ==
    /\ m.cache # NoDiff => m.cache = DiffOf(m)
    /\ \A j \in K : j.kind = "diff" /\ j.event = m.event =>
          j.gen <= m.gen /\ (j.gen = m.gen => j.diff = DiffOf(m))

ModalInv ==
    /\ opens \in 0..MaxOpens /\ lost \in BOOLEAN /\ heir \in BOOLEAN
    /\ \A j \in BagToSet(jobs) : JobOk(j)
    /\ IsOpen => /\ Good(modal)
                 /\ SideWaits(modal, BagToSet(jobs), lost)
                 /\ DiffWaits(modal, BagToSet(jobs), lost)
                 /\ ~heir => DiffsOk(modal, BagToSet(jobs))

USE ModalAssumption

\* The set of jobs after some are spawned, or one ends.
LEMMA SpawnedSet ==
    ASSUME NEW b, NEW c
    PROVE  BagToSet(Spawned(b, c)) = BagToSet(b) \cup c
BY DEF Spawned, BagToSet, (+), SetToBag

LEMMA RemovedSet ==
    ASSUME NEW b, NEW x
    PROVE  /\ BagToSet(BagRemove(b, x)) \subseteq BagToSet(b)
           /\ BagToSet(b) \ {x} \subseteq BagToSet(BagRemove(b, x))
BY DEF BagToSet, BagRemove

\* What the operators that make a new viewer keep.
LEMMA SetSideOk ==
    ASSUME NEW m, Good(m), NEW s \in Sides, NEW b, BufferOk(m.event, s, b),
           NEW n, n = SetSide(m, s, b)
    PROVE  /\ Good(n) /\ n.event = m.event /\ n.gen = m.gen
           /\ n.inflight = m.inflight /\ n.cache = m.cache
           /\ n.buf[s] = b
           /\ \A o \in Sides \ {s} : n.buf[o] = m.buf[o]
<1>1. m \in Modals /\ m.buf \in [Sides -> Buffers] /\ b \in Buffers
    BY DEF Good, BufferOk, Modals
<1>2. n = [m EXCEPT !.buf = [m.buf EXCEPT ![s] = b]]
    BY DEF SetSide
<1>3. [m.buf EXCEPT ![s] = b] \in [Sides -> Buffers]
    BY <1>1
<1>4. n \in Modals
    BY <1>1, <1>2, <1>3 DEF Modals
<1>5. /\ n.buf = [m.buf EXCEPT ![s] = b] /\ n.event = m.event /\ n.gen = m.gen
      /\ n.inflight = m.inflight /\ n.cache = m.cache
    BY <1>1, <1>2 DEF Modals
<1>6. n.buf[s] = b /\ \A o \in Sides \ {s} : n.buf[o] = m.buf[o]
    BY <1>1, <1>5
<1>7. Good(n)
    BY <1>4, <1>5, <1>6 DEF Good
<1> QED
    BY <1>5, <1>6, <1>7

LEMMA InvalidatedOk ==
    ASSUME NEW m, Good(m)
    PROVE  /\ Good(Invalidated(m))
           /\ Invalidated(m).event = m.event /\ Invalidated(m).buf = m.buf
           /\ Invalidated(m).gen = m.gen + 1 /\ Invalidated(m).inflight = m.inflight
           /\ Invalidated(m).cache = NoDiff
           /\ m.inflight <= m.gen /\ m.gen \in Nat /\ m.inflight \in Nat
<1>1. m \in Modals /\ m.gen \in Nat /\ m.inflight \in Nat /\ m.inflight <= m.gen
    BY DEF Good, Modals
<1>2. Invalidated(m) = [m EXCEPT !.cache = NoDiff, !.gen = m.gen + 1]
    BY DEF Invalidated
<1>3. Invalidated(m) \in Modals
    <2>1. NoDiff \in (Decodes \X Decodes) \cup {NoDiff} /\ m.gen + 1 \in Nat
        BY <1>1
    <2>2. [m EXCEPT !.cache = NoDiff] \in Modals
        BY <1>1, <2>1 DEF Modals
    <2>3. [[m EXCEPT !.cache = NoDiff] EXCEPT !.gen = m.gen + 1] \in Modals
        BY <2>1, <2>2 DEF Modals
    <2>4. Invalidated(m) = [[m EXCEPT !.cache = NoDiff] EXCEPT !.gen = m.gen + 1]
        BY <1>1, <1>2 DEF Modals
    <2> QED
        BY <2>3, <2>4
<1>4. /\ Invalidated(m).event = m.event /\ Invalidated(m).buf = m.buf
      /\ Invalidated(m).gen = m.gen + 1 /\ Invalidated(m).inflight = m.inflight
      /\ Invalidated(m).cache = NoDiff
    BY <1>1, <1>2 DEF Modals
<1>5. m.inflight <= m.gen + 1
    BY <1>1
<1> QED
    BY <1>1, <1>3, <1>4, <1>5 DEF Good

LEMMA ResolveType ==
    ASSUME NEW m, Good(m)
    PROVE  Resolve(m) \in {"Pending", "Ok", "No"}
<1>1. Mime[m.event] \in {"same", "none", "other"}
    BY DEF Good, Modals
<1>2. Comparable(m) \in {"Pending", "Ok", "No"}
    BY <1>1 DEF Comparable
<1> QED
    BY <1>2 DEF Resolve

\* take_pending_diff_compute changes the flags of the diff only, and starts at
\* most one, of what is shown.
LEMMA TakeDiffOk ==
    ASSUME NEW m, Good(m), NEW d, d = TakeDiff(m)
    PROVE  /\ Good(d.modal)
           /\ d.modal.event = m.event /\ d.modal.buf = m.buf
           /\ d.modal.gen = m.gen /\ d.modal.cache = m.cache
           /\ \/ d.modal.inflight = m.inflight /\ d.jobs = {}
              \/ d.modal.inflight = m.gen /\ d.jobs = {DiffJob(m.event, m.gen, DiffOf(m))}
<1> DEFINE n == [m EXCEPT !.diffable = Resolve(m)]
           k == [n EXCEPT !.inflight = n.gen]
<1>1. m \in Modals /\ m.gen \in Nat
    BY DEF Good, Modals
<1>2. n \in Modals
    BY <1>1, ResolveType DEF Modals
<1>3. n.event = m.event /\ n.buf = m.buf /\ n.gen = m.gen /\ n.cache = m.cache /\ n.inflight = m.inflight
    BY <1>1 DEF Modals
<1>4. k \in Modals /\ k.event = m.event /\ k.buf = m.buf /\ k.gen = m.gen /\ k.cache = m.cache
      /\ k.inflight = m.gen
    <2> HIDE DEF n
    <2> QED
        BY <1>1, <1>2, <1>3 DEF Modals
<1>5. Good(n) /\ Good(k)
    BY <1>1, <1>2, <1>3, <1>4 DEF Good
<1>6. DiffOf(n) = DiffOf(m)
    BY <1>3 DEF DiffOf
<1>7. \/ d = [modal |-> n, jobs |-> {}]
      \/ d = [modal |-> k, jobs |-> {DiffJob(m.event, m.gen, DiffOf(m))}]
    <2>1. \/ d = [modal |-> n, jobs |-> {}]
          \/ d = [modal |-> k, jobs |-> {DiffJob(n.event, n.gen, DiffOf(n))}]
        BY DEF TakeDiff
    <2> HIDE DEF n, k
    <2> QED
        BY <2>1, <1>3, <1>6
<1> HIDE DEF n, k
<1> QED
    BY <1>3, <1>4, <1>5, <1>7

\* Positions 1..n followed by those after n.
LEMMA PrefixGrows ==
    ASSUME NEW s \in Seq(Nat), NEW t \in Seq(Nat),
           \A i \in 1..Len(s) : s[i] = i, \A i \in 1..Len(t) : t[i] = Len(s) + i
    PROVE  /\ s \o t \in Seq(Nat) /\ Len(s \o t) = Len(s) + Len(t)
           /\ \A i \in 1..Len(s \o t) : (s \o t)[i] = i
<1>1. Len(s) \in Nat /\ Len(t) \in Nat
    BY LenProperties
<1>2. /\ s \o t \in Seq(Nat) /\ Len(s \o t) = Len(s) + Len(t)
      /\ \A i \in 1..Len(s) + Len(t) : (s \o t)[i] = IF i <= Len(s) THEN s[i] ELSE t[i - Len(s)]
    BY ConcatProperties
<1>3. ASSUME NEW i \in 1..Len(s) + Len(t)
      PROVE  (s \o t)[i] = i
    <2>1. CASE i <= Len(s)
        BY <1>1, <1>2, <2>1
    <2>2. CASE i > Len(s)
        <3>1. i - Len(s) \in 1..Len(t)
            BY <1>1, <2>2
        <3>2. t[i - Len(s)] = Len(s) + (i - Len(s))
            BY <3>1
        <3> QED
            BY <1>1, <1>2, <2>2, <3>2
    <2> QED
        BY <1>1, <2>1, <2>2
<1> QED
    BY <1>2, <1>3

\* What a chunk adds to the buffer it continues.
LEMMA ExtendedOk ==
    ASSUME NEW j, JobOk(j), j.kind = "chunk",
           NEW b, BufferOk(j.event, j.side, b), j.offset = Len(b.loaded)
    PROVE  BufferOk(j.event, j.side, Extended(b, j)) /\ ~Extended(b, j).flying
<1> DEFINE left == Size[j.event][j.side] - j.offset
           n    == IF left < 0 THEN 0 ELSE Least(left, j.len)
           bytes == Answer(j)
           cap  == IF b.ceiling # Unknown THEN b.ceiling
                   ELSE IF bytes # <<>> /\ Format[j.event][j.side] = "table"
                        THEN TabularCap ELSE TextCap
           all  == b.loaded \o bytes
           kept == SubSeq(all, 1, Least(Len(all), cap))
<1>1. /\ j.event \in Events /\ j.side \in Sides /\ j.offset \in Nat /\ j.len \in Nat
      /\ b.loaded \in Seq(Nat) /\ b.ceiling \in Nat /\ b.decoded \in Decodes
      /\ Len(b.loaded) \in Nat /\ Size[j.event][j.side] \in Nat
    BY LenProperties DEF JobOk, BufferOk, Buffers
<1>2. left \in Nat /\ n \in Nat /\ n <= left /\ n <= j.len /\ (n < j.len => n = left)
    BY <1>1 DEF BufferOk, Least
<1>3. bytes = Positions(j.offset, n)
    BY DEF Answer
<1>4. bytes \in Seq(Nat) /\ Len(bytes) = n /\ \A i \in 1..n : bytes[i] = j.offset + i
    <2> HIDE DEF n, bytes, left
    <2>1. \A i \in 1..n : j.offset + i \in Nat
        BY <1>1, <1>2
    <2> QED
        BY <1>2, <1>3, <2>1 DEF Positions
<1>5. cap \in Nat \ {0} /\ (b.ceiling # Unknown => cap = b.ceiling)
    BY <1>1 DEF Unknown
<1> HIDE DEF n, bytes, left, cap
<1>6. all \in Seq(Nat) /\ Len(all) = j.offset + n /\ \A i \in 1..Len(all) : all[i] = i
    <2>1. (\A i \in 1..Len(b.loaded) : b.loaded[i] = i)
          /\ \A i \in 1..Len(bytes) : bytes[i] = Len(b.loaded) + i
        BY <1>4 DEF BufferOk
    <2>2. /\ all \in Seq(Nat) /\ Len(all) = Len(b.loaded) + Len(bytes)
          /\ \A i \in 1..Len(all) : all[i] = i
        BY <1>1, <1>4, <2>1, PrefixGrows
    <2> QED
        BY <1>4, <2>2
<1> HIDE DEF all
<1>7. /\ kept \in Seq(Nat) /\ Len(kept) = Least(Len(all), cap)
      /\ \A i \in 1..Len(kept) : kept[i] = i
    <2> DEFINE l == Least(Len(all), cap)
    <2>1. Len(all) \in Nat
        BY <1>1, <1>2, <1>6
    <2>2. l \in Nat /\ l <= Len(all)
        BY <1>5, <2>1 DEF Least
    <2>3. \A i \in 1..l : all[i] \in Nat
        BY <1>6, <2>1, <2>2
    <2> HIDE DEF l
    <2>4. /\ SubSeq(all, 1, l) \in Seq(Nat) /\ Len(SubSeq(all, 1, l)) = l
          /\ \A i \in 1..l : SubSeq(all, 1, l)[i] = all[i]
        <3>1. CASE l = 0
            BY <2>1, <2>2, <3>1, SubSeqProperties
        <3>2. CASE l # 0
            BY <2>1, <2>2, <2>3, <3>2, SubSeqProperties
        <3> QED
            BY <3>1, <3>2
    <2>5. kept = SubSeq(all, 1, l)
        BY DEF l
    <2> HIDE DEF kept
    <2> QED
        BY <1>6, <2>1, <2>2, <2>4, <2>5 DEF l
<1> DEFINE x == Extended(b, j)
<1>8. x = [b EXCEPT !.loaded = kept, !.flying = FALSE, !.ceiling = cap,
                    !.hit  = b.hit \/ Len(all) >= cap,
                    !.full = b.full \/ Len(all) >= cap \/ Len(bytes) < j.len,
                    !.decoded = Classified(j, kept, b.decoded)]
    BY DEF Extended, cap, bytes, all
<1> HIDE DEF kept
<1>9. Classified(j, kept, b.decoded) \in Decodes
    BY <1>1, <1>7, EmptySeq DEF Classified, Decodes, Renders, Empty
<1>10. /\ x \in Buffers /\ x.loaded = kept /\ x.flying = FALSE /\ x.ceiling = cap
       /\ x.full = (b.full \/ Len(all) >= cap \/ Len(bytes) < j.len)
    <2>1. b \in Buffers
        BY DEF BufferOk
    <2>2. b.full \in BOOLEAN /\ b.hit \in BOOLEAN
        BY <2>1 DEF Buffers
    <2> QED
        BY <1>5, <1>7, <1>8, <1>9, <2>1, <2>2 DEF Buffers
<1>11. CapOf(x) = cap
    BY <1>5, <1>10 DEF CapOf, Unknown
<1> HIDE DEF x
<1>12. Len(kept) <= Size[j.event][j.side] /\ Len(kept) <= cap
    <2>1. Len(all) <= Size[j.event][j.side] /\ Len(all) \in Nat
        BY <1>1, <1>2, <1>6 DEF left
    <2> QED
        BY <1>1, <1>5, <1>7, <2>1 DEF Least
<1>13. ASSUME x.full
       PROVE  Len(kept) \in {Size[j.event][j.side], cap}
    <2>1. Len(all) = j.offset + n /\ Len(all) \in Nat
        BY <1>1, <1>2, <1>6
    <2>2. CASE Len(all) >= cap
        BY <1>5, <1>7, <2>1, <2>2 DEF Least
    <2>3. CASE Len(all) < cap
        <3>1. Len(kept) = Len(all)
            BY <1>5, <1>7, <2>1, <2>3 DEF Least
        <3>2. CASE b.full
            <4>1. Len(b.loaded) \in {Size[j.event][j.side], CapOf(b)} /\ b.ceiling # Unknown
                BY <3>2 DEF BufferOk
            <4>2. CapOf(b) = cap
                BY <1>5, <4>1 DEF CapOf
            <4>3. j.offset = Size[j.event][j.side]
                BY <1>1, <1>2, <1>5, <2>1, <2>3, <4>1, <4>2
            <4>4. n = 0
                BY <1>1, <1>2, <4>3 DEF left
            <4> QED
                BY <1>1, <2>1, <3>1, <4>3, <4>4
        <3>3. CASE Len(bytes) < j.len
            <4>1. n = left
                BY <1>2, <1>4, <3>3
            <4> QED
                BY <1>1, <2>1, <3>1, <4>1 DEF left
        <3>4. b.full \/ Len(bytes) < j.len
            <4>1. ~(Len(all) >= cap)
                BY <1>5, <2>1, <2>3
            <4> QED
                BY <1>10, <1>13, <4>1
        <3> QED
            BY <3>2, <3>3, <3>4
    <2> QED
        BY <1>5, <2>1, <2>2, <2>3
<1>14. cap # Unknown
    BY <1>5 DEF Unknown
<1>15. BufferOk(j.event, j.side, x)
    BY <1>7, <1>10, <1>11, <1>12, <1>13, <1>14 DEF BufferOk
<1> QED
    BY <1>10, <1>15 DEF x

Jobs == BagToSet(jobs)

\* Waiting is about an event and its buffers, and more jobs do no harm.
LEMMA WaitsAgree ==
    ASSUME NEW m, NEW n, NEW K, NEW L, NEW l, NEW k,
           n.event = m.event, n.buf = m.buf, K \subseteq L, l => k,
           SideWaits(m, K, l)
    PROVE  SideWaits(n, L, k)
BY DEF SideWaits, SideWait

LEMMA DiffOfType ==
    ASSUME NEW m, Good(m)
    PROVE  /\ DiffOf(m) \in Decodes \X Decodes
           /\ m.event \in Events /\ m.gen \in Nat /\ m.inflight \in Nat
           /\ JobOk(DiffJob(m.event, m.gen, DiffOf(m)))
<1>1. m.event \in Events /\ m.gen \in Nat /\ m.inflight \in Nat /\ \A s \in Sides : m.buf[s] \in Buffers
    BY DEF Good, Modals
<1>2. \A s \in Sides : m.buf[s].decoded \in Decodes
    BY <1>1 DEF Buffers
<1>3. DiffOf(m) \in Decodes \X Decodes
    BY <1>2 DEF DiffOf, Sides
<1> QED
    BY <1>1, <1>3 DEF JobOk, DiffJob

\* A handler that leaves m and spawns, and ends with take_pending_diff_compute.
LEMMA ConcludeStep ==
    ASSUME ModalInv, NEW j, NEW m, Good(m), NEW spawned, \A k \in spawned : JobOk(k),
           SideWaits(m, (Jobs \ {j}) \cup spawned, lost),
           DiffWaits(m, (Jobs \ {j}) \cup spawned, lost),
           ~heir => DiffsOk(m, Jobs \cup spawned),
           Conclude(j, m, spawned)
    PROVE  ModalInv'
<1>1. PICK d \in {TakeDiff(m)} :
         /\ modal' = d.modal
         /\ jobs' = Spawned(BagRemove(jobs, j), spawned \cup d.jobs)
         /\ UNCHANGED <<opens, lost, heir>>
    BY DEF Conclude
<1>2. /\ Good(d.modal) /\ d.modal.event = m.event /\ d.modal.buf = m.buf
      /\ d.modal.gen = m.gen /\ d.modal.cache = m.cache
      /\ \/ d.modal.inflight = m.inflight /\ d.jobs = {}
         \/ d.modal.inflight = m.gen /\ d.jobs = {DiffJob(m.event, m.gen, DiffOf(m))}
    BY <1>1, TakeDiffOk
<1>3. /\ Jobs' \subseteq Jobs \cup spawned \cup d.jobs
      /\ (Jobs \ {j}) \cup spawned \cup d.jobs \subseteq Jobs'
    <2>1. Jobs' = BagToSet(BagRemove(jobs, j)) \cup (spawned \cup d.jobs)
        BY <1>1, SpawnedSet DEF Jobs
    <2> QED
        BY <2>1, RemovedSet DEF Jobs
<1>4. \A k \in Jobs' : JobOk(k)
    <2>1. \A k \in Jobs : JobOk(k)
        BY DEF ModalInv, Jobs
    <2>2. \A k \in d.jobs : JobOk(k)
        BY <1>2, DiffOfType
    <2> QED
        BY <1>3, <2>1, <2>2
<1>5. SideWaits(d.modal, Jobs', lost)
    <2>1. (Jobs \ {j}) \cup spawned \subseteq Jobs'
        BY <1>3
    <2> QED
        BY <1>2, <2>1, WaitsAgree
<1>6. DiffWaits(d.modal, Jobs', lost)
    <2>1. CASE d.modal.inflight = m.inflight
        <3>1. (Jobs \ {j}) \cup spawned \subseteq Jobs'
            BY <1>3
        <3> QED
            BY <1>2, <2>1, <3>1 DEF DiffWaits
    <2>2. CASE d.jobs = {DiffJob(m.event, m.gen, DiffOf(m))}
        <3>1. DiffJob(m.event, m.gen, DiffOf(m)) \in Jobs'
            BY <1>3, <2>2
        <3> QED
            BY <1>2, <3>1 DEF DiffWaits, DiffJob
    <2> QED
        BY <1>2, <2>1, <2>2
<1>7. ~heir => DiffsOk(d.modal, Jobs')
    <2> SUFFICES ASSUME ~heir
                 PROVE  DiffsOk(d.modal, Jobs')
        OBVIOUS
    <2>1. DiffOf(d.modal) = DiffOf(m)
        BY <1>2 DEF DiffOf
    <2>2. m.gen \in Nat
        BY DiffOfType
    <2>3. ASSUME NEW k \in Jobs', k.kind = "diff", k.event = m.event
          PROVE  k.gen <= m.gen /\ (k.gen = m.gen => k.diff = DiffOf(m))
        <3>1. CASE k \in Jobs \cup spawned
            BY <2>3, <3>1 DEF DiffsOk
        <3>2. CASE k \in d.jobs
            <4>1. k = DiffJob(m.event, m.gen, DiffOf(m))
                BY <1>2, <3>2
            <4> QED
                BY <2>2, <4>1 DEF DiffJob
        <3> QED
            BY <1>3, <3>1, <3>2
    <2> QED
        BY <1>2, <2>1, <2>3 DEF DiffsOk
<1> QED
    BY <1>1, <1>2, <1>4, <1>5, <1>6, <1>7 DEF ModalInv, Jobs

\* A job no one waits for.
LEMMA OthersWait ==
    ASSUME NEW m, NEW K, NEW l, NEW j, SideWaits(m, K, l),
           j.event = m.event =>
              /\ j.kind = "chunk" =>
                    ~m.buf[j.side].flying \/ j.offset # Len(m.buf[j.side].loaded)
              /\ j.kind = "decode" => l \/ ~m.buf[j.side].decoding
              /\ j.kind = "pretty" => l \/ ~m.buf[j.side].prettying
    PROVE  SideWaits(m, K \ {j}, l)
<1> SUFFICES ASSUME NEW s \in Sides
             PROVE  SideWait(m.event, s, m.buf[s], K \ {j}, l)
    BY DEF SideWaits
<1>1. SideWait(m.event, s, m.buf[s], K, l)
    BY DEF SideWaits
<1> QED
    BY <1>1 DEF SideWait

\* A job of one side ends, and that side waits for what it should.
LEMMA OneSideWaits ==
    ASSUME NEW m, NEW n, NEW K, NEW L, NEW l, NEW j, SideWaits(m, K, l),
           n.event = m.event, \A o \in Sides \ {j.side} : n.buf[o] = m.buf[o],
           K \ {j} \subseteq L,
           SideWait(n.event, j.side, n.buf[j.side], L, l)
    PROVE  SideWaits(n, L, l)
<1> SUFFICES ASSUME NEW s \in Sides, s # j.side
             PROVE  SideWait(n.event, s, n.buf[s], L, l)
    BY DEF SideWaits
<1>1. SideWait(m.event, s, m.buf[s], K, l) /\ n.buf[s] = m.buf[s]
    BY DEF SideWaits
<1>2. \A k \in K : k.side = s => k \in L
    OBVIOUS
<1> QED
    BY <1>1, <1>2 DEF SideWait

\* The same for the diff.
LEMMA DiffStillWaited ==
    ASSUME NEW m, NEW K, NEW l, NEW j, DiffWaits(m, K, l),
           j.kind = "diff" /\ j.event = m.event => j.gen # m.gen \/ l
    PROVE  DiffWaits(m, K \ {j}, l)
BY DEF DiffWaits

\* A result that is not applied, and that no one waits for.
LEMMA DiscardStep ==
    ASSUME ModalInv, NEW j \in Jobs, Discard(j),
           IsOpen => SideWaits(modal, Jobs \ {j}, lost) /\ DiffWaits(modal, Jobs \ {j}, lost)
    PROVE  ModalInv'
<1>1. CASE IsOpen
    <2>1. Good(modal) /\ (~heir => DiffsOk(modal, Jobs))
        BY <1>1 DEF ModalInv, Jobs
    <2>2. PICK none : none = {}
        OBVIOUS
    <2>3. Conclude(j, modal, none)
        BY <1>1, <2>2 DEF Discard
    <2>4. (Jobs \ {j}) \cup none = Jobs \ {j} /\ Jobs \cup none = Jobs /\ \A k \in none : JobOk(k)
        BY <2>2
    <2> QED
        BY <1>1, <2>1, <2>3, <2>4, ConcludeStep
<1>2. CASE ~IsOpen
    <2>1. jobs' = BagRemove(jobs, j) /\ UNCHANGED <<modal, opens, lost, heir>>
        BY <1>2 DEF Discard
    <2>2. BagToSet(jobs') \subseteq BagToSet(jobs)
        BY <2>1, RemovedSet
    <2> QED
        BY <1>2, <2>1, <2>2 DEF ModalInv, IsOpen
<1> QED
    BY <1>1, <1>2

\* A result that is applied, or not, without another look at the diff.
LEMMA EndStep ==
    ASSUME ModalInv, NEW j, jobs' = BagRemove(jobs, j), UNCHANGED <<opens, heir>>,
           lost' \in BOOLEAN, lost => lost',
           IsOpen' => /\ Good(modal')
                      /\ SideWaits(modal', Jobs \ {j}, lost')
                      /\ DiffWaits(modal', Jobs \ {j}, lost')
                      /\ ~heir => DiffsOk(modal', Jobs)
    PROVE  ModalInv'
<1>1. Jobs' \subseteq Jobs /\ Jobs \ {j} \subseteq Jobs'
    BY RemovedSet DEF Jobs
<1>2. \A k \in Jobs' : JobOk(k)
    BY <1>1 DEF ModalInv, Jobs
<1>3. ASSUME IsOpen'
      PROVE  /\ SideWaits(modal', Jobs', lost') /\ DiffWaits(modal', Jobs', lost')
             /\ ~heir => DiffsOk(modal', Jobs')
    <2>1. SideWaits(modal', Jobs', lost')
        BY <1>1, <1>3, WaitsAgree
    <2> QED
        BY <1>1, <1>3, <2>1 DEF DiffWaits, DiffsOk
<1> QED
    BY <1>2, <1>3 DEF ModalInv, Jobs

\* The open viewer and a job under way.
LEMMA OpenFacts ==
    ASSUME ModalInv, IsOpen
    PROVE  /\ Good(modal) /\ modal.event \in Events /\ modal.gen \in Nat
           /\ SideWaits(modal, Jobs, lost) /\ DiffWaits(modal, Jobs, lost)
           /\ ~heir => DiffsOk(modal, Jobs)
           /\ \A s \in Sides : /\ BufferOk(modal.event, s, modal.buf[s])
                               /\ SideWait(modal.event, s, modal.buf[s], Jobs, lost)
BY DiffOfType DEF ModalInv, Jobs, Good, SideWaits

\* One lemma for each handler and key.
LEMMA ChunkStep ==
    ASSUME ModalInv, NEW j \in Jobs, j.kind = "chunk", ChunkOk(j)
    PROVE  ModalInv'
<1>1. JobOk(j)
    BY DEF ModalInv, Jobs
<1> DEFINE fits == IsOpen /\ j.offset = Len(Buf(j.side).loaded)
<1>2. CASE ~About(j)
    <2>1. Discard(j)
        BY <1>2 DEF ChunkOk, Received
    <2>2. ASSUME IsOpen
          PROVE  SideWaits(modal, Jobs \ {j}, lost) /\ DiffWaits(modal, Jobs \ {j}, lost)
        <3>1. j.event # modal.event
            BY <1>2, <2>2 DEF About
        <3> QED
            BY <2>2, <3>1, OpenFacts, OthersWait, DiffStillWaited
    <2> QED
        BY <2>1, <2>2, DiscardStep
<1>3. CASE About(j)
    <2>1. /\ IsOpen /\ modal.event = j.event /\ j.side \in Sides
          /\ Good(modal) /\ BufferOk(j.event, j.side, modal.buf[j.side])
          /\ SideWaits(modal, Jobs, lost) /\ DiffWaits(modal, Jobs, lost)
          /\ ~heir => DiffsOk(modal, Jobs)
          /\ SideWait(modal.event, j.side, modal.buf[j.side], Jobs, lost)
        BY <1>1, <1>3, OpenFacts DEF About, JobOk
    <2> DEFINE old == modal.buf[j.side]
               b   == IF fits THEN Extended(Buf(j.side), j) ELSE Buf(j.side)
               todo == Pending(b, j)
               c   == [b EXCEPT !.decoding = b.decoding \/ todo = {"decode"},
                                !.prettying = b.prettying \/ todo = {"pretty"}]
               n   == SetSide(modal, j.side, c)
               m   == IF fits THEN Invalidated(n) ELSE n
               spawned == {[kind |-> k, event |-> j.event, side |-> j.side, bytes |-> b.loaded] :
                              k \in todo}
    <2>2. Conclude(j, m, spawned)
        BY <1>3 DEF ChunkOk, Received
    <2>3. BufferOk(j.event, j.side, b) /\ (fits => ~b.flying)
        <3>1. CASE fits
            BY <1>1, <2>1, <3>1, ExtendedOk DEF Buf
        <3>2. CASE ~fits
            BY <2>1, <3>2 DEF Buf
        <3> QED
            BY <3>1, <3>2
    <2>4. todo \in {{}, {"decode"}, {"pretty"}}
        BY DEF Pending
    <2>5. ~fits => b = old /\ (old.flying => j.offset # Len(old.loaded))
        BY <2>1 DEF Buf
    <2>6. b.decoding \/ b.prettying => (b.decoding <=> old.decoding) /\ (b.prettying <=> old.prettying)
        BY <2>1 DEF Buf, Extended, BufferOk, Buffers
    <2> HIDE DEF b, todo, fits
    <2>7. /\ BufferOk(j.event, j.side, c) /\ c.loaded = b.loaded /\ c.flying = b.flying
          /\ c.decoded = b.decoded
          /\ c.decoding = (b.decoding \/ todo = {"decode"})
          /\ c.prettying = (b.prettying \/ todo = {"pretty"})
        <3>1. b \in Buffers /\ b.decoding \in BOOLEAN /\ b.prettying \in BOOLEAN
            BY <2>3 DEF BufferOk, Buffers
        <3>2. /\ c \in Buffers /\ c.loaded = b.loaded /\ c.flying = b.flying /\ c.decoded = b.decoded
              /\ c.ceiling = b.ceiling /\ c.full = b.full
              /\ c.decoding = (b.decoding \/ todo = {"decode"})
              /\ c.prettying = (b.prettying \/ todo = {"pretty"})
            BY <3>1 DEF Buffers
        <3> HIDE DEF c
        <3> QED
            BY <2>3, <3>2 DEF BufferOk, CapOf
    <2> HIDE DEF c
    <2>8. /\ Good(n) /\ n.event = modal.event /\ n.gen = modal.gen /\ n.inflight = modal.inflight
          /\ n.cache = modal.cache /\ n.buf[j.side] = c
          /\ \A o \in Sides \ {j.side} : n.buf[o] = modal.buf[o]
        <3>1. BufferOk(modal.event, j.side, c) /\ Good(modal) /\ j.side \in Sides
            BY <2>1, <2>7
        <3>2. SetSide(modal, j.side, c) = n
            OBVIOUS
        <3> HIDE DEF n, m, spawned, old
        <3> QED
            BY <3>1, <3>2, SetSideOk
    <2> HIDE DEF n
    <2>9. /\ Good(m) /\ m.event = modal.event /\ m.buf[j.side] = c
          /\ \A o \in Sides \ {j.side} : m.buf[o] = modal.buf[o]
        BY <2>8, InvalidatedOk
    <2>10. \A k \in spawned : JobOk(k)
        <3>1. b.loaded \in Seq(Nat)
            BY <2>3 DEF BufferOk, Buffers
        <3> QED
            BY <1>1, <2>4, <3>1 DEF JobOk
    <2>11. SideWait(m.event, j.side, c, (Jobs \ {j}) \cup spawned, lost)
        <3>1. ASSUME c.flying
              PROVE  \E k \in Jobs \ {j} : /\ k.kind = "chunk" /\ k.event = m.event
                                           /\ k.side = j.side /\ k.offset = Len(c.loaded)
            <4>1. ~fits /\ b = old /\ old.flying /\ j.offset # Len(old.loaded)
                BY <2>3, <2>5, <2>7, <3>1
            <4>2. \E k \in Jobs : /\ k.kind = "chunk" /\ k.event = modal.event
                                  /\ k.side = j.side /\ k.offset = Len(old.loaded)
                BY <2>1, <4>1 DEF SideWait
            <4> HIDE DEF old
            <4> QED
                BY <2>7, <2>9, <4>1, <4>2
        <3>2. ASSUME c.decoding, ~lost
              PROVE  \E k \in (Jobs \ {j}) \cup spawned :
                        k.kind = "decode" /\ k.event = m.event /\ k.side = j.side
            <4>1. CASE todo = {"decode"}
                <5>1. [kind |-> "decode", event |-> j.event, side |-> j.side, bytes |-> b.loaded] \in spawned
                    BY <4>1
                <5> HIDE DEF spawned
                <5> QED
                    BY <2>1, <2>9, <5>1
            <4>2. CASE todo # {"decode"}
                <5>1. old.decoding
                    BY <2>6, <2>7, <3>2, <4>2
                <5> QED
                    BY <2>1, <2>9, <3>2, <5>1 DEF SideWait
            <4> QED
                BY <4>1, <4>2
        <3>3. ASSUME c.prettying, ~lost
              PROVE  \E k \in (Jobs \ {j}) \cup spawned :
                        k.kind = "pretty" /\ k.event = m.event /\ k.side = j.side
            <4>1. CASE todo = {"pretty"}
                <5>1. [kind |-> "pretty", event |-> j.event, side |-> j.side, bytes |-> b.loaded] \in spawned
                    BY <4>1
                <5> HIDE DEF spawned
                <5> QED
                    BY <2>1, <2>9, <5>1
            <4>2. CASE todo # {"pretty"}
                <5>1. old.prettying
                    BY <2>6, <2>7, <3>3, <4>2
                <5> QED
                    BY <2>1, <2>9, <3>3, <5>1 DEF SideWait
            <4> QED
                BY <4>1, <4>2
        <3> HIDE DEF spawned
        <3> QED
            BY <3>1, <3>2, <3>3 DEF SideWait
    <2>12. SideWaits(m, (Jobs \ {j}) \cup spawned, lost)
        <3> HIDE DEF spawned, m, old
        <3>1. /\ SideWait(m.event, j.side, m.buf[j.side], (Jobs \ {j}) \cup spawned, lost)
              /\ Jobs \ {j} \subseteq (Jobs \ {j}) \cup spawned
            BY <2>9, <2>11
        <3> QED
            BY <2>1, <2>9, <3>1, OneSideWaits
    <2>13. DiffWaits(m, (Jobs \ {j}) \cup spawned, lost) /\ (~heir => DiffsOk(m, Jobs \cup spawned))
        <3>1. \A k \in spawned : k.kind # "diff"
            BY <2>4
        <3>2. CASE fits
            <4>1. /\ m.gen = n.gen + 1 /\ m.inflight = n.inflight /\ m.cache = NoDiff
                  /\ n.gen \in Nat /\ n.inflight \in Nat /\ n.inflight <= n.gen
                BY <2>8, <3>2, InvalidatedOk
            <4>2. DiffWaits(m, (Jobs \ {j}) \cup spawned, lost)
                BY <4>1 DEF DiffWaits
            <4>3. ASSUME ~heir, NEW k \in Jobs \cup spawned, k.kind = "diff", k.event = m.event
                  PROVE  k.gen <= m.gen /\ k.gen # m.gen
                <5>1. k \in Jobs /\ k.gen <= modal.gen /\ JobOk(k)
                    BY <2>1, <2>9, <3>1, <4>3 DEF DiffsOk, ModalInv, Jobs
                <5>2. k.gen \in Nat
                    BY <4>3, <5>1 DEF JobOk
                <5> QED
                    BY <2>8, <4>1, <5>1, <5>2
            <4> HIDE DEF spawned, m
            <4> QED
                BY <4>1, <4>2, <4>3 DEF DiffsOk
        <3>3. CASE ~fits
            <4>1. m.gen = modal.gen /\ m.inflight = modal.inflight /\ m.cache = modal.cache
                BY <2>8, <3>3
            <4>2. DiffOf(m) = DiffOf(modal)
                <5>1. c.decoded = modal.buf[j.side].decoded
                    BY <2>5, <2>7, <3>3
                <5>2. \A s \in Sides : m.buf[s].decoded = modal.buf[s].decoded
                    BY <2>9, <5>1
                <5> QED
                    BY <5>2 DEF DiffOf, Sides
            <4>3. DiffWaits(modal, Jobs \ {j}, lost)
                BY <2>1, DiffStillWaited
            <4> HIDE DEF spawned, m
            <4> QED
                BY <2>1, <2>9, <3>1, <4>1, <4>2, <4>3 DEF DiffWaits, DiffsOk
        <3> QED
            BY <3>2, <3>3
    <2> HIDE DEF m, spawned
    <2> QED
        BY <2>2, <2>9, <2>10, <2>12, <2>13, ConcludeStep
<1> QED
    BY <1>2, <1>3

\* A buffer whose flags or render change.
LEMMA FlagsOk ==
    ASSUME NEW e, NEW s, NEW b, BufferOk(e, s, b), NEW x \in Buffers,
           x.loaded = b.loaded, x.ceiling = b.ceiling, x.full = b.full
    PROVE  BufferOk(e, s, x)
BY DEF BufferOk, CapOf

\* What a job of a side leaves, once it is over.
LEMMA SettledSide ==
    ASSUME ModalInv, NEW j \in Jobs, j.kind # "diff", About(j), j.side \in Sides,
           NEW x, BufferOk(modal.event, j.side, x),
           SideWait(modal.event, j.side, x, Jobs \ {j}, lost),
           NEW n, n = SetSide(modal, j.side, x),
           NEW m, m = Invalidated(n)
    PROVE  /\ Good(n) /\ n.event = modal.event /\ SideWaits(n, Jobs \ {j}, lost)
           /\ x.decoded = modal.buf[j.side].decoded =>
                DiffWaits(n, Jobs \ {j}, lost) /\ (~heir => DiffsOk(n, Jobs))
           /\ Good(m) /\ SideWaits(m, Jobs \ {j}, lost) /\ DiffWaits(m, Jobs \ {j}, lost)
           /\ ~heir => DiffsOk(m, Jobs)
<1>1. /\ Good(modal) /\ SideWaits(modal, Jobs, lost) /\ DiffWaits(modal, Jobs, lost)
      /\ ~heir => DiffsOk(modal, Jobs)
    BY OpenFacts DEF About
<1>2. /\ Good(n) /\ n.event = modal.event /\ n.gen = modal.gen /\ n.inflight = modal.inflight
      /\ n.cache = modal.cache /\ n.buf[j.side] = x
      /\ \A o \in Sides \ {j.side} : n.buf[o] = modal.buf[o]
    BY <1>1, SetSideOk
<1>3. SideWaits(n, Jobs \ {j}, lost)
    <2> SUFFICES ASSUME NEW s \in Sides
                 PROVE  SideWait(n.event, s, n.buf[s], Jobs \ {j}, lost)
        BY DEF SideWaits
    <2>1. CASE s = j.side
        BY <1>2, <2>1
    <2>2. CASE s # j.side
        <3>1. SideWait(n.event, s, n.buf[s], Jobs, lost)
            BY <1>1, <1>2, <2>2 DEF SideWaits
        <3> QED
            BY <2>2, <3>1 DEF SideWait
    <2> QED
        BY <2>1, <2>2
<1>4. ASSUME x.decoded = modal.buf[j.side].decoded
      PROVE  DiffWaits(n, Jobs \ {j}, lost) /\ (~heir => DiffsOk(n, Jobs))
    <2>1. \A s \in Sides : n.buf[s].decoded = modal.buf[s].decoded
        BY <1>2, <1>4
    <2>2. DiffOf(n) = DiffOf(modal)
        BY <2>1 DEF DiffOf, Sides
    <2>3. DiffWaits(modal, Jobs \ {j}, lost)
        BY <1>1, DiffStillWaited
    <2> QED
        BY <1>1, <1>2, <2>2, <2>3 DEF DiffWaits, DiffsOk
<1>5. /\ Good(m) /\ m.event = n.event /\ m.buf = n.buf /\ m.gen = n.gen + 1
      /\ m.inflight = n.inflight /\ m.cache = NoDiff
      /\ n.inflight <= n.gen /\ n.gen \in Nat /\ n.inflight \in Nat
    BY <1>2, InvalidatedOk
<1>6. SideWaits(m, Jobs \ {j}, lost)
    BY <1>3, <1>5, WaitsAgree
<1>7. DiffWaits(m, Jobs \ {j}, lost)
    BY <1>5 DEF DiffWaits
<1>8. ASSUME ~heir, NEW k \in Jobs, k.kind = "diff", k.event = m.event
      PROVE  k.gen <= m.gen /\ k.gen # m.gen
    <2>1. k.gen <= modal.gen /\ JobOk(k)
        BY <1>1, <1>2, <1>5, <1>8 DEF DiffsOk, ModalInv, Jobs
    <2>2. k.gen \in Nat
        BY <1>8, <2>1 DEF JobOk
    <2> QED
        BY <1>2, <1>5, <2>1, <2>2
<1>9. ~heir => DiffsOk(m, Jobs)
    BY <1>5, <1>8 DEF DiffsOk
<1> QED
    BY <1>2, <1>3, <1>4, <1>5, <1>6, <1>7, <1>9

LEMMA ChunkErrStep ==
    ASSUME ModalInv, NEW j \in Jobs, j.kind = "chunk", ChunkErr(j)
    PROVE  ModalInv'
<1>1. JobOk(j)
    BY DEF ModalInv, Jobs
<1>2. jobs' = BagRemove(jobs, j) /\ UNCHANGED <<opens, heir>> /\ lost' = lost /\ lost \in BOOLEAN
    BY DEF ChunkErr, ModalInv
<1>3. ASSUME IsOpen'
      PROVE  /\ Good(modal') /\ SideWaits(modal', Jobs \ {j}, lost')
             /\ DiffWaits(modal', Jobs \ {j}, lost')
             /\ ~heir => DiffsOk(modal', Jobs)
    <2>1. CASE About(j)
        <3> DEFINE b == modal.buf[j.side]
                   x == [b EXCEPT !.flying = FALSE]
                   n == SetSide(modal, j.side, x)
        <3>1. /\ modal.event \in Events /\ j.side \in Sides /\ BufferOk(modal.event, j.side, b)
              /\ SideWait(modal.event, j.side, b, Jobs, lost) /\ Good(modal)
            BY <1>1, <2>1, OpenFacts DEF About, JobOk
        <3>2. modal' = n
            BY <2>1 DEF ChunkErr, SetSide
        <3>3. /\ x \in Buffers /\ ~x.flying /\ x.decoding = b.decoding /\ x.prettying = b.prettying
              /\ x.decoded = b.decoded /\ x.loaded = b.loaded /\ x.ceiling = b.ceiling
              /\ x.full = b.full
            <4>1. b \in Buffers
                BY <3>1 DEF BufferOk
            <4> HIDE DEF b
            <4> QED
                BY <4>1 DEF Buffers
        <3> HIDE DEF b, x
        <3>4. BufferOk(modal.event, j.side, x)
            BY <3>1, <3>3, FlagsOk
        <3>5. SideWait(modal.event, j.side, x, Jobs \ {j}, lost)
            BY <3>1, <3>3 DEF SideWait
        <3> HIDE DEF n
        <3>6. PICK k : k = Invalidated(n)
            OBVIOUS
        <3>7. n = SetSide(modal, j.side, x) /\ x.decoded = modal.buf[j.side].decoded
            BY <3>3 DEF n, b
        <3> QED
            BY <1>2, <2>1, <3>1, <3>2, <3>4, <3>5, <3>6, <3>7, SettledSide
    <2>2. CASE ~About(j)
        <3>1. modal' = modal
            BY <2>2 DEF ChunkErr
        <3>2. IsOpen /\ modal.event # j.event
            BY <1>3, <2>2, <3>1 DEF About, IsOpen
        <3> QED
            BY <1>2, <3>1, <3>2, OpenFacts, OthersWait, DiffStillWaited
    <2> QED
        BY <2>1, <2>2
<1> QED
    BY <1>2, <1>3, EndStep

LEMMA DecodedStep ==
    ASSUME ModalInv, NEW j \in Jobs, j.kind = "decode", Decoded(j)
    PROVE  ModalInv'
<1>1. JobOk(j)
    BY DEF ModalInv, Jobs
<1>2. CASE About(j) /\ Buf(j.side).decoding
    <2> DEFINE b == modal.buf[j.side]
               r == [kind |-> Render(j), of |-> j.bytes]
               x == [b EXCEPT !.decoding = FALSE, !.decoded = r]
               n == SetSide(modal, j.side, x)
    <2>1. /\ IsOpen /\ j.side \in Sides /\ BufferOk(modal.event, j.side, b)
          /\ SideWait(modal.event, j.side, b, Jobs, lost) /\ j.bytes \in Seq(Nat)
        BY <1>1, <1>2, OpenFacts DEF About, JobOk
    <2>2. PICK m : m = Invalidated(n)
        OBVIOUS
    <2>3. PICK none : none = {}
        OBVIOUS
    <2>4. Conclude(j, m, none)
        BY <1>2, <2>2, <2>3 DEF Decoded, Buf
    <2>5. r \in Decodes
        BY <2>1 DEF Decodes, Renders, Render
    <2> HIDE DEF r
    <2>6. /\ x \in Buffers /\ ~x.decoding /\ x.flying = b.flying /\ x.prettying = b.prettying
          /\ x.loaded = b.loaded /\ x.ceiling = b.ceiling /\ x.full = b.full
        <3>1. b \in Buffers
            BY <2>1 DEF BufferOk
        <3> HIDE DEF b
        <3> QED
            BY <2>5, <3>1 DEF Buffers
    <2> HIDE DEF b, x
    <2>7. BufferOk(modal.event, j.side, x)
        BY <2>1, <2>6, FlagsOk
    <2>8. SideWait(modal.event, j.side, x, Jobs \ {j}, lost)
        BY <2>1, <2>6 DEF SideWait
    <2>9. n = SetSide(modal, j.side, x)
        OBVIOUS
    <2> HIDE DEF n
    <2>10. /\ Good(m) /\ SideWaits(m, Jobs \ {j}, lost) /\ DiffWaits(m, Jobs \ {j}, lost)
           /\ ~heir => DiffsOk(m, Jobs)
        BY <1>2, <2>1, <2>2, <2>7, <2>8, <2>9, SettledSide
    <2>11. (Jobs \ {j}) \cup none = Jobs \ {j} /\ Jobs \cup none = Jobs /\ \A k \in none : JobOk(k)
        BY <2>3
    <2> QED
        BY <2>4, <2>10, <2>11, ConcludeStep
<1>3. CASE ~(About(j) /\ Buf(j.side).decoding)
    <2>1. Discard(j)
        BY <1>3 DEF Decoded
    <2>2. ASSUME IsOpen
          PROVE  SideWaits(modal, Jobs \ {j}, lost) /\ DiffWaits(modal, Jobs \ {j}, lost)
        <3>1. j.event = modal.event => ~modal.buf[j.side].decoding
            BY <1>3, <2>2 DEF About, Buf
        <3> QED
            BY <2>2, <3>1, OpenFacts, OthersWait, DiffStillWaited
    <2> QED
        BY <2>1, <2>2, DiscardStep
<1> QED
    BY <1>2, <1>3

LEMMA PrettiedStep ==
    ASSUME ModalInv, NEW j \in Jobs, j.kind = "pretty", Prettied(j)
    PROVE  ModalInv'
<1>1. JobOk(j)
    BY DEF ModalInv, Jobs
<1>2. CASE About(j) /\ Buf(j.side).prettying
    <2> DEFINE b == modal.buf[j.side]
               whole == Len(j.bytes) = Size[j.event][j.side]
               r == IF whole THEN [kind |-> "Pretty", of |-> j.bytes] ELSE b.decoded
               x == [b EXCEPT !.prettying = FALSE, !.decoded = r]
               n == SetSide(modal, j.side, x)
    <2>1. /\ IsOpen /\ j.side \in Sides /\ BufferOk(modal.event, j.side, b) /\ Good(modal)
          /\ SideWait(modal.event, j.side, b, Jobs, lost) /\ j.bytes \in Seq(Nat)
        BY <1>1, <1>2, OpenFacts DEF About, JobOk
    <2>2. b \in Buffers /\ b.decoded \in Decodes
        BY <2>1 DEF BufferOk, Buffers
    <2>3. r \in Decodes
        BY <2>1, <2>2 DEF Decodes, Renders
    <2>4. PICK none : none = {}
        OBVIOUS
    <2>5. Conclude(j, IF whole THEN Invalidated(n) ELSE n, none)
        <3> DEFINE flagged == [modal EXCEPT !.buf[j.side].prettying = FALSE]
        <3>1. modal \in Modals /\ modal.buf \in [Sides -> Buffers]
            BY <2>1 DEF Good, Modals
        <3>2. CASE whole
            <4>1. Conclude(j, Invalidated([flagged EXCEPT !.buf[j.side].decoded =
                                             [kind |-> "Pretty", of |-> j.bytes]]), {})
                BY <1>2, <3>2 DEF Prettied
            <4>2. [flagged EXCEPT !.buf[j.side].decoded = r] = n
                BY <2>1, <2>2, <3>1 DEF SetSide, Modals, Buffers
            <4> QED
                BY <2>4, <3>2, <4>1, <4>2
        <3>3. CASE ~whole
            <4>1. Conclude(j, flagged, {})
                BY <1>2, <3>3 DEF Prettied
            <4>2. flagged = n
                BY <2>1, <2>2, <3>1, <3>3 DEF SetSide, Modals, Buffers
            <4> QED
                BY <2>4, <3>3, <4>1, <4>2
        <3> QED
            BY <3>2, <3>3
    <2>6. ~whole => r = b.decoded
        OBVIOUS
    <2> HIDE DEF r
    <2>7. /\ x \in Buffers /\ ~x.prettying /\ x.flying = b.flying /\ x.decoding = b.decoding
          /\ x.loaded = b.loaded /\ x.ceiling = b.ceiling /\ x.full = b.full /\ x.decoded = r
        <3> HIDE DEF b
        <3> QED
            BY <2>2, <2>3 DEF Buffers
    <2>8. ~whole => x.decoded = modal.buf[j.side].decoded
        BY <2>6, <2>7
    <2> HIDE DEF b, x, whole
    <2>9. BufferOk(modal.event, j.side, x)
        BY <2>1, <2>7, FlagsOk
    <2>10. SideWait(modal.event, j.side, x, Jobs \ {j}, lost)
        BY <2>1, <2>7 DEF SideWait
    <2>11. n = SetSide(modal, j.side, x)
        OBVIOUS
    <2> HIDE DEF n
    <2>12. PICK m : m = Invalidated(n)
        OBVIOUS
    <2>13. /\ Good(n) /\ SideWaits(n, Jobs \ {j}, lost)
           /\ ~whole => DiffWaits(n, Jobs \ {j}, lost) /\ (~heir => DiffsOk(n, Jobs))
           /\ Good(m) /\ SideWaits(m, Jobs \ {j}, lost) /\ DiffWaits(m, Jobs \ {j}, lost)
           /\ ~heir => DiffsOk(m, Jobs)
        BY <1>2, <2>1, <2>8, <2>9, <2>10, <2>11, <2>12, SettledSide
    <2>14. (Jobs \ {j}) \cup none = Jobs \ {j} /\ Jobs \cup none = Jobs /\ \A k \in none : JobOk(k)
        BY <2>4
    <2>15. CASE whole
        <3>1. Conclude(j, m, none)
            BY <2>5, <2>12, <2>15
        <3> QED
            BY <2>13, <2>14, <3>1, ConcludeStep
    <2>16. CASE ~whole
        <3>1. Conclude(j, n, none)
            BY <2>5, <2>16
        <3> QED
            BY <2>13, <2>14, <2>16, <3>1, ConcludeStep
    <2> QED
        BY <2>15, <2>16
<1>3. CASE ~(About(j) /\ Buf(j.side).prettying)
    <2>1. Discard(j)
        BY <1>3 DEF Prettied
    <2>2. ASSUME IsOpen
          PROVE  SideWaits(modal, Jobs \ {j}, lost) /\ DiffWaits(modal, Jobs \ {j}, lost)
        <3>1. j.event = modal.event => ~modal.buf[j.side].prettying
            BY <1>3, <2>2 DEF About, Buf
        <3> QED
            BY <2>2, <3>1, OpenFacts, OthersWait, DiffStillWaited
    <2> QED
        BY <2>1, <2>2, DiscardStep
<1> QED
    BY <1>2, <1>3

LEMMA DiffBuiltStep ==
    ASSUME ModalInv, NEW j \in Jobs, j.kind = "diff", DiffBuilt(j)
    PROVE  ModalInv'
<1>1. JobOk(j)
    BY DEF ModalInv, Jobs
<1>2. jobs' = BagRemove(jobs, j) /\ UNCHANGED <<opens, heir>> /\ lost' = lost /\ lost \in BOOLEAN
    BY DEF DiffBuilt, ModalInv
<1>3. ASSUME IsOpen'
      PROVE  /\ Good(modal') /\ SideWaits(modal', Jobs \ {j}, lost')
             /\ DiffWaits(modal', Jobs \ {j}, lost')
             /\ ~heir => DiffsOk(modal', Jobs)
    <2>1. CASE About(j) /\ modal.gen = j.gen
        <3>1. modal' = [modal EXCEPT !.cache = j.diff, !.inflight = Idle]
            BY <2>1 DEF DiffBuilt
        <3>2. /\ Good(modal) /\ SideWaits(modal, Jobs, lost) /\ modal.event = j.event
              /\ ~heir => DiffsOk(modal, Jobs)
            BY <2>1, OpenFacts DEF About
        <3>3. modal \in Modals /\ modal.gen \in Nat
            BY <3>2 DEF Good, Modals
        <3>4. /\ modal'.event = modal.event /\ modal'.buf = modal.buf /\ modal'.gen = modal.gen
              /\ modal'.cache = j.diff /\ modal'.inflight = 0
            BY <3>1, <3>3 DEF Modals, Idle
        <3>5. modal' \in Modals
            <4>1. j.diff \in (Decodes \X Decodes) \cup {NoDiff} /\ Idle \in Nat
                BY <1>1 DEF JobOk, Idle
            <4> HIDE DEF Idle
            <4>2. [modal EXCEPT !.cache = j.diff] \in Modals
                BY <3>3, <4>1 DEF Modals
            <4>3. [[modal EXCEPT !.cache = j.diff] EXCEPT !.inflight = Idle] \in Modals
                BY <4>1, <4>2 DEF Modals
            <4>4. modal' = [[modal EXCEPT !.cache = j.diff] EXCEPT !.inflight = Idle]
                BY <3>1, <3>3 DEF Modals
            <4> QED
                BY <4>3, <4>4
        <3>6. Good(modal')
            BY <3>2, <3>3, <3>4, <3>5 DEF Good
        <3>7. SideWaits(modal, Jobs \ {j}, lost)
            BY <3>2, OthersWait
        <3>8. SideWaits(modal', Jobs \ {j}, lost')
            BY <1>2, <3>4, <3>7 DEF SideWaits
        <3>9. DiffWaits(modal', Jobs \ {j}, lost')
            BY <3>3, <3>4 DEF DiffWaits
        <3>10. DiffOf(modal') = DiffOf(modal)
            BY <3>4 DEF DiffOf
        <3>11. ~heir => j.diff = DiffOf(modal)
            BY <2>1, <3>2 DEF DiffsOk
        <3>12. ~heir => DiffsOk(modal', Jobs)
            BY <3>2, <3>4, <3>10, <3>11 DEF DiffsOk
        <3> QED
            BY <3>6, <3>8, <3>9, <3>12
    <2>2. CASE ~(About(j) /\ modal.gen = j.gen)
        <3>1. modal' = modal
            BY <2>2 DEF DiffBuilt
        <3>2. IsOpen /\ (modal.event = j.event => j.gen # modal.gen)
            BY <1>3, <2>2, <3>1 DEF About, IsOpen
        <3> QED
            BY <1>2, <3>1, <3>2, OpenFacts, OthersWait, DiffStillWaited
    <2> QED
        BY <2>1, <2>2
<1> QED
    BY <1>2, <1>3, EndStep

LEMMA DropStep ==
    ASSUME ModalInv, NEW j \in Jobs, j.kind # "chunk", Drop(j)
    PROVE  ModalInv'
<1>1. jobs' = BagRemove(jobs, j) /\ UNCHANGED <<opens, heir>> /\ modal' = modal
      /\ lost' = (lost \/ About(j)) /\ lost \in BOOLEAN
    BY DEF Drop, ModalInv
<1>2. ASSUME IsOpen'
      PROVE  /\ Good(modal') /\ SideWaits(modal', Jobs \ {j}, lost')
             /\ DiffWaits(modal', Jobs \ {j}, lost')
             /\ ~heir => DiffsOk(modal', Jobs)
    <2>1. IsOpen /\ (j.event = modal.event => lost')
        BY <1>1, <1>2 DEF IsOpen, About
    <2>2. /\ Good(modal) /\ SideWaits(modal, Jobs, lost) /\ DiffWaits(modal, Jobs, lost)
          /\ ~heir => DiffsOk(modal, Jobs)
        BY <2>1, OpenFacts
    <2>3. PICK l : l = lost'
        OBVIOUS
    <2>4. (lost => l) /\ (j.event = modal.event => l)
        BY <1>1, <2>1, <2>3
    <2>5. SideWaits(modal, Jobs, l) /\ DiffWaits(modal, Jobs, l)
        BY <2>2, <2>4 DEF SideWaits, SideWait, DiffWaits
    <2>6. SideWaits(modal, Jobs \ {j}, l)
        BY <2>4, <2>5, OthersWait
    <2>7. DiffWaits(modal, Jobs \ {j}, l)
        BY <2>4, <2>5, DiffStillWaited
    <2> QED
        BY <1>1, <2>2, <2>3, <2>6, <2>7
<1> QED
    BY <1>1, <1>2, EndStep

\* m with some sides in flight, and their fetches.
Flown(m, sides) == [m EXCEPT !.buf = [s \in Sides |->
    IF s \in sides THEN [m.buf[s] EXCEPT !.flying = TRUE] ELSE m.buf[s]]]
IsFetch(k, m, s) == \E l \in Nat : k = ChunkJob(m.event, s, Len(m.buf[s].loaded), l)

LEMMA FetchOk ==
    ASSUME NEW m, Good(m), NEW s \in Sides, NEW k, IsFetch(k, m, s)
    PROVE  /\ JobOk(k) /\ k.kind = "chunk" /\ k.event = m.event /\ k.side = s
           /\ k.offset = Len(m.buf[s].loaded)
<1>1. m.event \in Events /\ Len(m.buf[s].loaded) \in Nat
    BY LenProperties DEF Good, Modals, Buffers
<1> QED
    BY <1>1 DEF IsFetch, ChunkJob, JobOk

\* Fetches are started for some sides.
LEMMA FireStep ==
    ASSUME ModalInv, NEW m, Good(m), NEW sides \in SUBSET Sides, NEW new,
           \A k \in new : \E s \in sides : IsFetch(k, m, s),
           \A s \in sides : \E k \in new : IsFetch(k, m, s),
           modal' = Flown(m, sides), jobs' = Spawned(jobs, new),
           opens' \in 0..MaxOpens, lost' \in BOOLEAN, heir' \in BOOLEAN,
           SideWaits(m, Jobs, lost'), DiffWaits(m, Jobs, lost'), ~heir' => DiffsOk(m, Jobs)
    PROVE  ModalInv'
<1> DEFINE bufs == [s \in Sides |-> IF s \in sides THEN [m.buf[s] EXCEPT !.flying = TRUE] ELSE m.buf[s]]
           n == [m EXCEPT !.buf = bufs]
<1>1. m \in Modals /\ \A s \in Sides : m.buf[s] \in Buffers /\ BufferOk(m.event, s, m.buf[s])
    BY DEF Good, BufferOk
<1>2. ASSUME NEW s \in Sides
      PROVE  /\ BufferOk(m.event, s, bufs[s])
             /\ bufs[s].loaded = m.buf[s].loaded /\ bufs[s].decoded = m.buf[s].decoded
             /\ bufs[s].decoding = m.buf[s].decoding /\ bufs[s].prettying = m.buf[s].prettying
             /\ bufs[s].flying => m.buf[s].flying \/ s \in sides
    <2> DEFINE b == m.buf[s]
               x == [b EXCEPT !.flying = TRUE]
    <2>1. b \in Buffers /\ BufferOk(m.event, s, b)
        BY <1>1
    <2>2. bufs[s] = IF s \in sides THEN x ELSE b
        OBVIOUS
    <2> HIDE DEF b, bufs
    <2>3. /\ x \in Buffers /\ x.loaded = b.loaded /\ x.decoded = b.decoded /\ x.ceiling = b.ceiling
          /\ x.full = b.full /\ x.decoding = b.decoding /\ x.prettying = b.prettying
        BY <2>1 DEF Buffers
    <2> HIDE DEF x
    <2>4. BufferOk(m.event, s, x)
        BY <2>1, <2>3, FlagsOk
    <2> QED
        BY <2>1, <2>2, <2>3, <2>4 DEF b
<1>3. bufs \in [Sides -> Buffers]
    <2>1. \A s \in Sides : bufs[s] \in Buffers
        BY <1>2 DEF BufferOk
    <2> QED
        BY <2>1
<1>4. modal' = n
    BY DEF Flown
<1>a. /\ \A k \in new : JobOk(k) /\ k.kind = "chunk"
      /\ \A s \in sides : \E k \in new : /\ k.kind = "chunk" /\ k.event = m.event /\ k.side = s
                                         /\ k.offset = Len(m.buf[s].loaded)
    BY FetchOk
<1> HIDE DEF bufs
<1>5. /\ n \in Modals /\ n.buf = bufs /\ n.event = m.event /\ n.gen = m.gen
      /\ n.inflight = m.inflight /\ n.cache = m.cache
    BY <1>1, <1>3 DEF Modals
<1> HIDE DEF n
<1>6. Good(n)
    BY <1>2, <1>5 DEF Good
<1>7. Jobs' = Jobs \cup new
    BY SpawnedSet DEF Jobs
<1>8. \A k \in Jobs' : JobOk(k)
    BY <1>7, <1>a DEF ModalInv, Jobs
<1>9. SideWaits(n, Jobs', lost')
    <2> SUFFICES ASSUME NEW s \in Sides
                 PROVE  SideWait(n.event, s, n.buf[s], Jobs', lost')
        BY DEF SideWaits
    <2> DEFINE b == m.buf[s]
               x == n.buf[s]
    <2>1. SideWait(m.event, s, b, Jobs, lost')
        BY DEF SideWaits
    <2>2. /\ x.loaded = b.loaded /\ x.decoding = b.decoding /\ x.prettying = b.prettying
          /\ x.flying => b.flying \/ s \in sides
        BY <1>2, <1>5
    <2>3. s \in sides => \E k \in new : /\ k.kind = "chunk" /\ k.event = m.event /\ k.side = s
                                        /\ k.offset = Len(b.loaded)
        BY <1>a
    <2> HIDE DEF b, x
    <2>4. SideWait(m.event, s, x, Jobs \cup new, lost')
        BY <2>1, <2>2, <2>3 DEF SideWait
    <2> QED
        BY <1>5, <1>7, <2>4 DEF x
<1>10. DiffWaits(n, Jobs', lost')
    BY <1>5, <1>7 DEF DiffWaits
<1>11. ~heir' => DiffsOk(n, Jobs')
    <2>1. DiffOf(n) = DiffOf(m)
        BY <1>2, <1>5 DEF DiffOf, Sides
    <2>2. \A k \in Jobs' : k.kind = "diff" => k \in Jobs
        BY <1>7, <1>a
    <2> QED
        BY <1>5, <2>1, <2>2 DEF DiffsOk
<1> QED
    BY <1>4, <1>6, <1>8, <1>9, <1>10, <1>11 DEF ModalInv, Jobs

\* The lengths fetched: no more than the ceiling leaves.
LEMMA LengthsOk ==
    /\ Provisional \in Nat \ {0} /\ \A s : FirstLen(s) \in Nat
    /\ \A e, s, b : BufferOk(e, s, b) => Least(Chunk, CapOf(b) - Len(b.loaded)) \in Nat
<1>1. Provisional \in Nat \ {0}
    BY DEF Provisional, Greatest
<1>2. \A s : FirstLen(s) \in Nat
    BY <1>1 DEF FirstLen, Least
<1>3. ASSUME NEW e, NEW s, NEW b, BufferOk(e, s, b)
      PROVE  Least(Chunk, CapOf(b) - Len(b.loaded)) \in Nat
    <2>1. b.loaded \in Seq(Nat) /\ b.ceiling \in Nat /\ Len(b.loaded) <= CapOf(b)
        BY <1>3 DEF BufferOk, Buffers
    <2>2. Len(b.loaded) \in Nat /\ CapOf(b) \in Nat
        BY <1>1, <2>1, LenProperties DEF CapOf
    <2> QED
        BY <2>1, <2>2 DEF Least
<1> QED
    BY <1>1, <1>2, <1>3

LEMMA OpenStep ==
    ASSUME ModalInv, NEW e \in Events, Open(e)
    PROVE  ModalInv'
<1> DEFINE tab == IF "Input" \in Available[e] THEN "Input" ELSE "Output"
           m == [event |-> e, tab |-> tab, diffable |-> "Pending",
                 buf |-> [s \in Sides |-> EmptySide],
                 cache |-> NoDiff, gen |-> 0, inflight |-> Idle]
           sides == {tab} \cap Available[e]
           new == {ChunkJob(m.event, s, Len(m.buf[s].loaded), FirstLen(s)) : s \in sides}
<1>1. /\ modal' = Flown(m, sides) /\ jobs' = Spawned(jobs, new)
      /\ opens < MaxOpens /\ opens' = opens + 1 /\ lost' = FALSE
      /\ heir' = \E j \in Under("diff") : j.event = e
    BY DEF Open, Fire, Flown
<1>3. tab \in Sides /\ sides \in SUBSET Sides
    BY DEF Sides
<1>4. EmptySide \in Buffers /\ BufferOk(e, "Input", EmptySide) /\ BufferOk(e, "Output", EmptySide)
    <2>1. <<>> \in Seq(Nat) /\ Len(<<>>) = 0
        BY EmptySeq
    <2>2. EmptySide \in Buffers
        BY <2>1 DEF EmptySide, Buffers, Decodes, Renders, Empty, Unknown
    <2>3. /\ EmptySide.loaded = <<>> /\ EmptySide.ceiling = Unknown /\ ~EmptySide.full
        BY DEF EmptySide
    <2>4. CapOf(EmptySide) \in Nat
        BY <2>3, LengthsOk DEF CapOf
    <2>5. \A s \in Sides : Size[e][s] \in Nat
        OBVIOUS
    <2> HIDE DEF EmptySide
    <2> QED
        BY <2>1, <2>2, <2>3, <2>4, <2>5 DEF BufferOk, Sides
<1>5. Good(m)
    <2> HIDE DEF tab
    <2>1. m \in Modals
        <3>1. [s \in Sides |-> EmptySide] \in [Sides -> Buffers]
            BY <1>4
        <3>2. tab \in Tabs /\ NoDiff \in (Decodes \X Decodes) \cup {NoDiff} /\ Idle \in Nat
            BY <1>3 DEF Tabs, Idle
        <3> HIDE DEF EmptySide, NoDiff, Idle
        <3> QED
            BY <3>1, <3>2 DEF Modals
    <2>2. m.event = e /\ m.inflight <= m.gen /\ \A s \in Sides : m.buf[s] = EmptySide
        BY DEF Idle
    <2> HIDE DEF m
    <2> QED
        BY <1>4, <2>1, <2>2 DEF Good, Sides
<1>6. \A s \in Sides : ~m.buf[s].flying /\ ~m.buf[s].decoding /\ ~m.buf[s].prettying
    BY DEF EmptySide
<1>7. m.gen = 0 /\ m.cache = NoDiff /\ m.event = e
    OBVIOUS
<1> HIDE DEF m, sides
<1>8. \A s \in sides : FirstLen(s) \in Nat
    BY LengthsOk
<1>9. /\ \A k \in new : \E s \in sides : IsFetch(k, m, s)
      /\ \A s \in sides : \E k \in new : IsFetch(k, m, s)
    BY <1>8 DEF IsFetch
<1> HIDE DEF new
<1>11. opens' \in 0..MaxOpens /\ lost' \in BOOLEAN /\ heir' \in BOOLEAN
    <2>1. opens \in Nat /\ opens + 1 <= MaxOpens
        BY <1>1 DEF ModalInv
    <2>2. opens' \in 0..MaxOpens
        BY <1>1, <2>1
    <2>3. heir' \in BOOLEAN
        BY <1>1, Zenon
    <2> QED
        BY <1>1, <2>2, <2>3
<1>12. SideWaits(m, Jobs, lost') /\ DiffWaits(m, Jobs, lost')
    BY <1>6, <1>7 DEF SideWaits, SideWait, DiffWaits
<1>13. ~heir' => DiffsOk(m, Jobs)
    BY <1>1, <1>7 DEF DiffsOk, Under, Jobs
<1> QED
    BY <1>1, <1>3, <1>5, <1>9, <1>11, <1>12, <1>13, FireStep

LEMMA SwitchTabStep ==
    ASSUME ModalInv, NEW tab \in Tabs, SwitchTab(tab)
    PROVE  ModalInv'
<1> DEFINE m == [modal EXCEPT !.tab = tab]
           wanted == (IF tab = "Diff" THEN Sides ELSE {tab}) \cap Available[modal.event]
           sides == {s \in wanted : ~Buf(s).flying /\ Buf(s).loaded = <<>> /\ ~Buf(s).full}
           new == {ChunkJob(m.event, s, Len(m.buf[s].loaded), FirstLen(s)) : s \in sides}
<1>1. /\ modal' = Flown(m, sides) /\ jobs' = Spawned(jobs, new)
      /\ IsOpen /\ UNCHANGED <<opens, lost, heir>>
    BY DEF SwitchTab, Fire, Flown
<1>3. /\ Good(modal) /\ modal.event \in Events
      /\ SideWaits(modal, Jobs, lost) /\ DiffWaits(modal, Jobs, lost)
      /\ ~heir => DiffsOk(modal, Jobs)
    BY <1>1, OpenFacts
<1>4. sides \in SUBSET Sides
    BY DEF Tabs, Sides
<1> HIDE DEF wanted, sides
<1>5. /\ m \in Modals /\ m.event = modal.event /\ m.buf = modal.buf /\ m.gen = modal.gen
      /\ m.inflight = modal.inflight /\ m.cache = modal.cache
    BY <1>3 DEF Good, Modals
<1> HIDE DEF m
<1>6. Good(m)
    BY <1>3, <1>5 DEF Good
<1>7. \A s \in sides : FirstLen(s) \in Nat
    BY LengthsOk
<1>8. /\ \A k \in new : \E s \in sides : IsFetch(k, m, s)
      /\ \A s \in sides : \E k \in new : IsFetch(k, m, s)
    BY <1>7 DEF IsFetch
<1> HIDE DEF new
<1>10. opens' \in 0..MaxOpens /\ lost' \in BOOLEAN /\ heir' \in BOOLEAN
    BY <1>1 DEF ModalInv
<1>11. SideWaits(m, Jobs, lost') /\ DiffWaits(m, Jobs, lost')
    BY <1>1, <1>3, <1>5 DEF SideWaits, DiffWaits
<1>12. ~heir' => DiffsOk(m, Jobs)
    <2>1. DiffOf(m) = DiffOf(modal)
        BY <1>5 DEF DiffOf
    <2> QED
        BY <1>1, <1>3, <1>5, <2>1 DEF DiffsOk
<1> QED
    BY <1>1, <1>4, <1>6, <1>8, <1>10, <1>11, <1>12, FireStep

LEMMA ScrollStep ==
    ASSUME ModalInv, Scroll
    PROVE  ModalInv'
<1> DEFINE rest(s) == Least(Chunk, CapOf(Buf(s)) - Len(Buf(s).loaded))
           sides == {modal.tab}
           new == {ChunkJob(modal.event, s, Len(modal.buf[s].loaded), rest(s)) : s \in sides}
<1>1. /\ modal' = Flown(modal, sides) /\ jobs' = Spawned(jobs, new)
      /\ IsOpen /\ modal.tab \in Sides /\ UNCHANGED <<opens, lost, heir>>
    BY DEF Scroll, Fire, Flown
<1>3. /\ Good(modal) /\ modal.event \in Events
      /\ SideWaits(modal, Jobs, lost) /\ DiffWaits(modal, Jobs, lost)
      /\ ~heir => DiffsOk(modal, Jobs)
      /\ \A s \in Sides : BufferOk(modal.event, s, modal.buf[s])
    BY <1>1, OpenFacts
<1>4. sides \in SUBSET Sides
    BY <1>1
<1>5. \A s \in sides : rest(s) \in Nat
    BY <1>1, <1>3, LengthsOk DEF Buf
<1>6. new = {ChunkJob(modal.event, s, Len(modal.buf[s].loaded), rest(s)) : s \in sides}
    OBVIOUS
<1> HIDE DEF sides, rest
<1>7. /\ \A k \in new : \E s \in sides : IsFetch(k, modal, s)
      /\ \A s \in sides : \E k \in new : IsFetch(k, modal, s)
    BY <1>5 DEF IsFetch
<1> HIDE DEF new
<1>9. opens' \in 0..MaxOpens /\ lost' \in BOOLEAN /\ heir' \in BOOLEAN
    BY <1>1 DEF ModalInv
<1> QED
    BY <1>1, <1>3, <1>4, <1>7, <1>9, FireStep

LEMMA ModalInitInv == ModalInit => ModalInv
<1> SUFFICES ASSUME ModalInit
             PROVE  ModalInv
    OBVIOUS
<1>1. BagToSet(jobs) = {}
    BY DEF ModalInit, EmptyBag, BagToSet, SetToBag
<1>2. opens \in 0..MaxOpens /\ lost \in BOOLEAN /\ heir \in BOOLEAN /\ ~IsOpen
    <2>1. ~IsOpen
        BY DEF ModalInit, IsOpen
    <2>2. lost \in BOOLEAN /\ heir \in BOOLEAN
        BY Zenon DEF ModalInit
    <2>3. opens \in 0..MaxOpens
        BY DEF ModalInit
    <2> QED
        BY <2>1, <2>2, <2>3
<1> QED
    BY <1>1, <1>2 DEF ModalInv

LEMMA ModalStepInv == ModalInv /\ [ModalNext]_modalVars => ModalInv'
<1> SUFFICES ASSUME ModalInv, [ModalNext]_modalVars
             PROVE  ModalInv'
    OBVIOUS
<1>1. CASE UNCHANGED modalVars
    BY <1>1 DEF modalVars, ModalInv, IsOpen
<1>2. CASE Close
    BY <1>2 DEF Close, ModalInv, IsOpen
<1>3. CASE Scroll
    BY <1>3, ScrollStep
<1>4. CASE \E e \in Events : Open(e)
    BY <1>4, OpenStep
<1>5. CASE \E tab \in Tabs : SwitchTab(tab)
    BY <1>5, SwitchTabStep
<1>6. CASE Answered
    BY <1>6, ChunkStep, ChunkErrStep DEF Answered, Under, Jobs
<1>7. CASE DecodeEnd
    BY <1>7, DecodedStep DEF DecodeEnd, Under, Jobs
<1>8. CASE PrettyEnd
    BY <1>8, PrettiedStep DEF PrettyEnd, Under, Jobs
<1>9. CASE DiffEnd
    BY <1>9, DiffBuiltStep DEF DiffEnd, Under, Jobs
<1>10. CASE Dropped
    BY <1>10, DropStep DEF Dropped, Under, Jobs
<1> QED
    BY <1>1, <1>2, <1>3, <1>4, <1>5, <1>6, <1>7, <1>8, <1>9, <1>10 DEF ModalNext, Keys

\* The invariant, of every state the viewer gets to.
THEOREM ModalInvariant == ModalSpec => []ModalInv
BY ModalInitInv, ModalStepInv, PTL DEF ModalSpec

\* What the invariant says of the viewer, by the names of the runs.
LEMMA PrefixFromInv == ModalInv => BufferIsPrefix
<1> SUFFICES ASSUME ModalInv
             PROVE  BufferIsPrefix
    OBVIOUS
<1>1. ModalTypeOK
    <2>1. \A j \in BagToSet(jobs) : j.kind \in {"chunk", "decode", "pretty", "diff"} /\ j.event \in Events
        BY DEF ModalInv, JobOk
    <2>2. ASSUME IsOpen
          PROVE  /\ modal.event \in Events /\ modal.tab \in Tabs
                 /\ modal.diffable \in {"Pending", "Ok", "No"}
                 /\ modal.gen \in Nat /\ modal.inflight \in 0..modal.gen
                 /\ \A s \in Sides : Buf(s).decoded.kind \in Renders /\ Buf(s).ceiling \in Nat
        BY <2>2, OpenFacts DEF Good, Modals, Buffers, Decodes, Buf
    <2> QED
        BY <2>1, <2>2 DEF ModalInv, ModalTypeOK
<1>2. ASSUME IsOpen, NEW s \in Sides
      PROVE  /\ \A i \in 1..Len(Buf(s).loaded) : Buf(s).loaded[i] = i
             /\ Len(Buf(s).loaded) <= CapOf(Buf(s))
             /\ Buf(s).full => Len(Buf(s).loaded) \in {Size[modal.event][s], CapOf(Buf(s))}
    BY <1>2, OpenFacts DEF BufferOk, Buf
<1> QED
    BY <1>1, <1>2 DEF BufferIsPrefix

LEMMA WaitsFromInv == ModalInv => WaitsAreReal
BY OpenFacts DEF WaitsAreReal, SideWait, DiffWaits, Jobs, Under, Buf

LEMMA DiffFromInv == ModalInv => DiffOfShown
BY OpenFacts DEF DiffOfShown, DiffsOk

\* apply_modal_chunk_with_ceiling: what a side holds is the beginning of its
\* content within its ceiling, and complete means the whole of either.
THEOREM SidesStayPrefixes == ModalSpec => []BufferIsPrefix
BY ModalInvariant, PrefixFromInv, PTL

\* in_flight_fetch, the decode and pretty flags, diff_inflight: what they say is
\* under way is, or a full channel dropped it.
THEOREM WaitsStayReal == ModalSpec => []WaitsAreReal
BY ModalInvariant, WaitsFromInv, PTL

\* apply_diff_cache_result: a diff is of the sides as they are shown, but for
\* the diffs of an earlier viewer of the event (heir).
THEOREM DiffStaysOfShown == ModalSpec => []DiffOfShown
BY ModalInvariant, DiffFromInv, PTL

(* Whether the sides can be compared is looked at anew by every handler    *)
(* that changes them, so that a diff that can be built is there, or is     *)
(* being built of what is shown: a step that overtakes one starts another. *)

\* Sides that can be compared have a diff, or one of the two as they are shown
\* now is under way (the safety half of DiffIsBuilt).
DiffIsUnderWay ==
    IsOpen /\ modal.diffable = "Ok" /\ ~lost /\ ~heir =>
        \/ modal.cache = DiffOf(modal)
        \/ \E j \in Under("diff") : /\ j.event = modal.event /\ j.gen = modal.gen
                                    /\ j.diff = DiffOf(modal)

\* A side that shows something has raised the generation, and comparable sides
\* have a diff, or one of this generation is asked for.
Begun(m) == (\E s \in Sides : m.buf[s].full \/ m.buf[s].decoded.kind # "Empty") => m.gen > 0
Asked(m) ==
    /\ Begun(m)
    /\ m.diffable = "Ok" => m.gen > 0 /\ (m.cache # NoDiff \/ m.inflight = m.gen)
AskedInv == IsOpen => Asked(modal)

\* What resolve_diffable finds comparable shows something.
LEMMA ComparableShown ==
    ASSUME NEW m, Begun(m), Resolve(m) = "Ok"
    PROVE  m.gen > 0
<1>1. "Input" \in Sides
    BY DEF Sides
<1>2. CASE Tables(m) = Sides
    <2>1. m.buf["Input"].decoded.kind = "Table"
        BY <1>1, <1>2 DEF Tables
    <2> QED
        BY <1>1, <2>1 DEF Begun
<1>3. CASE Tables(m) # Sides
    <2>1. BothFull(m)
        BY <1>3 DEF Resolve
    <2> QED
        BY <1>1, <2>1 DEF Begun, BothFull
<1> QED
    BY <1>2, <1>3

\* A viewer as long as its fields are concerned.
Shaped(m) ==
    /\ m = [f \in {"event", "tab", "diffable", "buf", "cache", "gen", "inflight"} |-> m[f]]
    /\ m.gen \in Nat

\* take_pending_diff_compute asks for the diff that can be built.
LEMMA ConcludeAsks ==
    ASSUME NEW j, NEW m, Shaped(m), Begun(m), NEW spawned, Conclude(j, m, spawned)
    PROVE  Asked(modal')
<1> DEFINE n == [m EXCEPT !.diffable = Resolve(m)]
           k == [n EXCEPT !.inflight = n.gen]
<1>1. /\ n.diffable = Resolve(m) /\ n.buf = m.buf /\ n.gen = m.gen
      /\ n.cache = m.cache /\ n.inflight = m.inflight
    BY DEF Shaped
<1>2. /\ k.diffable = Resolve(m) /\ k.buf = m.buf /\ k.gen = m.gen
      /\ k.cache = m.cache /\ k.inflight = m.gen
    BY DEF Shaped
<1>3. modal' = TakeDiff(m).modal
    BY DEF Conclude
<1>4. \/ modal' = k
      \/ modal' = n /\ ~(n.diffable = "Ok" /\ n.cache = NoDiff /\ n.inflight # n.gen)
    <2> HIDE DEF k
    <2>1. TakeDiff(m) = IF n.diffable = "Ok" /\ n.cache = NoDiff /\ n.inflight # n.gen
                        THEN [modal |-> k, jobs |-> {DiffJob(n.event, n.gen, DiffOf(n))}]
                        ELSE [modal |-> n, jobs |-> {}]
        BY DEF TakeDiff, k
    <2> HIDE DEF n
    <2> QED
        BY <1>3, <2>1
<1>5. Resolve(m) = "Ok" => m.gen > 0
    BY ComparableShown
<1> HIDE DEF n, k
<1>6. Begun(n) /\ Begun(k)
    BY <1>1, <1>2 DEF Begun
<1> QED
    BY <1>1, <1>2, <1>4, <1>5, <1>6 DEF Asked

\* The generation that Invalidated raises, and a side that shows what it did.
LEMMA GoodShaped ==
    ASSUME NEW m, Good(m)
    PROVE  Shaped(m) /\ \A s \in Sides : m.buf[s] \in Buffers
BY DEF Good, Modals, Shaped

LEMMA InvalidatedBegun ==
    ASSUME NEW m, Shaped(m)
    PROVE  Shaped(Invalidated(m)) /\ Begun(Invalidated(m))
<1>1. Invalidated(m) = [m EXCEPT !.cache = NoDiff, !.gen = m.gen + 1]
    BY DEF Invalidated
<1>2. /\ Invalidated(m).gen = m.gen + 1 /\ m.gen \in Nat
      /\ Invalidated(m) = [f \in {"event", "tab", "diffable", "buf", "cache", "gen", "inflight"} |->
                             Invalidated(m)[f]]
    BY <1>1 DEF Shaped
<1> QED
    BY <1>2 DEF Shaped, Begun

LEMMA SetSideShaped ==
    ASSUME NEW m, Good(m), NEW s \in Sides, NEW b
    PROVE  /\ Shaped(SetSide(m, s, b))
           /\ SetSide(m, s, b).gen = m.gen
           /\ b.full = m.buf[s].full /\ b.decoded = m.buf[s].decoded /\ Begun(m)
                => Begun(SetSide(m, s, b))
<1> DEFINE n == SetSide(m, s, b)
<1>1. m \in Modals /\ m.buf \in [Sides -> Buffers] /\ Shaped(m)
    BY GoodShaped DEF Good, Modals
<1>2. n = [m EXCEPT !.buf = [m.buf EXCEPT ![s] = b]]
    BY DEF SetSide
<1>3. Shaped(n) /\ n.gen = m.gen /\ n.buf = [m.buf EXCEPT ![s] = b]
    BY <1>1, <1>2 DEF Shaped
<1>4. n.buf[s] = b /\ \A o \in Sides \ {s} : n.buf[o] = m.buf[o]
    BY <1>1, <1>3
<1> HIDE DEF n
<1>5. ASSUME b.full = m.buf[s].full, b.decoded = m.buf[s].decoded, Begun(m)
      PROVE  Begun(n)
    BY <1>3, <1>4, <1>5 DEF Begun
<1> QED
    BY <1>3, <1>5 DEF n

LEMMA DiscardAsks ==
    ASSUME ModalInv, AskedInv, NEW j, Discard(j)
    PROVE  AskedInv'
<1>1. CASE IsOpen
    <2>1. Shaped(modal) /\ Begun(modal)
        BY <1>1, OpenFacts, GoodShaped DEF AskedInv, Asked
    <2>2. PICK none : none = {}
        OBVIOUS
    <2>3. Conclude(j, modal, none)
        BY <1>1, <2>2 DEF Discard
    <2> QED
        BY <2>1, <2>3, ConcludeAsks DEF AskedInv
<1>2. CASE ~IsOpen
    BY <1>2 DEF Discard, AskedInv, IsOpen
<1> QED
    BY <1>1, <1>2

LEMMA ChunkAsks ==
    ASSUME ModalInv, AskedInv, NEW j \in Jobs, j.kind = "chunk", ChunkOk(j)
    PROVE  AskedInv'
<1>1. CASE ~About(j)
    BY <1>1, DiscardAsks DEF ChunkOk, Received
<1>2. CASE About(j)
    <2> DEFINE fits == IsOpen /\ j.offset = Len(Buf(j.side).loaded)
               b   == IF fits THEN Extended(Buf(j.side), j) ELSE Buf(j.side)
               todo == Pending(b, j)
               c   == [b EXCEPT !.decoding = b.decoding \/ todo = {"decode"},
                                !.prettying = b.prettying \/ todo = {"pretty"}]
               n   == SetSide(modal, j.side, c)
               m   == IF fits THEN Invalidated(n) ELSE n
               spawned == {[kind |-> k, event |-> j.event, side |-> j.side, bytes |-> b.loaded] :
                              k \in todo}
    <2>1. Conclude(j, m, spawned)
        BY <1>2 DEF ChunkOk, Received
    <2> HIDE DEF spawned
    <2>2. Good(modal) /\ j.side \in Sides /\ modal.buf[j.side] \in Buffers /\ Begun(modal)
        BY <1>2, OpenFacts, GoodShaped DEF About, AskedInv, Asked, ModalInv, JobOk, Jobs
    <2>3. Shaped(n)
        <3> HIDE DEF c
        <3> QED
            BY <2>2, SetSideShaped
    <2>4. ~fits => Begun(n)
        <3> SUFFICES ASSUME ~fits
                     PROVE  Begun(n)
            OBVIOUS
        <3>1. b = modal.buf[j.side]
            BY DEF Buf
        <3> HIDE DEF b, todo
        <3>2. c.full = modal.buf[j.side].full /\ c.decoded = modal.buf[j.side].decoded
            BY <2>2, <3>1 DEF Buffers
        <3> HIDE DEF c
        <3> QED
            BY <2>2, <3>2, SetSideShaped
    <2> HIDE DEF n, fits
    <2>5. Shaped(m) /\ Begun(m)
        BY <2>3, <2>4, InvalidatedBegun
    <2> HIDE DEF m
    <2> QED
        BY <2>1, <2>5, ConcludeAsks DEF AskedInv
<1> QED
    BY <1>1, <1>2

LEMMA DecodedAsks ==
    ASSUME ModalInv, AskedInv, NEW j \in Jobs, j.kind = "decode", Decoded(j)
    PROVE  AskedInv'
<1>1. CASE ~(About(j) /\ Buf(j.side).decoding)
    BY <1>1, DiscardAsks DEF Decoded
<1>2. CASE About(j) /\ Buf(j.side).decoding
    <2>1. PICK x : x = [Buf(j.side) EXCEPT !.decoding = FALSE,
                            !.decoded = [kind |-> Render(j), of |-> j.bytes]]
        OBVIOUS
    <2>2. PICK none : none = {}
        OBVIOUS
    <2>3. Conclude(j, Invalidated(SetSide(modal, j.side, x)), none)
        BY <1>2, <2>1, <2>2 DEF Decoded
    <2>4. Good(modal) /\ j.side \in Sides
        BY <1>2, OpenFacts DEF About, ModalInv, JobOk, Jobs
    <2>5. Shaped(SetSide(modal, j.side, x))
        BY <2>4, SetSideShaped
    <2> QED
        BY <2>3, <2>5, InvalidatedBegun, ConcludeAsks DEF AskedInv
<1> QED
    BY <1>1, <1>2

LEMMA PrettiedAsks ==
    ASSUME ModalInv, AskedInv, NEW j \in Jobs, j.kind = "pretty", Prettied(j)
    PROVE  AskedInv'
<1>1. CASE ~(About(j) /\ Buf(j.side).prettying)
    BY <1>1, DiscardAsks DEF Prettied
<1>2. CASE About(j) /\ Buf(j.side).prettying
    <2> DEFINE b == modal.buf[j.side]
               x == [b EXCEPT !.prettying = FALSE]
               n == SetSide(modal, j.side, x)
               r == [kind |-> "Pretty", of |-> j.bytes]
    <2>1. Good(modal) /\ j.side \in Sides /\ b \in Buffers /\ Begun(modal)
        BY <1>2, OpenFacts, GoodShaped DEF About, AskedInv, Asked, ModalInv, JobOk, Jobs
    <2>2. PICK none : none = {}
        OBVIOUS
    <2>3. [modal EXCEPT !.buf[j.side].prettying = FALSE] = n
        BY <2>1 DEF SetSide
    <2>4. \/ Conclude(j, n, none)
          \/ Conclude(j, Invalidated([n EXCEPT !.buf[j.side].decoded = r]), none)
        BY <1>2, <2>2, <2>3, Zenon DEF Prettied
    <2>5. x.full = b.full /\ x.decoded = b.decoded
        <3> HIDE DEF b
        <3> QED
            BY <2>1 DEF Buffers
    <2> HIDE DEF x
    <2>6. Shaped(n) /\ Begun(n)
        BY <2>1, <2>5, SetSideShaped
    <2> HIDE DEF n
    <2>7. Shaped([n EXCEPT !.buf[j.side].decoded = r])
        BY <2>6 DEF Shaped
    <2> QED
        BY <2>4, <2>6, <2>7, InvalidatedBegun, ConcludeAsks DEF AskedInv
<1> QED
    BY <1>1, <1>2

\* The steps that change no side's text and do not look at the diff.
LEMMA FlagsAsk ==
    ASSUME NEW m, NEW n, Asked(m), n.gen = m.gen, n.diffable = m.diffable,
           n.cache = m.cache, n.inflight = m.inflight,
           \A s \in Sides : n.buf[s].full = m.buf[s].full /\ n.buf[s].decoded = m.buf[s].decoded
    PROVE  Asked(n)
BY DEF Asked, Begun

LEMMA ChunkErrAsks ==
    ASSUME ModalInv, AskedInv, NEW j \in Jobs, j.kind = "chunk", ChunkErr(j)
    PROVE  AskedInv'
<1>1. CASE ~About(j)
    BY <1>1 DEF ChunkErr, AskedInv, IsOpen
<1>2. CASE About(j)
    <2> DEFINE b == modal.buf[j.side]
               x == [b EXCEPT !.flying = FALSE]
    <2>1. Good(modal) /\ j.side \in Sides /\ b \in Buffers /\ Asked(modal)
        BY <1>2, OpenFacts, GoodShaped DEF About, AskedInv, ModalInv, JobOk, Jobs
    <2>2. modal \in Modals /\ modal.buf \in [Sides -> Buffers]
        BY <2>1 DEF Good, Modals
    <2>3. modal' = [modal EXCEPT !.buf = [modal.buf EXCEPT ![j.side] = x]]
        BY <1>2 DEF ChunkErr
    <2>4. x.full = b.full /\ x.decoded = b.decoded
        <3> HIDE DEF b
        <3> QED
            BY <2>1 DEF Buffers
    <2> HIDE DEF x
    <2>5. /\ modal'.gen = modal.gen /\ modal'.diffable = modal.diffable
          /\ modal'.cache = modal.cache /\ modal'.inflight = modal.inflight
          /\ modal'.buf = [modal.buf EXCEPT ![j.side] = x]
        BY <2>2, <2>3 DEF Modals
    <2>6. \A s \in Sides : /\ modal'.buf[s].full = modal.buf[s].full
                           /\ modal'.buf[s].decoded = modal.buf[s].decoded
        BY <2>2, <2>4, <2>5
    <2> QED
        BY <2>1, <2>5, <2>6, FlagsAsk DEF AskedInv
<1> QED
    BY <1>1, <1>2

LEMMA DiffBuiltAsks ==
    ASSUME ModalInv, AskedInv, NEW j \in Jobs, j.kind = "diff", DiffBuilt(j)
    PROVE  AskedInv'
<1>1. CASE ~(About(j) /\ modal.gen = j.gen)
    BY <1>1 DEF DiffBuilt, AskedInv, IsOpen
<1>2. CASE About(j) /\ modal.gen = j.gen
    <2>1. modal \in Modals /\ Asked(modal) /\ j.diff \in Decodes \X Decodes
        BY <1>2, OpenFacts DEF About, AskedInv, ModalInv, JobOk, Jobs, Good
    <2>2. modal' = [modal EXCEPT !.cache = j.diff, !.inflight = Idle]
        BY <1>2 DEF DiffBuilt
    <2>3. /\ modal'.gen = modal.gen /\ modal'.diffable = modal.diffable
          /\ modal'.cache = j.diff /\ modal'.buf = modal.buf
        BY <2>1, <2>2 DEF Modals
    <2>4. j.diff # NoDiff
        <3>1. PICK a \in Decodes, b \in Decodes : j.diff = <<a, b>>
            BY <2>1
        <3>2. Len(<<a, b>>) = 2 /\ Len(<<>>) = 0
            OBVIOUS
        <3> QED
            BY <3>1, <3>2 DEF NoDiff
    <2> QED
        BY <2>1, <2>3, <2>4 DEF AskedInv, Asked, Begun
<1> QED
    BY <1>1, <1>2

\* Fetches only set a side in flight.
LEMMA FireAsks ==
    ASSUME NEW m, Good(m), Asked(m), NEW sides, modal' = Flown(m, sides)
    PROVE  AskedInv'
<1> DEFINE bufs == [s \in Sides |-> IF s \in sides THEN [m.buf[s] EXCEPT !.flying = TRUE] ELSE m.buf[s]]
<1>1. m \in Modals /\ \A s \in Sides : m.buf[s] \in Buffers
    BY GoodShaped DEF Good
<1>2. \A s \in Sides : bufs[s].full = m.buf[s].full /\ bufs[s].decoded = m.buf[s].decoded
    <2> TAKE s \in Sides
    <2>1. PICK b \in Buffers : b = m.buf[s]
        BY <1>1
    <2>2. bufs[s] = IF s \in sides THEN [b EXCEPT !.flying = TRUE] ELSE b
        BY <2>1
    <2> HIDE DEF bufs
    <2> QED
        BY <2>1, <2>2 DEF Buffers
<1>3. modal' = [m EXCEPT !.buf = bufs]
    BY DEF Flown
<1> HIDE DEF bufs
<1>4. /\ modal'.gen = m.gen /\ modal'.diffable = m.diffable /\ modal'.cache = m.cache
      /\ modal'.inflight = m.inflight /\ modal'.buf = bufs
    BY <1>1, <1>3 DEF Modals
<1> QED
    BY <1>2, <1>4, FlagsAsk DEF AskedInv

LEMMA KeysAsk ==
    ASSUME ModalInv, AskedInv, Keys
    PROVE  AskedInv'
<1>1. CASE Close
    BY <1>1 DEF Close, AskedInv, IsOpen
<1>2. CASE Scroll
    <2>1. IsOpen /\ modal' = Flown(modal, {modal.tab})
        BY <1>2 DEF Scroll, Fire, Flown
    <2> QED
        BY <2>1, OpenFacts, FireAsks DEF AskedInv
<1>3. ASSUME NEW e \in Events, Open(e)
      PROVE  AskedInv'
    <2> DEFINE tab == IF "Input" \in Available[e] THEN "Input" ELSE "Output"
               m == [event |-> e, tab |-> tab, diffable |-> "Pending",
                     buf |-> [s \in Sides |-> EmptySide],
                     cache |-> NoDiff, gen |-> 0, inflight |-> Idle]
               sides == {tab} \cap Available[e]
    <2>1. modal' = Flown(m, sides)
        BY <1>3 DEF Open, Fire, Flown
    <2>2. /\ modal'.diffable = "Pending"
          /\ modal'.buf = [s \in Sides |-> IF s \in sides THEN [m.buf[s] EXCEPT !.flying = TRUE] ELSE m.buf[s]]
        BY <2>1 DEF Flown
    <2>3. \A s \in Sides : ~modal'.buf[s].full /\ modal'.buf[s].decoded.kind = "Empty"
        BY <2>2 DEF EmptySide, Empty
    <2> QED
        BY <2>2, <2>3 DEF AskedInv, Asked, Begun
<1>4. ASSUME NEW tab \in Tabs, SwitchTab(tab)
      PROVE  AskedInv'
    <2> DEFINE m == [modal EXCEPT !.tab = tab]
               wanted == (IF tab = "Diff" THEN Sides ELSE {tab}) \cap Available[modal.event]
               sides == {s \in wanted : ~Buf(s).flying /\ Buf(s).loaded = <<>> /\ ~Buf(s).full}
    <2>1. modal' = Flown(m, sides)
        BY <1>4 DEF SwitchTab, Fire, Flown
    <2>2. Good(modal) /\ Asked(modal)
        BY <1>4, OpenFacts DEF SwitchTab, AskedInv
    <2>3. /\ m \in Modals /\ m.event = modal.event /\ m.buf = modal.buf /\ m.gen = modal.gen
          /\ m.inflight = modal.inflight /\ m.cache = modal.cache /\ m.diffable = modal.diffable
        BY <2>2 DEF Good, Modals
    <2> HIDE DEF m
    <2>4. Good(m) /\ Asked(m)
        BY <2>2, <2>3, FlagsAsk DEF Good
    <2> QED
        BY <2>1, <2>4, FireAsks
<1> QED
    BY <1>1, <1>2, <1>3, <1>4 DEF Keys

LEMMA AskedStep == ModalInv /\ AskedInv /\ [ModalNext]_modalVars => AskedInv'
<1> SUFFICES ASSUME ModalInv, AskedInv, [ModalNext]_modalVars
             PROVE  AskedInv'
    OBVIOUS
<1>1. CASE UNCHANGED modalVars
    BY <1>1 DEF modalVars, AskedInv, IsOpen
<1>2. CASE Keys
    BY <1>2, KeysAsk
<1>3. CASE Answered
    BY <1>3, ChunkAsks, ChunkErrAsks DEF Answered, Under, Jobs
<1>4. CASE DecodeEnd
    BY <1>4, DecodedAsks DEF DecodeEnd, Under, Jobs
<1>5. CASE PrettyEnd
    BY <1>5, PrettiedAsks DEF PrettyEnd, Under, Jobs
<1>6. CASE DiffEnd
    BY <1>6, DiffBuiltAsks DEF DiffEnd, Under, Jobs
<1>7. CASE Dropped
    BY <1>7 DEF Dropped, Drop, AskedInv, IsOpen
<1> QED
    BY <1>1, <1>2, <1>3, <1>4, <1>5, <1>6, <1>7 DEF ModalNext

LEMMA AskedServed == ModalInv /\ AskedInv => DiffIsUnderWay
<1> SUFFICES ASSUME ModalInv, AskedInv, IsOpen, modal.diffable = "Ok", ~lost, ~heir,
                    modal.cache # DiffOf(modal)
             PROVE  \E j \in Under("diff") : /\ j.event = modal.event /\ j.gen = modal.gen
                                             /\ j.diff = DiffOf(modal)
    BY DEF DiffIsUnderWay
<1>1. DiffWaits(modal, Jobs, lost) /\ DiffsOk(modal, Jobs) /\ Asked(modal)
    BY OpenFacts DEF AskedInv
<1>2. modal.inflight = modal.gen /\ modal.gen > 0
    BY <1>1 DEF Asked, DiffsOk
<1>3. PICK j \in Jobs : j.kind = "diff" /\ j.event = modal.event /\ j.gen = modal.gen
    BY <1>1, <1>2 DEF DiffWaits
<1>4. j.diff = DiffOf(modal) /\ j \in Under("diff")
    BY <1>1, <1>3 DEF DiffsOk, Under, Jobs
<1> QED
    BY <1>3, <1>4

\* take_pending_diff_compute: of sides that can be compared a diff is there or
\* is being built, of what is shown now and of nothing older, whatever chunks,
\* decodings and pretty-prints overtook it, unless a full channel dropped it.
THEOREM DiffStaysUnderWay == ModalSpec => []DiffIsUnderWay
<1>1. ModalInit => AskedInv
    BY DEF ModalInit, AskedInv, IsOpen
<1> QED
    BY <1>1, ModalInvariant, AskedStep, AskedServed, PTL DEF ModalSpec
=============================================================================
