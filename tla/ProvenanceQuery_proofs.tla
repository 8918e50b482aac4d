------------------------ MODULE ProvenanceQuery_proofs ------------------------
(***************************************************************************)
(* Proofs about ProvenanceQuery, for any number of queries and any         *)
(* channel.  The rows can only come from the query the status names, so    *)
(* the invariant adds what the status may name (RunningAnnounced).         *)
(***************************************************************************)
EXTENDS ProvenanceQuery, TLAPS

\* The query awaited by its id is the one announced last.
RunningAnnounced == status.kind = "Running" => status.of \in {NoQuery, announced}

\* A query NiFi holds has a worker that will drop its guard, or the DELETE
\* has been spawned or sent.
Guarded ==
    \A q \in server : \/ phase[q] \in {"announce", "sleep", "poll", "progress", "complete", "failed"}
                      \/ q \in cleanup \cup deleted

\* Workers are numbered as they are spawned.
Unborn == \A q \in Queries : q > started => phase[q] = "unborn"

\* The safety half of RunningEnds.  A query the status names is at work, or the
\* report that ends it is in the channel; a Started still to be handled comes
\* before that report.
AtWork == {"sleep", "poll", "progress", "complete", "failed"}
Ends(at, sent, q, first) ==
    \/ at[q] \in AtWork
    \/ \E i \in first..Len(sent) : sent[i].kind \in {"Done", "Failed"} /\ sent[i].of = q
StartedEnds ==
    \A i \in 1..Len(chan) :
        chan[i].kind = "Started" => Ends(phase, chan, chan[i].of, i + 1)

\* Before it has an id, the query started last is on its way to one, or to a
\* refusal.
Begins ==
    /\ started \in Queries
    /\ \/ phase[started] \in {"submit", "refused", "announce"}
       \/ \E i \in 1..Len(chan) : \/ chan[i] = [kind |-> "Started", of |-> started]
                                  \/ chan[i] = [kind |-> "Failed", of |-> NoQuery]
RunningIsServed ==
    status.kind = "Running" =>
        /\ status.of = NoQuery => Begins
        /\ status.of # NoQuery => Ends(phase, chan, status.of, 1)

ViewInv == RowsWhenDone /\ RowsOfAnnounced /\ RunningAnnounced

IInv == TypeOK /\ ViewInv /\ Guarded /\ Unborn

USE ProvenanceQueryAssumption

-----------------------------------------------------------------------------
LEMMA InitInv == Init => IInv
<1> SUFFICES ASSUME Init PROVE IInv
    OBVIOUS
<1>1. TypeOK
    <2>1. chan \in Seq(Payloads)
        BY DEF Init
    <2>2. status \in Statuses
        BY DEF Init, Statuses, Is
    <2> QED
        BY <2>1, <2>2 DEF Init, TypeOK, Queries, Phases, NoQuery
<1>2. ViewInv /\ Guarded /\ Unborn
    BY DEF Init, Unborn, ViewInv, RowsWhenDone, RowsOfAnnounced, RunningAnnounced, Guarded, Is
<1> QED
    BY <1>1, <1>2 DEF IInv

\* What a worker does to the types: it moves, sends and leaves its guard.
LEMMA MoveType ==
    ASSUME TypeOK, NEW q \in Queries, NEW p \in Phases, Goto(q, p)
    PROVE  phase' \in [Queries -> Phases]
BY DEF TypeOK, Goto

LEMMA SendType ==
    ASSUME TypeOK, NEW kind, NEW q, Send(kind, q), [kind |-> kind, of |-> q] \in Payloads
    PROVE  chan' \in Seq(Payloads)
BY DEF TypeOK, Send

LEMMA QueryPayload ==
    ASSUME NEW q \in Queries, NEW kind \in {"Started", "Progress", "Done", "Failed"}
    PROVE  [kind |-> kind, of |-> q] \in Payloads
BY DEF Payloads

LEMMA WorkerType ==
    ASSUME TypeOK, NEW q \in Queries, Worker(q) \/ Cleanup(q)
    PROVE  TypeOK'
<1>1. CASE Submit(q)
    BY <1>1, MoveType DEF Submit, TypeOK, Phases, viewVars
<1>2. CASE Refuse(q)
    <2>1. chan' \in Seq(Payloads)
        BY <1>2, SendType DEF Refuse, Payloads
    <2> QED
        BY <1>2, <2>1, MoveType DEF Refuse, TypeOK, Phases, nifiVars, viewVars
<1>3. CASE Announce(q)
    <2>1. chan' \in Seq(Payloads)
        BY <1>3, SendType, QueryPayload DEF Announce
    <2> QED
        BY <1>3, <2>1, MoveType DEF Announce, TypeOK, Phases, nifiVars, viewVars
<1>4. CASE Wake(q) \/ TimeOut(q) \/ Poll(q)
    BY <1>4, MoveType DEF Wake, TimeOut, Poll, TypeOK, Phases, nifiVars, viewVars
<1>5. CASE Progress(q)
    <2>1. chan' \in Seq(Payloads)
        BY <1>5, SendType, QueryPayload DEF Progress
    <2> QED
        BY <1>5, <2>1, MoveType DEF Progress, TypeOK, Phases, nifiVars, viewVars
<1>6. CASE Finish(q)
    <2>1. chan' \in Seq(Payloads)
        BY <1>6, SendType, QueryPayload DEF Finish
    <2> QED
        BY <1>6, <2>1, MoveType DEF Finish, TypeOK, Phases, viewVars
<1>7. CASE Cleanup(q)
    BY <1>7 DEF Cleanup, TypeOK, taskVars, viewVars
<1> QED
    BY <1>1, <1>2, <1>3, <1>4, <1>5, <1>6, <1>7 DEF Worker

LEMMA UserType ==
    ASSUME TypeOK, User
    PROVE  TypeOK'
<1>1. CASE SubmitQuery
    <2>1. started' \in Queries
        BY <1>1 DEF SubmitQuery, TypeOK, Queries
    <2>2. status' \in Statuses
        BY <1>1 DEF SubmitQuery, Running, Statuses
    <2> QED
        BY <1>1, <2>1, <2>2, MoveType DEF SubmitQuery, TypeOK, Phases, nifiVars, Queries
<1>2. CASE NewQuery
    <2>1. status' \in Statuses
        BY <1>2 DEF NewQuery, Is, Statuses
    <2> QED
        BY <1>2, <2>1 DEF NewQuery, TypeOK, taskVars, nifiVars
<1>3. CASE LeaveTab
    <2>1. status' \in Statuses
        BY <1>3 DEF LeaveTab, Is, Statuses
    <2> QED
        BY <1>3, <2>1 DEF LeaveTab, TypeOK, taskVars, nifiVars
<1> QED
    BY <1>1, <1>2, <1>3 DEF User

LEMMA HeadPayload ==
    ASSUME TypeOK, chan # <<>>
    PROVE  Head(chan) \in Payloads /\ Tail(chan) \in Seq(Payloads)
BY DEF TypeOK

LEMMA HandleType ==
    ASSUME TypeOK, Handle
    PROVE  TypeOK'
<1> DEFINE m == Head(chan)
<1>1. m \in Payloads /\ chan' \in Seq(Payloads)
    BY HeadPayload DEF Handle
<1>2. status' \in Statuses /\ rows' \in Queries \cup {NoQuery}
          /\ announced' \in Queries \cup {NoQuery}
    <2> HIDE DEF m
    <2>1. CASE HandleStarted(m)
        BY <1>1, <2>1 DEF HandleStarted, Payloads, Statuses, Running
    <2>2. CASE HandleProgress(m)
        BY <2>2 DEF HandleProgress, TypeOK, viewVars
    <2>3. CASE HandleDone(m)
        BY <1>1, <2>3 DEF HandleDone, Payloads, Statuses, Is, TypeOK
    <2>4. CASE HandleFailed(m)
        BY <2>4 DEF HandleFailed, Statuses, Is, TypeOK
    <2>5. HandleStarted(m) \/ HandleProgress(m) \/ HandleDone(m) \/ HandleFailed(m)
        BY DEF Handle, m
    <2> QED
        BY <2>1, <2>2, <2>3, <2>4, <2>5
<1> QED
    BY <1>1, <1>2 DEF Handle, TypeOK, taskVars, nifiVars

-----------------------------------------------------------------------------
LEMMA HandleView ==
    ASSUME TypeOK, ViewInv, Handle
    PROVE  ViewInv'
<1> DEFINE m == Head(chan)
<1>1. m \in Payloads
    BY HeadPayload DEF Handle
<1>2. m.of \in Queries \/ m.kind = "Failed"
    BY <1>1 DEF Payloads
<1> HIDE DEF m
<1> USE DEF ViewInv, RowsWhenDone, RowsOfAnnounced, RunningAnnounced
<1>3. CASE HandleStarted(m)
    BY <1>3 DEF HandleStarted, Running
<1>4. CASE HandleProgress(m)
    BY <1>4 DEF HandleProgress, viewVars
<1>5. CASE HandleDone(m)
    BY <1>2, <1>5 DEF HandleDone, Running, Is, Queries, NoQuery
<1>6. CASE HandleFailed(m)
    BY <1>6 DEF HandleFailed, Is
<1>7. HandleStarted(m) \/ HandleProgress(m) \/ HandleDone(m) \/ HandleFailed(m)
    BY DEF Handle, m
<1> QED
    BY <1>3, <1>4, <1>5, <1>6, <1>7

LEMMA StepView ==
    ASSUME TypeOK, ViewInv, [Next]_vars
    PROVE  ViewInv'
<1> USE DEF ViewInv, RowsWhenDone, RowsOfAnnounced, RunningAnnounced
<1>1. CASE User
    BY <1>1 DEF User, SubmitQuery, NewQuery, LeaveTab, Running, Is, NoQuery
<1>2. CASE Handle
    BY <1>2, HandleView
<1>3. CASE (\E q \in Queries : Worker(q) \/ Cleanup(q)) \/ UNCHANGED vars
    <2>1. UNCHANGED viewVars
        BY <1>3 DEF vars, Worker, Submit, Refuse, Announce, Wake, TimeOut, Poll, Progress,
                    Finish, Cleanup
    <2> QED
        BY <2>1 DEF viewVars
<1> QED
    BY <1>1, <1>2, <1>3 DEF Next

LEMMA StepUnborn ==
    ASSUME TypeOK, Unborn, [Next]_vars
    PROVE  Unborn'
<1> USE DEF Unborn, TypeOK, Goto
<1>1. CASE \E q \in Queries : Worker(q)
    BY <1>1 DEF Worker, Submit, Refuse, Announce, Wake, TimeOut, Poll, Progress, Finish, Queries
<1>2. CASE SubmitQuery
    BY <1>2 DEF SubmitQuery, Queries
<1>3. CASE NewQuery \/ LeaveTab \/ Handle \/ UNCHANGED vars \/ \E q \in Queries : Cleanup(q)
    BY <1>3 DEF NewQuery, LeaveTab, Handle, Cleanup, vars, taskVars
<1> QED
    BY <1>1, <1>2, <1>3 DEF Next, User

LEMMA StepGuarded ==
    ASSUME TypeOK, Guarded, Unborn, [Next]_vars
    PROVE  Guarded'
<1> USE DEF Guarded
<1>1. CASE \E q \in Queries : Worker(q)
    <2> PICK q \in Queries : Worker(q)
        BY <1>1
    <2> USE DEF TypeOK, Goto
    <2>1. CASE Submit(q)
        BY <2>1 DEF Submit
    <2>2. CASE Refuse(q)
        BY <2>2 DEF Refuse, nifiVars
    <2>3. CASE Announce(q) \/ Wake(q) \/ TimeOut(q) \/ Poll(q) \/ Progress(q)
        BY <2>3 DEF Announce, Wake, TimeOut, Poll, Progress, nifiVars
    <2>4. CASE Finish(q)
        BY <2>4 DEF Finish
    <2> QED
        BY <2>1, <2>2, <2>3, <2>4 DEF Worker
<1>2. CASE \E q \in Queries : Cleanup(q)
    BY <1>2 DEF Cleanup, taskVars
<1>3. CASE User \/ Handle \/ UNCHANGED vars
    <2>1. UNCHANGED nifiVars
        BY <1>3 DEF User, SubmitQuery, NewQuery, LeaveTab, Handle, vars
    <2>2. UNCHANGED phase \/ SubmitQuery
        BY <1>3 DEF User, NewQuery, LeaveTab, Handle, vars, taskVars
    <2>3. CASE SubmitQuery
        <3>1. started' \in Queries /\ phase[started'] = "unborn"
            BY <2>3 DEF SubmitQuery, TypeOK, Queries, Unborn
        <3>2. \A q \in server : q # started' => phase'[q] = phase[q]
            BY <2>3 DEF SubmitQuery, Goto, TypeOK
        <3> QED
            BY <2>1, <3>1, <3>2 DEF nifiVars
    <2> QED
        BY <2>1, <2>2, <2>3 DEF nifiVars
<1> QED
    BY <1>1, <1>2, <1>3 DEF Next

LEMMA Invariance == Spec => []IInv
<1>1. IInv /\ [Next]_vars => IInv'
    <2> SUFFICES ASSUME IInv, [Next]_vars PROVE IInv'
        OBVIOUS
    <2>1. TypeOK'
        <3>1. CASE UNCHANGED vars
            BY <3>1 DEF IInv, TypeOK, vars, taskVars, nifiVars, viewVars
        <3> QED
            BY <3>1, WorkerType, UserType, HandleType DEF IInv, Next
    <2> QED
        BY <2>1, StepView, StepGuarded, StepUnborn DEF IInv
<1> QED
    BY <1>1, InitInv, PTL DEF Spec

-----------------------------------------------------------------------------
\* What a worker sends comes after what is in the channel.
LEMMA WorkerSends ==
    ASSUME TypeOK, NEW q \in Queries, Worker(q)
    PROVE  /\ UNCHANGED <<started, viewVars>>
           /\ \A p \in Queries : p # q => phase'[p] = phase[p]
           /\ Len(chan) \in Nat /\ Len(chan') \in Nat /\ Len(chan) <= Len(chan')
           /\ \A i \in 1..Len(chan) : chan'[i] = chan[i]
           /\ \/ UNCHANGED chan /\ phase[q] \in {"submit"} /\ phase'[q] \in {"announce", "refused"}
              \/ UNCHANGED chan /\ phase[q] \in AtWork /\ phase'[q] \in AtWork
              \/ /\ Len(chan') = Len(chan) + 1
                 /\ \/ /\ phase[q] = "refused" /\ phase'[q] = "done"
                       /\ chan'[Len(chan) + 1] = [kind |-> "Failed", of |-> NoQuery]
                    \/ /\ phase[q] = "announce" /\ phase'[q] \in AtWork
                       /\ chan'[Len(chan) + 1] = [kind |-> "Started", of |-> q]
                    \/ /\ phase[q] \in AtWork /\ phase'[q] \in AtWork
                       /\ chan'[Len(chan) + 1] = [kind |-> "Progress", of |-> q]
                    \/ /\ phase[q] \in AtWork
                       /\ chan'[Len(chan) + 1].kind \in {"Done", "Failed"}
                       /\ chan'[Len(chan) + 1].of = q
<1> USE DEF AtWork
<1>1. chan \in Seq(Payloads) /\ Len(chan) \in Nat /\ phase \in [Queries -> Phases]
    BY DEF TypeOK
<1>2. UNCHANGED <<started, viewVars>> /\ \A p \in Queries : p # q => phase'[p] = phase[p]
    BY <1>1 DEF Worker, Submit, Refuse, Announce, Wake, TimeOut, Poll, Progress, Finish, Goto
<1>3. ASSUME NEW m, chan' = Append(chan, m)
      PROVE  /\ Len(chan') = Len(chan) + 1 /\ chan'[Len(chan) + 1] = m
             /\ \A i \in 1..Len(chan) : chan'[i] = chan[i]
    BY <1>1, <1>3
<1>4. CASE Submit(q)
    BY <1>1, <1>2, <1>4 DEF Submit, Goto
<1>5. CASE Wake(q) \/ TimeOut(q) \/ Poll(q)
    BY <1>1, <1>2, <1>5 DEF Wake, TimeOut, Poll, Goto
<1>6. CASE Refuse(q)
    <2>1. /\ chan' = Append(chan, [kind |-> "Failed", of |-> NoQuery])
          /\ phase[q] = "refused" /\ phase'[q] = "done"
        BY <1>1, <1>6 DEF Refuse, Send, Goto
    <2> QED
        BY <1>1, <1>2, <1>3, <2>1
<1>7. CASE Announce(q)
    <2>1. /\ chan' = Append(chan, [kind |-> "Started", of |-> q])
          /\ phase[q] = "announce" /\ phase'[q] = "sleep"
        BY <1>1, <1>7 DEF Announce, Send, Goto
    <2> QED
        BY <1>1, <1>2, <1>3, <2>1
<1>8. CASE Progress(q)
    <2>1. /\ chan' = Append(chan, [kind |-> "Progress", of |-> q])
          /\ phase[q] = "progress" /\ phase'[q] = "sleep"
        BY <1>1, <1>8 DEF Progress, Send, Goto
    <2> QED
        BY <1>1, <1>2, <1>3, <2>1
<1>9. CASE Finish(q)
    <2>1. PICK kind \in {"Done", "Failed"} : chan' = Append(chan, [kind |-> kind, of |-> q])
        BY <1>9 DEF Finish, Send
    <2>2. phase[q] \in {"complete", "failed"}
        BY <1>9 DEF Finish
    <2> QED
        BY <1>1, <1>2, <1>3, <2>1, <2>2
<1> QED
    BY <1>4, <1>5, <1>6, <1>7, <1>8, <1>9 DEF Worker

LEMMA WorkerServes ==
    ASSUME TypeOK, StartedEnds, RunningIsServed, NEW q \in Queries, Worker(q)
    PROVE  StartedEnds' /\ RunningIsServed'
<1>1. /\ started' = started /\ status' = status
      /\ \A p \in Queries : p # q => phase'[p] = phase[p]
      /\ Len(chan) \in Nat /\ Len(chan') \in Nat /\ Len(chan) <= Len(chan')
      /\ \A i \in 1..Len(chan) : chan'[i] = chan[i]
    BY WorkerSends DEF viewVars
<1>2. ASSUME NEW p \in Queries, NEW first \in Nat \ {0}, Ends(phase, chan, p, first), first <= Len(chan) + 1
      PROVE  Ends(phase', chan', p, first)
    <2>1. CASE phase[p] \in AtWork
        <3>1. CASE p # q
            BY <1>1, <2>1, <3>1 DEF Ends
        <3>2. CASE p = q
            <4>1. \/ phase'[q] \in AtWork
                  \/ /\ Len(chan') = Len(chan) + 1 /\ chan'[Len(chan) + 1].of = q
                     /\ chan'[Len(chan) + 1].kind \in {"Done", "Failed"}
                BY <2>1, <3>2, WorkerSends DEF AtWork
            <4>2. Len(chan') = Len(chan) + 1 => Len(chan) + 1 \in first..Len(chan')
                BY <1>1, <1>2
            <4> QED
                BY <3>2, <4>1, <4>2 DEF Ends
        <3> QED
            BY <3>1, <3>2
    <2>2. CASE \E i \in first..Len(chan) : chan[i].kind \in {"Done", "Failed"} /\ chan[i].of = p
        <3>1. PICK i \in first..Len(chan) : chan[i].kind \in {"Done", "Failed"} /\ chan[i].of = p
            BY <2>2
        <3>2. i \in first..Len(chan') /\ chan'[i] = chan[i]
            BY <1>1, <3>1
        <3> QED
            BY <3>1, <3>2 DEF Ends
    <2> QED
        BY <1>2, <2>1, <2>2 DEF Ends
<1>3. StartedEnds'
    <2> SUFFICES ASSUME NEW i \in 1..Len(chan'), chan'[i].kind = "Started"
                 PROVE  Ends(phase', chan', chan'[i].of, i + 1)
        BY DEF StartedEnds, Ends
    <2>1. CASE i <= Len(chan)
        <3>1. i \in 1..Len(chan) /\ chan'[i] = chan[i]
            BY <1>1, <2>1
        <3>2. chan[i].of \in Queries
            BY <2>1, <3>1 DEF TypeOK, Payloads
        <3>3. Ends(phase, chan, chan[i].of, i + 1) /\ i + 1 \in Nat \ {0} /\ i + 1 <= Len(chan) + 1
            BY <1>1, <3>1 DEF StartedEnds
        <3>4. \A p \in Queries : Ends(phase, chan, p, i + 1) => Ends(phase', chan', p, i + 1)
            BY <1>2, <3>3
        <3> QED
            BY <3>1, <3>2, <3>3, <3>4 DEF Ends
    <2>2. CASE i > Len(chan)
        <3>0. Len(chan') = Len(chan) + 1 /\ i = Len(chan) + 1
            <4>1. Len(chan') = Len(chan) + 1 \/ chan' = chan
                BY WorkerSends
            <4> QED
                BY <1>1, <2>2, <4>1
        <3>1. chan'[i].of = q /\ phase'[q] \in AtWork
            <4> DEFINE m == chan'[Len(chan) + 1]
            <4>1. m.kind = "Started" /\ chan' # chan
                BY <1>1, <3>0
            <4>2. \/ m = [kind |-> "Failed", of |-> NoQuery]
                  \/ m = [kind |-> "Started", of |-> q] /\ phase'[q] \in AtWork
                  \/ m = [kind |-> "Progress", of |-> q]
                  \/ m.kind \in {"Done", "Failed"}
                BY <4>1, WorkerSends
            <4> HIDE DEF m
            <4>3. m.of = q /\ phase'[q] \in AtWork
                BY <4>1, <4>2
            <4> QED
                BY <3>0, <4>3 DEF m
        <3> QED
            BY <3>1 DEF Ends
    <2> QED
        BY <1>1, <2>1, <2>2
<1>4. RunningIsServed'
    <2> SUFFICES ASSUME status.kind = "Running" PROVE RunningIsServed'
        BY <1>1 DEF RunningIsServed
    <2>1. CASE status.of # NoQuery
        <3>1. status.of \in Queries /\ Ends(phase, chan, status.of, 1)
            BY <2>1 DEF RunningIsServed, TypeOK, Statuses
        <3>2. Ends(phase', chan', status.of, 1)
            BY <1>1, <1>2, <3>1 DEF Ends
        <3> QED
            BY <1>1, <2>1, <3>2 DEF RunningIsServed
    <2>2. CASE status.of = NoQuery
        <3>1. Begins
            BY <2>2 DEF RunningIsServed
        <3>2. Begins'
            <4>1. CASE phase[started] \in {"submit", "refused", "announce"} /\ started = q
                <5>1. \/ phase'[q] \in {"refused", "announce"}
                      \/ /\ Len(chan') = Len(chan) + 1
                         /\ \/ chan'[Len(chan) + 1] = [kind |-> "Failed", of |-> NoQuery]
                            \/ chan'[Len(chan) + 1] = [kind |-> "Started", of |-> q]
                    BY <4>1, WorkerSends DEF AtWork
                <5> QED
                    BY <1>1, <3>1, <4>1, <5>1 DEF Begins
            <4>2. CASE phase[started] \in {"submit", "refused", "announce"} /\ started # q
                BY <1>1, <3>1, <4>2 DEF Begins
            <4>3. CASE \E i \in 1..Len(chan) : \/ chan[i] = [kind |-> "Started", of |-> started]
                                               \/ chan[i] = [kind |-> "Failed", of |-> NoQuery]
                BY <1>1, <3>1, <4>3 DEF Begins
            <4> QED
                BY <3>1, <4>1, <4>2, <4>3 DEF Begins
        <3> QED
            BY <1>1, <2>2, <3>2 DEF RunningIsServed
    <2> QED
        BY <2>1, <2>2
<1> QED
    BY <1>3, <1>4

\* What the UI handles is the first in the channel, and the rest moves up.
LEMMA HandleServes ==
    ASSUME TypeOK, StartedEnds, RunningIsServed, Handle
    PROVE  StartedEnds' /\ RunningIsServed'
<1> DEFINE m == Head(chan)
<1>1. /\ m \in Payloads /\ m = chan[1] /\ 1 \in 1..Len(chan)
      /\ Len(chan) \in Nat /\ Len(chan') = Len(chan) - 1
      /\ \A i \in 1..Len(chan') : i + 1 \in 1..Len(chan) /\ chan'[i] = chan[i + 1]
      /\ \A i \in 2..Len(chan) : i - 1 \in 1..Len(chan') /\ chan'[i - 1] = chan[i]
    BY DEF Handle, TypeOK
<1>2. UNCHANGED <<started, phase>>
    BY DEF Handle, taskVars
<1>3. HandleStarted(m) \/ HandleProgress(m) \/ HandleDone(m) \/ HandleFailed(m)
    BY DEF Handle
<1> HIDE DEF m
<1>4. ASSUME NEW q, NEW first \in 2..Len(chan) + 1, Ends(phase, chan, q, first)
      PROVE  Ends(phase', chan', q, first - 1)
    <2>1. CASE phase[q] \in AtWork
        BY <1>2, <2>1 DEF Ends
    <2>2. CASE \E i \in first..Len(chan) : chan[i].kind \in {"Done", "Failed"} /\ chan[i].of = q
        <3>1. PICK i \in first..Len(chan) : chan[i].kind \in {"Done", "Failed"} /\ chan[i].of = q
            BY <2>2
        <3>2. i - 1 \in (first - 1)..Len(chan') /\ chan'[i - 1] = chan[i]
            BY <1>1, <3>1
        <3> QED
            BY <3>1, <3>2 DEF Ends
    <2> QED
        BY <1>4, <2>1, <2>2 DEF Ends
<1>5. StartedEnds'
    <2> SUFFICES ASSUME NEW i \in 1..Len(chan'), chan'[i].kind = "Started"
                 PROVE  Ends(phase', chan', chan'[i].of, i + 1)
        BY DEF StartedEnds, Ends
    <2>1. Ends(phase, chan, chan[i + 1].of, i + 2) /\ i + 2 \in 2..Len(chan) + 1 /\ (i + 2) - 1 = i + 1
        BY <1>1 DEF StartedEnds
    <2>2. \A q : Ends(phase, chan, q, i + 2) => Ends(phase', chan', q, (i + 2) - 1)
        BY <1>4, <2>1
    <2> QED
        BY <1>1, <2>1, <2>2 DEF Ends
<1> SUFFICES RunningIsServed'
    BY <1>5
\* The status goes on naming a query that ends, or one that begins.
<1>6. ASSUME status' = status, status.kind = "Running", status.of # NoQuery, m.kind = "Progress" \/ m.of # status.of
      PROVE  RunningIsServed'
    <2>1. Ends(phase, chan, status.of, 1)
        BY <1>6 DEF RunningIsServed
    <2>2. Ends(phase, chan, status.of, 2)
        <3>1. m.kind \notin {"Done", "Failed"} \/ m.of # status.of
            BY <1>6
        <3> QED
            BY <1>1, <2>1, <3>1 DEF Ends
    <2>3. \A q : Ends(phase, chan, q, 2) => Ends(phase', chan', q, 2 - 1)
        BY <1>1, <1>4
    <2> QED
        BY <1>6, <2>2, <2>3 DEF RunningIsServed, Ends
<1>7. ASSUME status' = status, status.kind = "Running", status.of = NoQuery,
             m.kind \in {"Progress", "Done"} \/ (m.kind = "Failed" /\ m.of # NoQuery)
      PROVE  RunningIsServed'
    <2>1. Begins
        BY <1>7 DEF RunningIsServed
    <2>2. CASE phase[started] \in {"submit", "refused", "announce"}
        BY <1>2, <1>7, <2>1, <2>2 DEF RunningIsServed, Begins
    <2>3. CASE \E i \in 1..Len(chan) : \/ chan[i] = [kind |-> "Started", of |-> started]
                                       \/ chan[i] = [kind |-> "Failed", of |-> NoQuery]
        <3>1. PICK i \in 1..Len(chan) : \/ chan[i] = [kind |-> "Started", of |-> started]
                                        \/ chan[i] = [kind |-> "Failed", of |-> NoQuery]
            BY <2>3
        <3>2. i # 1
            BY <1>1, <1>7, <3>1
        <3>3. i - 1 \in 1..Len(chan') /\ chan'[i - 1] = chan[i]
            BY <1>1, <3>1, <3>2
        <3> QED
            BY <1>2, <1>7, <2>1, <3>1, <3>3 DEF RunningIsServed, Begins
    <2> QED
        BY <2>1, <2>2, <2>3 DEF Begins
<1>8. CASE HandleStarted(m)
    <2>1. Ends(phase, chan, m.of, 2) /\ m.of \in Queries
        BY <1>1, <1>8 DEF HandleStarted, StartedEnds, Payloads
    <2>2. \A q : Ends(phase, chan, q, 2) => Ends(phase', chan', q, 2 - 1)
        BY <1>1, <1>4
    <2>3. status'.of = m.of /\ m.of # NoQuery
        BY <1>8, <2>1 DEF HandleStarted, Running, Queries, NoQuery
    <2> QED
        BY <2>1, <2>2, <2>3 DEF RunningIsServed, Ends
<1>9. CASE HandleProgress(m)
    BY <1>6, <1>7, <1>9 DEF HandleProgress, viewVars, RunningIsServed
<1>10. CASE HandleDone(m)
    <2>1. CASE status = Running(m.of)
        <3>1. status'.kind # "Running"
            BY <1>10, <2>1 DEF HandleDone, Is
        <3> QED
            BY <3>1 DEF RunningIsServed
    <2>2. CASE status # Running(m.of)
        <3>1. status' = status /\ m.kind = "Done"
            BY <1>10, <2>2 DEF HandleDone
        <3>2. status.kind = "Running" => m.of # status.of
            BY <2>2 DEF Running, TypeOK, Statuses
        <3> QED
            BY <1>6, <1>7, <3>1, <3>2 DEF RunningIsServed
    <2> QED
        BY <2>1, <2>2
<1>11. CASE HandleFailed(m)
    <2>1. CASE status.kind = "Running" /\ m.of \in {NoQuery, status.of}
        <3>1. status'.kind # "Running"
            BY <1>11, <2>1 DEF HandleFailed, Is
        <3> QED
            BY <3>1 DEF RunningIsServed
    <2>2. CASE ~(status.kind = "Running" /\ m.of \in {NoQuery, status.of})
        <3>1. status' = status /\ m.kind = "Failed"
            BY <1>11, <2>2 DEF HandleFailed
        <3> QED
            BY <1>6, <1>7, <2>2, <3>1 DEF RunningIsServed
    <2> QED
        BY <2>1, <2>2
<1> QED
    BY <1>3, <1>5, <1>8, <1>9, <1>10, <1>11

LEMMA StepServed ==
    ASSUME TypeOK, Unborn, StartedEnds, RunningIsServed, [Next]_vars
    PROVE  StartedEnds' /\ RunningIsServed'
<1>1. CASE \E q \in Queries : Worker(q)
    BY <1>1, WorkerServes
<1>2. CASE Handle
    BY <1>2, HandleServes
<1>3. CASE (\E q \in Queries : Cleanup(q)) \/ UNCHANGED vars
    <2>1. UNCHANGED <<started, phase, chan, status>>
        BY <1>3 DEF Cleanup, vars, taskVars, viewVars
    <2> QED
        BY <2>1 DEF StartedEnds, RunningIsServed, Begins, Ends
<1>4. CASE NewQuery \/ LeaveTab
    <2>1. UNCHANGED <<started, phase, chan>> /\ status'.kind # "Running"
        BY <1>4 DEF NewQuery, LeaveTab, taskVars, Is
    <2> QED
        BY <2>1 DEF StartedEnds, RunningIsServed, Ends
<1>5. CASE SubmitQuery
    <2>1. /\ started' \in Queries /\ phase[started'] = "unborn" /\ phase'[started'] = "submit"
          /\ \A q \in Queries : q # started' => phase'[q] = phase[q]
          /\ chan' = chan /\ status' = Running(NoQuery)
        <3>1. started' = started + 1 /\ started' \in Queries /\ started' > started
            BY <1>5 DEF SubmitQuery, TypeOK, Queries
        <3>2. phase' = [phase EXCEPT ![started'] = "submit"] /\ phase \in [Queries -> Phases]
            BY <1>5 DEF SubmitQuery, Goto, TypeOK
        <3>3. chan' = chan /\ status' = Running(NoQuery)
            BY <1>5 DEF SubmitQuery
        <3> QED
            BY <3>1, <3>2, <3>3 DEF Unborn
    <2>2. \A q \in Queries : \A n : Ends(phase, chan, q, n) => Ends(phase', chan', q, n)
        BY <2>1 DEF Ends, AtWork
    <2>3. StartedEnds'
        <3> SUFFICES ASSUME NEW i \in 1..Len(chan), chan[i].kind = "Started"
                     PROVE  Ends(phase', chan', chan'[i].of, i + 1)
            BY <2>1 DEF StartedEnds, Ends
        <3>1. chan[i].of \in Queries
            BY DEF TypeOK, Payloads
        <3> QED
            BY <2>1, <2>2, <3>1 DEF StartedEnds, Ends
    <2>4. RunningIsServed'
        BY <2>1 DEF RunningIsServed, Begins, Running
    <2> QED
        BY <2>3, <2>4
<1> QED
    BY <1>1, <1>2, <1>3, <1>4, <1>5 DEF Next, User

-----------------------------------------------------------------------------
\* Type correctness, for any number of queries.
THEOREM TypeCorrect == Spec => []TypeOK
BY Invariance, PTL DEF IInv

\* apply_payload: the rows are of the query announced last, whatever older
\* queries report and in whatever order.
THEOREM RowsAreAnnounced == Spec => []RowsOfAnnounced
BY Invariance, PTL DEF IInv, ViewInv

\* apply_payload and the keys: rows and status agree.
THEOREM RowsMeanDone == Spec => []RowsWhenDone
BY Invariance, PTL DEF IInv, ViewInv

\* ProvenanceQueryGuard: no accepted query is left without a worker or a
\* DELETE.
THEOREM EveryQueryGuarded == Spec => []Guarded
BY Invariance, PTL DEF IInv

\* apply_payload and the worker's reports: a tab in "running" has a query that
\* will end it.
THEOREM RunningQueriesServed == Spec => []RunningIsServed
<1>1. Init => StartedEnds /\ RunningIsServed
    BY DEF Init, StartedEnds, RunningIsServed, Is
<1>2. TypeOK /\ Unborn /\ StartedEnds /\ RunningIsServed /\ [Next]_vars
          => StartedEnds' /\ RunningIsServed'
    BY StepServed
<1>3. Spec => [](TypeOK /\ Unborn)
    BY Invariance, PTL DEF IInv
<1> QED
    BY <1>1, <1>2, <1>3, PTL DEF Spec
=============================================================================
