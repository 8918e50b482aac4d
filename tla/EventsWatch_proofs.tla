-------------------------- MODULE EventsWatch_proofs --------------------------
(***************************************************************************)
(* Proofs about EventsWatch, for any number of events, any clock, second,  *)
(* buffer and size of an answer.                                           *)
(*                                                                         *)
(* That the cursor loses nothing rests on the clock: events are numbered   *)
(* in the order of their times (Ordered), so what a start date at the      *)
(* cursor's second leaves out is not newer than the cursor; and on a       *)
(* round's answer reaching down to the cursor (PageReachesDown), so that   *)
(* the details may arrive in any order.                                    *)
(***************************************************************************)
EXTENDS EventsWatch, TLAPS

\* Times follow numbers, and nothing is recorded in the future.
Ordered ==
    /\ \A i, j \in 1..Len(recorded) : i <= j => recorded[i] <= recorded[j]
    /\ \A i \in 1..Len(recorded) : recorded[i] <= now

\* Scanned, cut, or recorded in the same tick as an earlier event scanned.
Explained(e) ==
    \/ e \in scanned \cup cut
    \/ \E f \in scanned : f < e /\ recorded[f] = recorded[e]

\* The worker knows of events NiFi recorded, and has its cursor from one.
Known ==
    /\ batch \cup scanned \subseteq 1..Len(recorded)
    /\ cursor # NoEvent => cursor \in scanned
    /\ phase \notin {"poll", "detail"} => batch = {}

\* Between two scans everything up to the cursor is explained.
CursorExplained == phase # "detail" => \A e \in 1..cursor : Explained(e)

\* Below an event of the answer there is nothing but the answer and what is
\* explained.
PageReachesDown == \A b \in batch : \A e \in 1..b : Explained(e) \/ e \in batch

TailInv == Ordered /\ Known /\ CursorExplained /\ PageReachesDown /\ OnlyTwinsSkipped

IInv == TypeOK /\ TailOnlyInView /\ TailInv

USE EventsWatchAssumption

-----------------------------------------------------------------------------
(* Types *)

NiFiType   == /\ now \in 0..MaxTime
              /\ recorded \in Seq(0..MaxTime) /\ Len(recorded) <= MaxEvents
WorkerType == /\ phase \in Phases /\ cursor \in Events \cup {NoEvent}
              /\ batch \subseteq Events /\ scanned \subseteq Events /\ cut \subseteq Events
UiType     == /\ tab \in BOOLEAN /\ status \in Statuses
              /\ buffer \in Seq(Events) /\ Len(buffer) <= BufferCap
              /\ gone \subseteq Events
ChanType   == chan \in Seq(Payloads) /\ Len(chan) <= ChanBound

LEMMA TypeParts == TypeOK <=> NiFiType /\ WorkerType /\ UiType /\ ChanType
BY DEF TypeOK, NiFiType, WorkerType, UiType, ChanType

LEMMA TypePartsNext == NiFiType' /\ WorkerType' /\ UiType' /\ ChanType' => TypeOK'
BY DEF TypeOK, NiFiType, WorkerType, UiType, ChanType

LEMMA InitInv == Init => IInv
<1> SUFFICES ASSUME Init PROVE IInv
    OBVIOUS
<1>1. TypeOK
    <2>1. recorded \in Seq(0..MaxTime) /\ buffer \in Seq(Events) /\ chan \in Seq(Payloads)
        BY DEF Init
    <2>2. Len(recorded) = 0 /\ Len(buffer) = 0 /\ Len(chan) = 0
        BY DEF Init
    <2>3. NiFiType /\ ChanType
        BY <2>1, <2>2 DEF Init, NiFiType, ChanType
    <2>4. WorkerType
        BY DEF Init, WorkerType, Phases
    <2>5. UiType
        <3>1. Len(buffer) <= BufferCap
            BY <2>2
        <3>2. tab \in BOOLEAN /\ status \in Statuses /\ gone \subseteq Events
            BY DEF Init, Statuses
        <3> QED
            BY <2>1, <3>1, <3>2 DEF UiType
    <2> QED
        BY <2>3, <2>4, <2>5 DEF TypeOK, NiFiType, WorkerType, UiType, ChanType
<1>2. TailOnlyInView
    BY DEF Init, TailOnlyInView
<1>3. TailInv
    BY DEF Init, TailInv, Ordered, Known, CursorExplained, PageReachesDown, OnlyTwinsSkipped,
           NoEvent
<1> QED
    BY <1>1, <1>2, <1>3 DEF IInv

LEMMA SendType ==
    ASSUME ChanType, NEW m \in Payloads, Send(m)
    PROVE  ChanType'
BY DEF ChanType, Send

LEMMA NiFiKeepsType ==
    ASSUME TypeOK, Record \/ Elapse
    PROVE  TypeOK'
<1>1. NiFiType'
    <2>1. CASE Record
        <3>1. recorded' \in Seq(0..MaxTime) /\ Len(recorded') = Len(recorded) + 1
            BY <2>1, TypeParts DEF NiFiType, Record
        <3> QED
            BY <2>1, <3>1, TypeParts DEF NiFiType, Record
    <2>2. CASE Elapse
        BY <2>2, TypeParts DEF NiFiType, Elapse
    <2> QED
        BY <2>1, <2>2
<1>2. WorkerType' /\ UiType' /\ ChanType'
    BY TypeParts DEF WorkerType, UiType, ChanType, Record, Elapse, workerVars, uiVars
<1> QED
    BY <1>1, <1>2, TypePartsNext

LEMMA WorkerKeepsType ==
    ASSUME TypeOK, Worker
    PROVE  TypeOK'
<1>1. NiFiType'
    BY TypeParts DEF NiFiType, Worker, SubmitOk, SubmitErr, PollOk, PollErr, Fail, DetailOk,
                     DetailErr, Finish, Wake, nifiVars
<1>2. WorkerType'
    <2> USE TypeParts DEF WorkerType, Phases
    <2>1. CASE SubmitOk
        <3> PICK page \in SUBSET {e \in 1..Len(recorded) : recorded[e] >= Start} :
                    batch' = page /\ cut' \subseteq cut \cup 1..Len(recorded)
            BY <2>1 DEF SubmitOk
        <3>1. 1..Len(recorded) \subseteq Events
            BY DEF NiFiType, Events
        <3> QED
            BY <2>1, <3>1 DEF SubmitOk
    <2>2. CASE SubmitErr \/ PollOk \/ PollErr \/ Fail \/ Finish \/ Wake
        BY <2>2 DEF SubmitErr, PollOk, PollErr, Fail, Finish, Wake
    <2>3. CASE DetailOk \/ DetailErr
        BY <2>3 DEF DetailOk, DetailErr
    <2> QED
        BY <2>1, <2>2, <2>3 DEF Worker
<1>3. UiType'
    <2>1. CASE DetailOk \/ DetailErr
        BY <2>1, TypeParts DEF UiType, WorkerType, DetailOk, DetailErr
    <2>2. CASE UNCHANGED uiVars
        BY <2>2, TypeParts DEF UiType, uiVars
    <2> QED
        BY <2>1, <2>2 DEF Worker, SubmitOk, SubmitErr, PollOk, PollErr, Fail, Finish, Wake
<1>4. ChanType'
    <2>1. CASE DetailOk
        <3>1. \A e \in batch : [kind |-> "Match", event |-> e] \in Payloads
            BY TypeParts DEF Payloads, WorkerType
        <3> QED
            BY <2>1, <3>1, SendType, TypeParts DEF DetailOk, ChanType
    <2>2. CASE Fail \/ Finish
        BY <2>2, SendType, TypeParts DEF Fail, Finish, Payloads
    <2>3. CASE UNCHANGED chan
        BY <2>3, TypeParts DEF ChanType
    <2> QED
        BY <2>1, <2>2, <2>3 DEF Worker, SubmitOk, SubmitErr, PollOk, PollErr, DetailErr, Wake
<1> QED
    BY <1>1, <1>2, <1>3, <1>4, TypePartsNext

\* A full buffer gives up one event before it takes another.
LEMMA PushKeepsCapacity ==
    ASSUME UiType, NEW e \in Events, Push(e)
    PROVE  buffer' \in Seq(Events) /\ Len(buffer') <= BufferCap
<1> USE DEF UiType
<1>1. CASE Len(buffer) < BufferCap
    BY <1>1 DEF Push
<1>2. CASE Len(buffer) >= BufferCap
    <2> DEFINE head(i) == SubSeq(buffer, 1, i - 1)
               tail(i) == SubSeq(buffer, i + 1, Len(buffer))
    <2>1. PICK i \in {1, 2} : /\ i = 2 => Len(buffer) >= 2
                              /\ buffer' = Append(head(i) \o tail(i), e)
        <3>1. PICK i \in {1, 2} :
                  /\ i = 2 => Len(buffer) >= 2
                  /\ buffer' = Append(IF Len(buffer) < BufferCap THEN buffer
                                      ELSE head(i) \o tail(i), e)
            BY DEF Push
        <3>2. ~(Len(buffer) < BufferCap)
            BY <1>2
        <3> QED
            BY <3>1, <3>2
    <2>2. i \in Nat /\ i >= 1 /\ i <= Len(buffer)
        BY <1>2, <2>1
    <2>3. head(i) \in Seq(Events) /\ Len(head(i)) = i - 1
        BY <2>2
    <2>4. tail(i) \in Seq(Events) /\ Len(tail(i)) = Len(buffer) - i
        BY <2>2
    <2> HIDE DEF head, tail
    <2>5. head(i) \o tail(i) \in Seq(Events) /\ Len(head(i) \o tail(i)) = Len(buffer) - 1
        BY <2>2, <2>3, <2>4
    <2> QED
        BY <2>1, <2>5
<1> QED
    BY <1>1, <1>2

LEMMA HandleKeepsType ==
    ASSUME TypeOK, Handle
    PROVE  TypeOK'
<1>1. NiFiType' /\ WorkerType'
    BY TypeParts DEF NiFiType, WorkerType, Handle, nifiVars, workerVars
<1>2. Head(chan) \in Payloads /\ ChanType'
    BY TypeParts DEF ChanType, Handle
<1>3. UiType'
    <2>1. tab' = tab
        BY DEF Handle
    <2>2. CASE HandleMatch
        <3>1. Head(chan).event \in Events
            BY <1>2, <2>2 DEF HandleMatch, Payloads, Tick, Failure
        <3>2. gone' = gone \cup {Head(chan).event}
            BY <2>2 DEF HandleMatch, Push
        <3> QED
            BY <2>1, <2>2, <3>1, <3>2, PushKeepsCapacity, TypeParts DEF HandleMatch, UiType
    <2>3. CASE HandleOff \/ HandleTick \/ HandleFail
        BY <2>1, <2>3, TypeParts DEF HandleOff, HandleTick, HandleFail, UiType, Statuses
    <2> QED
        BY <2>2, <2>3 DEF Handle
<1> QED
    BY <1>1, <1>2, <1>3, TypePartsNext

LEMMA UserKeepsType ==
    ASSUME TypeOK, User
    PROVE  TypeOK'
<1> USE DEF User, EnterWatch, LandOnWatch, Commit, Pause, ClearBuffer, LeaveTab, EnterTab,
            HandleSwitched
<1>1. NiFiType' /\ ChanType'
    BY TypeParts DEF NiFiType, ChanType, nifiVars, uiVars
<1>2. WorkerType'
    BY TypeParts DEF WorkerType, workerVars, Spawn, Abort, Phases, NoEvent
<1>3. UiType'
    <2>1. tab' \in BOOLEAN /\ status' \in Statuses /\ gone' \subseteq Events
        BY TypeParts DEF UiType, uiVars, NewSession, Statuses
    <2>2. buffer' = buffer \/ buffer' = <<>>
        BY DEF NewSession, uiVars
    <2>3. buffer' \in Seq(Events) /\ Len(buffer') <= BufferCap
        <3>1. buffer \in Seq(Events) /\ Len(buffer) <= BufferCap
            BY TypeParts DEF UiType
        <3>2. CASE buffer' = <<>>
            BY <3>2
        <3> QED
            BY <2>2, <3>1, <3>2
    <2> QED
        BY <2>1, <2>3 DEF UiType
<1> QED
    BY <1>1, <1>2, <1>3, TypePartsNext

LEMMA StepType ==
    ASSUME TypeOK, [Next]_vars
    PROVE  TypeOK'
<1>1. CASE UNCHANGED vars
    BY <1>1 DEF TypeOK, vars, nifiVars, workerVars, uiVars
<1> QED
    BY <1>1, NiFiKeepsType, WorkerKeepsType, UserKeepsType, HandleKeepsType DEF Next

LEMMA StepInView ==
    ASSUME TypeOK, TailOnlyInView, [Next]_vars
    PROVE  TailOnlyInView'
<1> USE DEF TailOnlyInView
<1>1. CASE Record \/ Elapse \/ UNCHANGED vars
    BY <1>1 DEF Record, Elapse, vars, workerVars, uiVars
<1>2. CASE Worker
    <2>1. phase # "none" /\ tab' = tab /\ status' = status
        BY <1>2 DEF Worker, SubmitOk, SubmitErr, PollOk, PollErr, Fail, DetailOk, DetailErr,
                    Finish, Wake, uiVars
    <2> QED
        BY <2>1
<1>3. CASE User
    BY <1>3 DEF User, EnterWatch, LandOnWatch, Commit, Pause, ClearBuffer, LeaveTab, EnterTab,
                HandleSwitched, NewSession, Spawn, Abort, workerVars, uiVars
<1>4. CASE Handle
    BY <1>4 DEF Handle, HandleOff, HandleMatch, HandleTick, HandleFail, workerVars
<1> QED
    BY <1>1, <1>2, <1>3, <1>4 DEF Next

-----------------------------------------------------------------------------
(* The cursor *)

\* A date with seconds is not later than the time it stands for.
LEMMA SecondIsNotLater ==
    ASSUME NEW t \in Nat
    PROVE  Second(t) \in Nat /\ Second(t) <= t
BY DEF Second

\* What a start date at the cursor leaves out is not newer than the cursor.
LEMMA LeftOutIsOld ==
    ASSUME TypeOK, NEW e \in 1..Len(recorded), cursor \in 1..Len(recorded), recorded[e] < Start
    PROVE  recorded[e] <= recorded[cursor]
<1>1. recorded[cursor] \in Nat /\ recorded[e] \in Nat
    BY DEF TypeOK
<1>2. Start = Second(recorded[cursor] + 1)
    BY DEF Start, NoEvent
<1>3. Start <= recorded[cursor] + 1 /\ Start \in Nat
    <2> DEFINE t == recorded[cursor] + 1
    <2>1. t \in Nat
        BY <1>1
    <2> HIDE DEF t
    <2>2. Second(t) \in Nat /\ Second(t) <= t
        BY <2>1, SecondIsNotLater
    <2> QED
        BY <1>2, <2>2 DEF t
<1> QED
    BY <1>1, <1>3

\* The worker's answer: below each of its events there is only what it has,
\* what was cut, and what is explained.
LEMMA SubmitTail ==
    ASSUME TypeOK, TailInv, SubmitOk
    PROVE  TailInv'
<1> USE DEF TailInv, Known, NoEvent
<1> DEFINE found == {e \in 1..Len(recorded) : recorded[e] >= Start}
<1>1. PICK page \in SUBSET found : batch' = page /\ cut' = cut \cup (found \ page)
    BY DEF SubmitOk
<1>2. phase = "submit" /\ phase' = "poll" /\ batch = {}
      /\ UNCHANGED <<now, recorded, cursor, scanned>>
    BY DEF SubmitOk, nifiVars
<1>3. \A e : Explained(e) => Explained(e)'
    BY <1>1, <1>2 DEF Explained
<1>4. CursorExplained'
    BY <1>2, <1>3 DEF CursorExplained
<1>5. PageReachesDown'
    <2> SUFFICES ASSUME NEW b \in page, NEW e \in 1..b
                 PROVE  Explained(e)' \/ e \in page
        BY <1>1 DEF PageReachesDown
    <2>1. b \in 1..Len(recorded) /\ e \in 1..Len(recorded)
        BY DEF TypeOK
    <2>2. CASE e \in found
        BY <1>1, <2>2 DEF Explained
    <2>3. CASE e \notin found /\ cursor # 0 /\ e > cursor
        <3>1. cursor \in scanned /\ cursor \in 1..Len(recorded)
            BY <2>3
        <3>2. recorded[e] < Start
            <4>1. recorded[cursor] \in Nat /\ recorded[e] \in Nat
                <5>1. recorded \in Seq(Nat)
                    BY DEF TypeOK
                <5> QED
                    BY <2>1, <3>1, <5>1
            <4>2. Start \in Nat
                <5> DEFINE t == recorded[cursor] + 1
                <5>1. t \in Nat
                    BY <4>1
                <5> HIDE DEF t
                <5>2. Second(t) \in Nat
                    BY <5>1, SecondIsNotLater
                <5> QED
                    BY <5>2 DEF Start, t
            <4> QED
                BY <2>1, <2>3, <4>1, <4>2
        <3>3. recorded[e] <= recorded[cursor]
            BY <2>1, <3>1, <3>2, LeftOutIsOld
        <3>4. recorded[cursor] <= recorded[e]
            BY <2>1, <2>3, <3>1 DEF Ordered
        <3>5. recorded[cursor] = recorded[e]
            BY <2>1, <3>1, <3>3, <3>4 DEF TypeOK
        <3> QED
            BY <1>2, <2>3, <3>1, <3>5 DEF Explained
    <2>4. CASE e \notin found /\ cursor # 0 /\ ~(e > cursor)
        BY <1>2, <1>3, <2>1, <2>4 DEF CursorExplained, TypeOK, Events
    <2>5. CASE e \notin found /\ cursor = 0
        <3>1. recorded[e] \in Nat /\ Start = 0
            BY <2>1, <2>5 DEF TypeOK, Start
        <3> QED
            BY <2>1, <2>5, <3>1
    <2> QED
        BY <2>2, <2>3, <2>4, <2>5
<1>6. Ordered' /\ Known'
    BY <1>1, <1>2 DEF Ordered
<1>7. OnlyTwinsSkipped'
    BY <1>2, <1>4 DEF CursorExplained, OnlyTwinsSkipped, Explained
<1> QED
    BY <1>4, <1>5, <1>6, <1>7

\* One event of the answer is looked at.
LEMMA DetailTail ==
    ASSUME TypeOK, TailInv, DetailOk \/ DetailErr
    PROVE  TailInv'
<1> USE DEF TailInv, Known, NoEvent
<1>1. PICK e \in batch : /\ batch' = batch \ {e} /\ scanned' = scanned \cup {e}
                         /\ cursor' \in {e, cursor}
                         /\ cursor' = cursor \/ cursor' = e
                         /\ cursor' # 0 => cursor' = e \/ cursor' = cursor
    BY DEF DetailOk, DetailErr
<1>2. phase = "detail" /\ phase' = "detail" /\ UNCHANGED <<now, recorded, cut>>
    BY DEF DetailOk, DetailErr, nifiVars
<1>3. e \in 1..Len(recorded)
    BY <1>1
<1>4. \A d : Explained(d) => Explained(d)'
    BY <1>1, <1>2 DEF Explained
<1>5. Explained(e)'
    BY <1>1 DEF Explained
<1>6. PageReachesDown'
    BY <1>1, <1>4, <1>5 DEF PageReachesDown
<1>7. \A d \in 1..cursor' : Explained(d)' \/ d \in batch'
    <2>1. CASE cursor' = cursor
        BY <1>1, <1>4, <1>5, <2>1 DEF OnlyTwinsSkipped, Explained
    <2>2. CASE cursor' = e
        BY <1>1, <1>4, <1>5, <2>2 DEF PageReachesDown
    <2> QED
        BY <1>1, <2>1, <2>2
<1>8. OnlyTwinsSkipped'
    BY <1>7 DEF OnlyTwinsSkipped, Explained
<1>9. Ordered' /\ Known' /\ CursorExplained'
    BY <1>1, <1>2, <1>3 DEF Ordered, CursorExplained
<1> QED
    BY <1>6, <1>8, <1>9

\* The other steps of the worker look at no event; they end a round or
\* give it up before its first.
LEMMA RoundTail ==
    ASSUME TypeOK, TailInv, SubmitErr \/ PollOk \/ PollErr \/ Fail \/ Finish \/ Wake
    PROVE  TailInv'
<1> USE DEF TailInv, Known, SubmitErr, PollOk, PollErr, Fail, Finish, Wake, nifiVars
<1>1. UNCHANGED <<now, recorded, cursor, scanned, cut>>
    OBVIOUS
<1>2. Ordered' /\ Known'
    BY <1>1 DEF Ordered
<1>3. \A e : Explained(e)' <=> Explained(e)
    BY <1>1 DEF Explained
<1>4. \A e \in 1..cursor : Explained(e) \/ (e \in batch /\ phase = "detail" /\ phase' = phase)
    BY DEF CursorExplained, OnlyTwinsSkipped, Explained
<1>5. CursorExplained'
    BY <1>1, <1>3, <1>4 DEF CursorExplained
<1>6. OnlyTwinsSkipped'
    <2>1. \A e \in 1..cursor : Explained(e)'
        BY <1>3, <1>4
    <2> QED
        BY <1>1, <2>1 DEF OnlyTwinsSkipped, Explained
<1>7. PageReachesDown'
    BY <1>3 DEF PageReachesDown
<1> QED
    BY <1>2, <1>5, <1>6, <1>7

\* NiFi only adds events, later than all it has.
LEMMA NiFiTail ==
    ASSUME TypeOK, TailInv, Record \/ Elapse
    PROVE  TailInv'
<1> USE DEF TailInv
<1>1. UNCHANGED <<phase, cursor, batch, scanned, cut>>
    BY DEF Record, Elapse, workerVars
<1>2. /\ Len(recorded) <= Len(recorded')
      /\ \A i \in 1..Len(recorded) : recorded'[i] = recorded[i]
    <2>1. CASE Elapse
        BY <2>1 DEF Elapse, TypeOK
    <2>2. CASE Record
        <3> DEFINE d == now
        <3>1. recorded \in Seq(0..MaxTime) /\ recorded' = Append(recorded, d) /\ d \in 0..MaxTime
            BY <2>2 DEF Record, TypeOK
        <3> HIDE DEF d
        <3> QED
            BY <3>1
    <2> QED
        BY <2>1, <2>2
<1>3. Ordered'
    <2>1. CASE Elapse
        BY <2>1 DEF Elapse, Ordered, TypeOK
    <2>2. CASE Record
        <3>1. /\ Len(recorded') = Len(recorded) + 1 /\ now' = now /\ now \in Nat
              /\ recorded'[Len(recorded) + 1] = now
            BY <2>2 DEF Record, TypeOK
        <3>2. \A i \in 1..Len(recorded') : recorded'[i] <= now
            <4> SUFFICES ASSUME NEW i \in 1..Len(recorded') PROVE recorded'[i] <= now
                OBVIOUS
            <4>1. i \in 1..Len(recorded) \/ i = Len(recorded) + 1
                BY <3>1 DEF TypeOK
            <4> QED
                BY <1>2, <3>1, <4>1 DEF Ordered
        <3>3. \A i, j \in 1..Len(recorded') : i <= j => recorded'[i] <= recorded'[j]
            <4> SUFFICES ASSUME NEW i \in 1..Len(recorded'), NEW j \in 1..Len(recorded'), i <= j
                         PROVE  recorded'[i] <= recorded'[j]
                OBVIOUS
            <4>1. CASE j = Len(recorded) + 1
                BY <3>1, <3>2, <4>1
            <4>2. CASE j \in 1..Len(recorded)
                <5>1. i \in 1..Len(recorded)
                    BY <4>2 DEF TypeOK
                <5> QED
                    BY <1>2, <4>2, <5>1 DEF Ordered
            <4> QED
                BY <3>1, <4>1, <4>2 DEF TypeOK
        <3> QED
            BY <3>1, <3>2, <3>3 DEF Ordered
    <2> QED
        BY <2>1, <2>2
<1>4. Known'
    BY <1>1, <1>2 DEF Known, TypeOK
<1>5. \A e \in 1..Len(recorded) : Explained(e) => Explained(e)'
    BY <1>1, <1>2 DEF Explained, Known, TypeOK
<1>6. cursor \in 0..Len(recorded) /\ \A b \in batch : b \in 1..Len(recorded)
    BY DEF Known, NoEvent, TypeOK
<1>7. CursorExplained' /\ PageReachesDown'
    BY <1>1, <1>5, <1>6 DEF CursorExplained, PageReachesDown, TypeOK
<1>8. OnlyTwinsSkipped'
    <2> SUFFICES ASSUME NEW e \in 1..cursor PROVE Explained(e)' \/ e \in batch'
        BY <1>1 DEF OnlyTwinsSkipped, Explained
    <2>1. Explained(e) \/ e \in batch
        BY <1>1 DEF OnlyTwinsSkipped, Explained
    <2>2. e \in 1..Len(recorded)
        BY <1>1, <1>6 DEF TypeOK
    <2> QED
        BY <1>1, <1>5, <2>1, <2>2
<1> QED
    BY <1>3, <1>4, <1>7, <1>8

\* The UI restarts the worker from nothing, or leaves it alone.
LEMMA UiTail ==
    ASSUME TypeOK, TailInv, User \/ Handle \/ UNCHANGED vars
    PROVE  TailInv'
<1> USE DEF TailInv
<1>1. UNCHANGED nifiVars
    BY DEF User, EnterWatch, LandOnWatch, Commit, Pause, ClearBuffer, LeaveTab, EnterTab,
           HandleSwitched, Handle, vars
<1>2. Spawn \/ Abort \/ UNCHANGED workerVars
    BY DEF User, EnterWatch, LandOnWatch, Commit, Pause, ClearBuffer, LeaveTab, EnterTab,
           HandleSwitched, Handle, vars
<1>3. CASE Spawn \/ Abort
    BY <1>1, <1>3 DEF Spawn, Abort, nifiVars, Ordered, Known, CursorExplained, PageReachesDown,
                      OnlyTwinsSkipped, NoEvent
<1>4. CASE UNCHANGED workerVars
    BY <1>1, <1>4 DEF workerVars, nifiVars, Ordered, Known, CursorExplained, PageReachesDown,
                      OnlyTwinsSkipped, Explained
<1> QED
    BY <1>2, <1>3, <1>4

LEMMA Invariance == Spec => []IInv
<1>1. IInv /\ [Next]_vars => IInv'
    <2> SUFFICES ASSUME IInv, [Next]_vars PROVE IInv'
        OBVIOUS
    <2>1. TailInv'
        BY SubmitTail, DetailTail, RoundTail, NiFiTail, UiTail DEF IInv, Next, Worker
    <2> QED
        BY <2>1, StepType, StepInView DEF IInv
<1> QED
    BY <1>1, InitInv, PTL DEF Spec

-----------------------------------------------------------------------------
\* Type correctness: in particular the buffer keeps to its capacity
\* (push_event).
THEOREM TypeCorrect == Spec => []TypeOK
BY Invariance, PTL DEF IInv

\* WorkerRegistry: no sequence of tab changes, landings, predicates and
\* context switches leaves a tail running out of view.
THEOREM TailStaysInView == Spec => []TailOnlyInView
BY Invariance, PTL DEF IInv

\* spawn_watch: whatever order the details arrive in and whatever fails,
\* the cursor passes over no event but twins and what was cut.
THEOREM CursorSkipsOnlyTwins == Spec => []OnlyTwinsSkipped
BY Invariance, PTL DEF IInv, TailInv
=============================================================================
