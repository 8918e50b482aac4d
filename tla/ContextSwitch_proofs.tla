------------------------- MODULE ContextSwitch_proofs -------------------------
(***************************************************************************)
(* Proofs about ContextSwitch, for any contexts, any number of dispatcher  *)
(* tasks and any channel.                                                  *)
(*                                                                         *)
(* While switches do not overlap there is one of them at a time, as a task *)
(* or as its outcome in the channel (OneSwitch), and it tells where the    *)
(* client is (ClientKnown); so everything the store's own fetch task has   *)
(* brought is of the header's context or of that switch's (OwnData).       *)
(* Whether they overlap or not, a connecting switcher is waited for        *)
(* (ConnectingIsServed).                                                   *)
(***************************************************************************)
EXTENDS ContextSwitch, TLAPS

OneSwitch ==
    /\ \A s, t \in Switchers : task[s].phase # "free" /\ task[t].phase # "free" => s = t
    /\ \A i, j \in 1..Len(chan) :
          chan[i].kind = "Switched" /\ chan[j].kind = "Switched" => i = j
    /\ \A s \in Switchers, i \in 1..Len(chan) :
          task[s].phase = "free" \/ chan[i].kind # "Switched"

\* Has the client been replaced and the header not yet?
Ahead == \/ \E s \in Switchers : task[s].phase = "report"
         \/ \E i \in 1..Len(chan) : chan[i].kind = "Switched"

ClientKnown ==
    /\ \A s \in Switchers : task[s].phase = "report" => task[s].to = client
    /\ \A i \in 1..Len(chan) : chan[i].kind = "Switched" => chan[i].of = client
    /\ Ahead \/ header = client

\* A context the store's own task may have data of.
Legit(c) == c = header \/ (c = client /\ Ahead)

OwnData ==
    /\ fetch.phase = "sending" => Legit(fetch.got)
    /\ \A i \in 1..Len(chan) : chan[i].kind = "Update" /\ chan[i].own => Legit(chan[i].of)
    /\ cell.own /\ cell.of # NoContext => Legit(cell.of)

SwitchInv == ~overlap => OneSwitch /\ ClientKnown /\ OwnData

\* What an aborted task sends is not this store's own.
DyingInv == \A m \in dying : m.kind = "Update" /\ ~m.own

\* A switch at work has a target, an update to be sent a context.
Targets ==
    /\ \A s \in Switchers : task[s].phase # "free" => task[s].to \in Contexts
    /\ fetch.phase = "sending" => fetch.got \in Contexts

Typed == TypeOK /\ Targets

IInv == Typed /\ DyingInv /\ SwitchInv

USE ContextAssumption

-----------------------------------------------------------------------------
(* Messages and the channel *)

LEMMA MessageTypes ==
    /\ \A c \in Contexts, own \in BOOLEAN : Update(c, own) \in Messages
    /\ \A c \in Contexts : Switched(c) \in Messages
    /\ Failure \in Messages
BY DEF Messages

LEMMA MessageFields ==
    ASSUME NEW m \in Messages
    PROVE  /\ m.kind = "Update" => m.of \in Contexts /\ m.own \in BOOLEAN /\ m = Update(m.of, m.own)
           /\ m.kind = "Switched" => m.of \in Contexts /\ m = Switched(m.of)
           /\ m.kind \in {"Update", "Switched", "Failure"}
BY DEF Messages, Update, Switched, Failure

LEMMA DeliverFacts ==
    ASSUME TypeOK, NEW m \in Messages, Deliver(m)
    PROVE  /\ chan' \in Seq(Messages) /\ Len(chan') <= ChanBound
           /\ Len(chan') = Len(chan) + 1
           /\ \A i \in 1..Len(chan') :
                 (i \in 1..Len(chan) /\ chan'[i] = chan[i]) \/ (i = Len(chan) + 1 /\ chan'[i] = m)
           /\ \A i \in 1..Len(chan) : i \in 1..Len(chan') /\ chan'[i] = chan[i]
           /\ chan'[Len(chan) + 1] = m
BY DEF TypeOK, Deliver

LEMMA TailFacts ==
    ASSUME TypeOK, chan # <<>>
    PROVE  /\ Tail(chan) \in Seq(Messages) /\ Len(Tail(chan)) <= ChanBound
           /\ Len(chan) \in Nat /\ Len(Tail(chan)) = Len(chan) - 1 /\ 1 \in 1..Len(chan)
           /\ Head(chan) = chan[1] /\ Head(chan) \in Messages
           /\ \A i \in 1..Len(Tail(chan)) : i + 1 \in 1..Len(chan) /\ Tail(chan)[i] = chan[i + 1]
           /\ \A i \in 1..Len(chan) :
                 i = 1 \/ (i - 1 \in 1..Len(Tail(chan)) /\ Tail(chan)[i - 1] = chan[i])
BY DEF TypeOK

LEMMA DisownFacts ==
    ASSUME NEW q \in Seq(Messages)
    PROVE  /\ Disown(q) \in Seq(Messages) /\ Len(Disown(q)) = Len(q)
           /\ \A i \in 1..Len(q) : /\ Disown(q)[i].kind = q[i].kind
                                   /\ Disown(q)[i].kind = "Update" => ~Disown(q)[i].own
<1>1. \A i \in 1..Len(q) :
         IF q[i].kind = "Update" THEN Update(q[i].of, FALSE) \in Messages ELSE q[i] \in Messages
    <2> SUFFICES ASSUME NEW i \in 1..Len(q)
                 PROVE  /\ q[i] \in Messages
                        /\ q[i].kind = "Update" => Update(q[i].of, FALSE) \in Messages
        OBVIOUS
    <2>1. q[i] \in Messages
        OBVIOUS
    <2>2. q[i].kind = "Update" => q[i].of \in Contexts
        BY <2>1, MessageFields
    <2> QED
        BY <2>1, <2>2, MessageTypes
<1>2. Disown(q) \in [1..Len(q) -> Messages]
    BY <1>1 DEF Disown
<1>3. Disown(q) \in Seq(Messages) /\ Len(Disown(q)) = Len(q)
    BY <1>2
<1>4. \A i \in 1..Len(q) :
         Disown(q)[i] = IF q[i].kind = "Update" THEN Update(q[i].of, FALSE) ELSE q[i]
    BY DEF Disown
<1>5. \A i \in 1..Len(q) : /\ Disown(q)[i].kind = q[i].kind
                           /\ Disown(q)[i].kind = "Update" => ~Disown(q)[i].own
    <2> SUFFICES ASSUME NEW i \in 1..Len(q)
                 PROVE  /\ Disown(q)[i].kind = q[i].kind
                        /\ Disown(q)[i].kind = "Update" => ~Disown(q)[i].own
        OBVIOUS
    <2>1. CASE q[i].kind = "Update"
        <3>1. Disown(q)[i] = Update(q[i].of, FALSE)
            BY <1>4, <2>1
        <3>2. Update(q[i].of, FALSE).kind = "Update" /\ Update(q[i].of, FALSE).own = FALSE
            BY DEF Update
        <3> QED
            BY <2>1, <3>1, <3>2
    <2>2. CASE q[i].kind # "Update"
        <3>1. Disown(q)[i] = q[i]
            BY <1>4, <2>2
        <3> QED
            BY <2>2, <3>1
    <2> QED
        BY <2>1, <2>2
<1> QED
    BY <1>3, <1>5

-----------------------------------------------------------------------------
LEMMA InitInv == Init => IInv
<1> SUFFICES ASSUME Init PROVE IInv
    OBVIOUS
<1>1. TypeOK
    <2>1. chan \in Seq(Messages) /\ Len(chan) <= ChanBound
        BY DEF Init
    <2>2. task \in [Switchers -> Tasks] /\ fetch \in Fetches /\ cell \in Cells
        BY DEF Init, Free, Tasks, Idle, Fetches, NoData, Cells
    <2> QED
        BY <2>1, <2>2 DEF Init, TypeOK
<1>2. DyingInv /\ Targets
    BY DEF Init, DyingInv, Targets, Free, Idle
<1>3. SwitchInv
    <2>1. Len(chan) = 0 /\ \A s \in Switchers : task[s].phase = "free"
        BY DEF Init, Free
    <2>2. fetch.phase # "sending" /\ cell.of = NoContext /\ header = client
        BY DEF Init, Idle, NoData
    <2> QED
        BY <2>1, <2>2 DEF SwitchInv, OneSwitch, ClientKnown, OwnData
<1> QED
    BY <1>1, <1>2, <1>3 DEF IInv, Typed

-----------------------------------------------------------------------------
(* Types *)

LEMMA UserType ==
    ASSUME Typed, User
    PROVE  TypeOK'
<1> USE DEF Typed
<1>1. CASE OpenSwitcher \/ CloseSwitcher \/ ChangeView
    <2>1. UNCHANGED read \/ read' = ~read
        BY <1>1 DEF OpenSwitcher, CloseSwitcher, ChangeView, net
    <2>2. read' \in BOOLEAN
        BY <2>1, Zenon DEF TypeOK
    <2> QED
        BY <1>1, <2>2 DEF OpenSwitcher, CloseSwitcher, ChangeView, TypeOK, net
<1>2. CASE \E c \in Contexts : Choose(c)
    <2>1. task' \in [Switchers -> Tasks]
        BY <1>2 DEF Choose, TypeOK, Tasks
    <2>2. overlap' \in BOOLEAN
        <3>1. overlap' = (overlap \/ ~Settled)
            BY <1>2 DEF Choose
        <3> QED
            BY <3>1, Zenon
    <2> QED
        BY <1>2, <2>1, <2>2 DEF Choose, TypeOK
<1> QED
    BY <1>1, <1>2 DEF User

LEMMA SwitchType ==
    ASSUME Typed, NEW s \in Switchers, Switch(s)
    PROVE  TypeOK'
<1> USE DEF Typed
<1>1. CASE Connect(s)
    <2>1. task' \in [Switchers -> Tasks]
        BY <1>1 DEF Connect, TypeOK, Tasks
    <2> QED
        BY <1>1, <2>1 DEF Connect, TypeOK
<1>2. CASE Write(s)
    <2>1. task' \in [Switchers -> Tasks]
        BY <1>2 DEF Write, TypeOK, Tasks
    <2>2. client' \in Contexts
        BY <1>2 DEF Write, Targets
    <2> QED
        BY <1>2, <2>1, <2>2 DEF Write, TypeOK
<1>3. CASE Report(s)
    <2>1. task' \in [Switchers -> Tasks]
        BY <1>3 DEF Report, Free, TypeOK, Tasks
    <2>2. \E m \in Messages : Deliver(m)
        BY <1>3, MessageTypes DEF Report, Targets
    <2> QED
        BY <1>3, <2>1, <2>2, DeliverFacts DEF Report, TypeOK
<1> QED
    BY <1>1, <1>2, <1>3 DEF Switch

LEMMA RequestType ==
    ASSUME Typed, Fetching \/ Expire \/ PollFails
    PROVE  TypeOK'
<1> USE DEF Typed
<1>1. CASE Pass \/ BeginFetch \/ FetchOk \/ FetchErr
    <2>1. fetch' \in Fetches
        BY <1>1 DEF Pass, BeginFetch, FetchOk, FetchErr, Idle, Fetches, TypeOK
    <2> QED
        BY <1>1, <2>1 DEF Pass, BeginFetch, FetchOk, FetchErr, TypeOK
<1>2. CASE SendUpdate
    <2>1. fetch' \in Fetches
        BY <1>2 DEF SendUpdate, Idle, Fetches
    <2>2. Update(fetch.got, TRUE) \in Messages
        BY <1>2, MessageTypes DEF SendUpdate, Targets
    <2> QED
        BY <1>2, <2>1, <2>2, DeliverFacts DEF SendUpdate, TypeOK
<1>3. CASE Expire
    <2> PICK m \in dying : /\ dying' = dying \ {m}
                           /\ Deliver(m) \/ UNCHANGED chan
                           /\ UNCHANGED <<client, header, modal, task, read, fetch, cell, overlap>>
        BY <1>3 DEF Expire
    <2>1. m \in Messages
        BY DEF TypeOK
    <2> QED
        BY <2>1, DeliverFacts DEF TypeOK
<1>4. CASE PollFails
    BY <1>4, MessageTypes, DeliverFacts DEF PollFails, net, TypeOK
<1> QED
    BY <1>1, <1>2, <1>3, <1>4 DEF Fetching

LEMMA UiType ==
    ASSUME Typed, UiStep
    PROVE  TypeOK'
<1> USE DEF Typed
<1>1. CASE HandleSwitched
    <2>1. chan' \in Seq(Messages) /\ Len(chan') <= ChanBound
        BY <1>1, TailFacts, DisownFacts DEF HandleSwitched
    <2>2. header' \in Contexts
        BY <1>1, TailFacts, MessageFields DEF HandleSwitched
    <2>3. dying' \subseteq Messages
        BY <1>1, MessageTypes DEF HandleSwitched, LastWords, TypeOK, Targets
    <2>4. fetch' \in Fetches /\ cell' \in Cells
        BY <1>1 DEF HandleSwitched, Idle, Fetches, NoData, Cells
    <2> QED
        BY <1>1, <2>1, <2>2, <2>3, <2>4 DEF HandleSwitched, TypeOK
<1>2. CASE HandleUpdate
    <2>1. cell' \in Cells
        BY <1>2, TailFacts, MessageFields DEF HandleUpdate, Receive, Cells
    <2> QED
        BY <1>2, <2>1, TailFacts DEF HandleUpdate, Receive, net, TypeOK
<1>3. CASE HandleFailure
    BY <1>3, TailFacts DEF HandleFailure, Receive, net, TypeOK
<1> QED
    BY <1>1, <1>2, <1>3 DEF UiStep

LEMMA StepTargets ==
    ASSUME Typed, [Next]_vars
    PROVE  Targets'
<1> USE DEF Typed
<1>1. CASE UNCHANGED <<client, task, fetch>>
    BY <1>1 DEF Targets
<1>2. CASE \E c \in Contexts : Choose(c)
    BY <1>2 DEF Choose, TypeOK, Targets
<1>3. CASE \E s \in Switchers : Switch(s)
    <2> PICK s \in Switchers : Switch(s)
        BY <1>3
    <2>1. /\ UNCHANGED fetch
          /\ \A t \in Switchers : t # s => task'[t] = task[t]
          /\ task[s].phase # "free"
          /\ task'[s].to = task[s].to \/ task'[s].phase = "free"
        BY DEF Switch, Connect, Write, Report, Free, TypeOK, Tasks
    <2> QED
        BY <2>1 DEF Targets
<1>4. CASE Fetching
    <2>1. /\ UNCHANGED task
          /\ fetch'.phase = "sending" => fetch'.got = client
        <3>1. CASE Pass \/ BeginFetch \/ FetchErr
            BY <3>1 DEF Pass, BeginFetch, FetchErr, Idle
        <3>2. CASE FetchOk
            BY <3>2 DEF FetchOk
        <3>3. CASE SendUpdate
            BY <3>3 DEF SendUpdate, Idle
        <3> QED
            BY <1>4, <3>1, <3>2, <3>3 DEF Fetching
    <2> QED
        BY <2>1 DEF TypeOK, Targets
<1>5. CASE HandleSwitched
    BY <1>5 DEF HandleSwitched, Idle, Targets
<1>6. CASE \/ OpenSwitcher \/ CloseSwitcher \/ ChangeView \/ Expire \/ PollFails
           \/ HandleUpdate \/ HandleFailure \/ UNCHANGED vars
    <2>1. UNCHANGED <<client, task, fetch>>
        BY <1>6 DEF OpenSwitcher, CloseSwitcher, ChangeView, Expire, PollFails, HandleUpdate,
                    HandleFailure, net, vars
    <2> QED
        BY <1>1, <2>1
<1> QED
    BY <1>2, <1>3, <1>4, <1>5, <1>6 DEF Next, User, UiStep

LEMMA StepType ==
    ASSUME Typed, [Next]_vars
    PROVE  Typed'
<1>1. CASE UNCHANGED vars
    BY <1>1, StepTargets DEF TypeOK, Typed, vars
<1>2. CASE Next
    <2>1. TypeOK'
        BY <1>2, UserType, SwitchType, RequestType, UiType DEF Next
    <2> QED
        BY <1>2, <2>1, StepTargets DEF Typed
<1> QED
    BY <1>1, <1>2

LEMMA StepDying ==
    ASSUME DyingInv, [Next]_vars
    PROVE  DyingInv'
<1>1. dying' \subseteq dying \cup LastWords
    BY DEF Next, User, OpenSwitcher, CloseSwitcher, ChangeView, Choose, Switch, Connect, Write, Report,
           Fetching, Pass, BeginFetch, FetchOk, FetchErr, SendUpdate, Expire, PollFails, UiStep,
           HandleSwitched, HandleUpdate, HandleFailure, vars, net
<1> QED
    BY <1>1 DEF DyingInv, LastWords, Update

-----------------------------------------------------------------------------
(* One switch at a time *)

\* Messages other than outcomes come and go without moving the switch.
LEMMA SendOther ==
    ASSUME TypeOK, NEW m \in Messages, m.kind # "Switched",
           Deliver(m) \/ UNCHANGED chan, UNCHANGED <<client, header, task>>
    PROVE  /\ OneSwitch => OneSwitch'
           /\ ClientKnown => ClientKnown'
           /\ Ahead => Ahead'
<1>1. CASE UNCHANGED chan
    BY <1>1 DEF OneSwitch, ClientKnown, Ahead
<1>2. CASE Deliver(m)
    BY <1>2, DeliverFacts DEF OneSwitch, ClientKnown, Ahead
<1> QED
    BY <1>1, <1>2

LEMMA ReceiveOther ==
    ASSUME TypeOK, NEW kind, kind # "Switched", Receive(kind), UNCHANGED <<client, header, task>>
    PROVE  /\ OneSwitch => OneSwitch'
           /\ ClientKnown => ClientKnown'
           /\ Ahead => Ahead'
<1>1. /\ chan # <<>> /\ chan' = Tail(chan) /\ chan[1].kind # "Switched"
    BY TailFacts DEF Receive
<1>2. \A i \in 1..Len(chan') : i + 1 \in 1..Len(chan) /\ chan'[i] = chan[i + 1]
    BY <1>1, TailFacts
<1>3. \A i \in 1..Len(chan) : i = 1 \/ (i - 1 \in 1..Len(chan') /\ chan'[i - 1] = chan[i])
    BY <1>1, TailFacts
<1>4. OneSwitch => OneSwitch'
    <2> SUFFICES ASSUME OneSwitch PROVE OneSwitch'
        OBVIOUS
    <2>1. \A i, j \in 1..Len(chan') :
             chan'[i].kind = "Switched" /\ chan'[j].kind = "Switched" => i = j
        <3> SUFFICES ASSUME NEW i \in 1..Len(chan'), NEW j \in 1..Len(chan'),
                            chan'[i].kind = "Switched", chan'[j].kind = "Switched"
                     PROVE  i = j
            OBVIOUS
        <3>1. chan[i + 1].kind = "Switched" /\ chan[j + 1].kind = "Switched"
            BY <1>2
        <3>2. i + 1 = j + 1
            BY <1>2, <3>1 DEF OneSwitch
        <3> QED
            BY <3>2
    <2>2. \A s \in Switchers, i \in 1..Len(chan') :
             task[s].phase = "free" \/ chan'[i].kind # "Switched"
        BY <1>2 DEF OneSwitch
    <2> QED
        BY <2>1, <2>2 DEF OneSwitch
<1>5. Ahead => Ahead'
    BY <1>1, <1>3 DEF Ahead
<1>6. ClientKnown => ClientKnown'
    BY <1>2, <1>5 DEF ClientKnown
<1> QED
    BY <1>4, <1>5, <1>6

LEMMA UserSwitch ==
    ASSUME TypeOK, SwitchInv, User
    PROVE  SwitchInv'
<1>1. CASE OpenSwitcher \/ CloseSwitcher \/ ChangeView
    BY <1>1 DEF OpenSwitcher, CloseSwitcher, ChangeView, net, SwitchInv, OneSwitch, ClientKnown,
                OwnData, Legit, Ahead
<1>2. CASE \E c \in Contexts : Choose(c)
    <2> SUFFICES ASSUME ~overlap' PROVE (OneSwitch /\ ClientKnown /\ OwnData)'
        BY DEF SwitchInv
    <2> PICK c \in Contexts, s \in Switchers :
            /\ task[s].phase = "free"
            /\ task' = [task EXCEPT ![s] = [phase |-> "connect", to |-> c]]
        BY <1>2 DEF Choose
    <2>1. UNCHANGED <<client, header, fetch, chan, cell>>
        BY <1>2 DEF Choose
    <2>2. ~overlap /\ Settled
        BY <1>2 DEF Choose
    <2>3. OneSwitch /\ ClientKnown /\ OwnData
        BY <2>2 DEF SwitchInv
    <2>4. /\ task'[s].phase = "connect"
          /\ \A t \in Switchers : t # s => task'[t].phase = "free"
        BY <2>2 DEF TypeOK, Settled
    <2>5. ~Ahead /\ ~Ahead'
        BY <2>1, <2>2, <2>4 DEF Ahead, Settled
    <2> QED
        BY <2>1, <2>2, <2>3, <2>4, <2>5 DEF OneSwitch, ClientKnown, OwnData, Legit, Settled, Ahead
<1> QED
    BY <1>1, <1>2 DEF User

LEMMA TaskSwitch ==
    ASSUME Typed, SwitchInv, NEW s \in Switchers, Switch(s)
    PROVE  SwitchInv'
<1> SUFFICES ASSUME ~overlap' PROVE (OneSwitch /\ ClientKnown /\ OwnData)'
    BY DEF SwitchInv
<1> USE DEF Typed
<1>1. ~overlap /\ UNCHANGED <<header, fetch, cell>>
    BY DEF Switch, Connect, Write, Report
<1>2. OneSwitch /\ ClientKnown /\ OwnData
    BY <1>1 DEF SwitchInv
<1>3. task[s].phase # "free"
    BY DEF Switch, Connect, Write, Report
<1>4. /\ \A t \in Switchers : t # s => task[t].phase = "free"
      /\ \A i \in 1..Len(chan) : chan[i].kind # "Switched"
    BY <1>2, <1>3 DEF OneSwitch
<1>5. CASE Connect(s)
    <2>1. UNCHANGED <<client, chan>> /\ task[s].phase = "connect"
          /\ task'[s].phase \in {"write", "refuse"}
          /\ \A t \in Switchers : t # s => task'[t] = task[t]
        BY <1>5 DEF Connect, TypeOK, Tasks
    <2>2. ~Ahead /\ ~Ahead'
        BY <1>4, <2>1 DEF Ahead
    <2> QED
        BY <1>1, <1>2, <1>4, <2>1, <2>2 DEF OneSwitch, ClientKnown, OwnData, Legit, Ahead
<1>6. CASE Write(s)
    <2>1. /\ UNCHANGED chan /\ task[s].phase = "write" /\ client' = task[s].to
          /\ task'[s].phase = "report" /\ task'[s].to = task[s].to
          /\ \A t \in Switchers : t # s => task'[t] = task[t]
        BY <1>6 DEF Write, TypeOK, Tasks
    <2>2. ~Ahead /\ Ahead'
        BY <1>4, <2>1 DEF Ahead
    <2> QED
        BY <1>1, <1>2, <1>4, <2>1, <2>2 DEF OneSwitch, ClientKnown, OwnData, Legit
<1>7. CASE Report(s)
    <2>1. /\ UNCHANGED client /\ task'[s].phase = "free"
          /\ \A t \in Switchers : t # s => task'[t] = task[t]
        BY <1>7 DEF Report, TypeOK, Free
    <2>2. CASE task[s].phase = "report" /\ Deliver(Switched(task[s].to))
        <3>1. Switched(task[s].to) \in Messages /\ task[s].to = client
            BY <1>2, <2>2, MessageTypes DEF ClientKnown, Targets
        <3>2. Ahead /\ Ahead'
            BY <2>2, <3>1, DeliverFacts DEF Ahead, Switched
        <3>3. \A i \in 1..Len(chan') :
                 chan'[i].kind = "Switched" => i = Len(chan) + 1 /\ chan'[i].of = client
            BY <1>4, <2>2, <3>1, DeliverFacts DEF Switched
        <3>4. \A t \in Switchers : task'[t].phase = "free"
            BY <1>4, <2>1
        <3>5. OneSwitch' /\ ClientKnown'
            BY <2>1, <3>2, <3>3, <3>4 DEF OneSwitch, ClientKnown
        <3>6. OwnData'
            BY <1>1, <1>2, <2>1, <2>2, <3>1, <3>2, DeliverFacts DEF OwnData, Legit, Switched
        <3> QED
            BY <3>5, <3>6
    <2>3. CASE task[s].phase = "refuse" /\ Deliver(Failure)
        <3>1. \A i \in 1..Len(chan') :
                 \/ i \in 1..Len(chan) /\ chan'[i] = chan[i]
                 \/ chan'[i] = Failure
            BY <2>3, MessageTypes, DeliverFacts
        <3>2. \A i \in 1..Len(chan') : chan'[i].kind # "Switched"
            BY <1>4, <3>1 DEF Failure
        <3>3. \A t \in Switchers : task'[t].phase = "free"
            BY <1>4, <2>1
        <3>4. ~Ahead /\ ~Ahead'
            BY <1>4, <2>3, <3>2, <3>3 DEF Ahead
        <3>5. OneSwitch' /\ ClientKnown'
            BY <1>1, <1>2, <2>1, <3>2, <3>3, <3>4 DEF OneSwitch, ClientKnown
        <3>6. OwnData'
            BY <1>1, <1>2, <2>1, <3>1, <3>4 DEF OwnData, Legit, Failure
        <3> QED
            BY <3>5, <3>6
    <2> QED
        BY <1>7, <2>2, <2>3 DEF Report
<1> QED
    BY <1>5, <1>6, <1>7 DEF Switch

LEMMA RequestSwitch ==
    ASSUME Typed, DyingInv, SwitchInv, Fetching \/ Expire \/ PollFails
    PROVE  SwitchInv'
<1> SUFFICES ASSUME ~overlap' PROVE (OneSwitch /\ ClientKnown /\ OwnData)'
    BY DEF SwitchInv
<1> USE DEF Typed
<1>1. ~overlap /\ UNCHANGED <<client, header, task, cell>>
    <2>1. CASE Fetching
        <3>1. CASE Pass \/ BeginFetch \/ FetchOk \/ FetchErr
            BY <3>1 DEF Pass, BeginFetch, FetchOk, FetchErr
        <3>2. CASE SendUpdate
            BY <3>2 DEF SendUpdate
        <3> QED
            BY <2>1, <3>1, <3>2 DEF Fetching
    <2>2. CASE Expire
        BY <2>2 DEF Expire
    <2>3. CASE PollFails
        BY <2>3 DEF PollFails, net
    <2> QED
        BY <2>1, <2>2, <2>3
<1>2. OneSwitch /\ ClientKnown /\ OwnData
    BY <1>1 DEF SwitchInv
<1>3. CASE Pass \/ BeginFetch \/ FetchOk \/ FetchErr
    <2>1. chan' = chan /\ (fetch'.phase = "sending" => fetch'.got = client)
        BY <1>3 DEF Pass, BeginFetch, FetchOk, FetchErr, Idle
    <2>2. Legit(client)
        BY <1>2 DEF ClientKnown, Legit
    <2> QED
        BY <1>1, <1>2, <2>1, <2>2 DEF OneSwitch, ClientKnown, OwnData, Legit, Ahead
<1>4. CASE SendUpdate
    <2> DEFINE m == Update(fetch.got, TRUE)
    <2>1. m \in Messages /\ m.kind = "Update" /\ m.of = fetch.got
        BY <1>4, MessageTypes DEF SendUpdate, Update, Targets
    <2>2. Deliver(m) /\ Legit(m.of) /\ fetch'.phase = "idle"
        BY <1>2, <1>4, <2>1 DEF SendUpdate, OwnData, Idle
    <2> HIDE DEF m
    <2>3. OneSwitch' /\ ClientKnown' /\ (Ahead => Ahead')
        BY <1>1, <1>2, <2>1, <2>2, SendOther
    <2>4. OwnData'
        BY <1>1, <1>2, <2>1, <2>2, <2>3, DeliverFacts DEF OwnData, Legit
    <2> QED
        BY <2>3, <2>4
<1>5. CASE Expire
    <2> PICK m \in dying : (Deliver(m) \/ UNCHANGED chan) /\ UNCHANGED fetch
        BY <1>5 DEF Expire
    <2>1. m \in Messages /\ m.kind = "Update" /\ ~m.own
        BY DEF TypeOK, DyingInv
    <2>2. OneSwitch' /\ ClientKnown' /\ (Ahead => Ahead')
        BY <1>1, <1>2, <2>1, SendOther
    <2>3. OwnData'
        BY <1>1, <1>2, <2>1, <2>2, DeliverFacts DEF OwnData, Legit
    <2> QED
        BY <2>2, <2>3
<1>6. CASE PollFails
    <2>1. Deliver(Failure) /\ Failure \in Messages /\ Failure.kind = "Failure" /\ UNCHANGED fetch
        BY <1>6, MessageTypes DEF PollFails, Failure, net
    <2>2. OneSwitch' /\ ClientKnown' /\ (Ahead => Ahead')
        BY <1>1, <1>2, <2>1, SendOther
    <2>3. OwnData'
        BY <1>1, <1>2, <2>1, <2>2, DeliverFacts DEF OwnData, Legit
    <2> QED
        BY <2>2, <2>3
<1> QED
    BY <1>3, <1>4, <1>5, <1>6 DEF Fetching

LEMMA UiSwitch ==
    ASSUME TypeOK, SwitchInv, UiStep
    PROVE  SwitchInv'
<1> SUFFICES ASSUME ~overlap' PROVE (OneSwitch /\ ClientKnown /\ OwnData)'
    BY DEF SwitchInv
<1>1. ~overlap /\ UNCHANGED <<client, task>> /\ chan # <<>>
    BY DEF UiStep, HandleSwitched, HandleUpdate, HandleFailure, Receive, net
<1>2. OneSwitch /\ ClientKnown /\ OwnData
    BY <1>1 DEF SwitchInv
<1>3. CASE HandleSwitched
    <2>1. chan[1].kind = "Switched" /\ 1 \in 1..Len(chan) /\ header' = chan[1].of
        BY <1>3, TailFacts DEF HandleSwitched
    <2>2. header' = client
        BY <1>2, <2>1 DEF ClientKnown
    <2>3. \A s \in Switchers : task[s].phase = "free"
        BY <1>2, <2>1 DEF OneSwitch
    <2>4. \A i \in 1..Len(Tail(chan)) : Tail(chan)[i].kind # "Switched"
        <3> SUFFICES ASSUME NEW i \in 1..Len(Tail(chan)), Tail(chan)[i].kind = "Switched"
                     PROVE  FALSE
            OBVIOUS
        <3>1. i + 1 \in 1..Len(chan) /\ chan[i + 1].kind = "Switched"
            BY <1>1, TailFacts
        <3>2. i + 1 = 1
            BY <1>2, <2>1, <3>1 DEF OneSwitch
        <3> QED
            BY <3>2
    <2>5. \A i \in 1..Len(chan') : /\ chan'[i].kind # "Switched"
                                   /\ chan'[i].kind = "Update" => ~chan'[i].own
        BY <1>1, <1>3, <2>4, TailFacts, DisownFacts DEF HandleSwitched
    <2>6. fetch'.phase = "idle" /\ cell'.of = NoContext
        BY <1>3 DEF HandleSwitched, Idle, NoData
    <2>7. OneSwitch' /\ ClientKnown'
        BY <1>1, <2>2, <2>3, <2>5 DEF OneSwitch, ClientKnown
    <2>8. OwnData'
        BY <2>5, <2>6 DEF OwnData
    <2> QED
        BY <2>7, <2>8
<1>4. CASE HandleUpdate \/ HandleFailure
    <2>1. PICK kind \in {"Update", "Failure"} : Receive(kind)
        BY <1>4 DEF HandleUpdate, HandleFailure
    <2>2. UNCHANGED <<header, fetch>>
        BY <1>4 DEF HandleUpdate, HandleFailure, net
    <2>3. OneSwitch' /\ ClientKnown' /\ (Ahead => Ahead')
        BY <1>1, <1>2, <2>1, <2>2, ReceiveOther
    <2>4. \A i \in 1..Len(chan') : i + 1 \in 1..Len(chan) /\ chan'[i] = chan[i + 1]
        BY <2>1, TailFacts DEF Receive
    <2>5. \A c : Legit(c) => Legit(c)'
        BY <1>1, <2>2, <2>3 DEF Legit
    <2>6. cell'.own /\ cell'.of # NoContext => Legit(cell'.of)
        <3>1. CASE HandleUpdate
            <4>1. chan[1].kind = "Update" /\ 1 \in 1..Len(chan)
                  /\ cell'.of = chan[1].of /\ cell'.own = chan[1].own
                BY <3>1, TailFacts DEF HandleUpdate, Receive
            <4> QED
                BY <1>2, <4>1 DEF OwnData
        <3>2. CASE HandleFailure
            BY <1>2, <3>2 DEF HandleFailure, OwnData
        <3> QED
            BY <1>4, <3>1, <3>2
    <2>7. OwnData'
        BY <1>2, <2>2, <2>4, <2>5, <2>6 DEF OwnData
    <2> QED
        BY <2>3, <2>7
<1> QED
    BY <1>3, <1>4 DEF UiStep

LEMMA Invariance == Spec => []IInv
<1>1. IInv /\ [Next]_vars => IInv'
    <2> SUFFICES ASSUME IInv, [Next]_vars PROVE IInv'
        OBVIOUS
    <2>1. CASE UNCHANGED vars
        BY <2>1, StepType, StepDying DEF IInv, vars, SwitchInv, OneSwitch, ClientKnown, OwnData,
                                         Legit, Ahead
    <2>2. CASE Next
        <3>1. SwitchInv'
            BY <2>2, UserSwitch, TaskSwitch, RequestSwitch, UiSwitch DEF IInv, Typed, Next
        <3> QED
            BY <3>1, StepType, StepDying DEF IInv
    <2> QED
        BY <2>1, <2>2
<1> QED
    BY <1>1, InitInv, PTL DEF Spec

-----------------------------------------------------------------------------
\* Type correctness.
THEOREM TypeCorrect == Spec => []TypeOK
BY Invariance, PTL DEF IInv, Typed

\* switch_context and handle_intent_outcome: the name on the status bar and
\* the client agree again after every switch that ran alone.
THEOREM HeaderFollows == Spec => []HeaderFollowsClient
<1>1. IInv => HeaderFollowsClient
    BY DEF IInv, SwitchInv, ClientKnown, Ahead, HeaderFollowsClient, Settled
<1> QED
    BY <1>1, Invariance, PTL

\* The store's own fetch tasks bring data of another context only between
\* the replacement of the client and that of the store.
THEOREM ForeignIsBounded == Spec => []ForeignOnlyWhileReplacing
<1>1. IInv => ForeignOnlyWhileReplacing
    <2> SUFFICES ASSUME IInv, ~overlap, cell.own, cell.of \notin {NoContext, header}
                 PROVE  Replacing(cell.of)
        BY DEF ForeignOnlyWhileReplacing
    <2>1. cell.of = client /\ Ahead /\ ClientKnown
        BY DEF IInv, SwitchInv, OwnData, Legit
    <2>2. CASE \E s \in Switchers : task[s].phase = "report"
        <3> PICK s \in Switchers : task[s].phase = "report"
            BY <2>2
        <3>1. task[s] = [phase |-> "report", to |-> client]
            BY <2>1 DEF ClientKnown, IInv, Typed, TypeOK, Tasks
        <3> QED
            BY <2>1, <3>1 DEF Replacing
    <2>3. CASE \E i \in 1..Len(chan) : chan[i].kind = "Switched"
        <3> PICK i \in 1..Len(chan) : chan[i].kind = "Switched"
            BY <2>3
        <3>1. chan[i] \in Messages
            BY DEF IInv, Typed, TypeOK
        <3>2. chan[i] = Switched(client)
            BY <2>1, <3>1, MessageFields DEF ClientKnown
        <3> QED
            BY <2>1, <3>2 DEF Replacing
    <2> QED
        BY <2>1, <2>2, <2>3 DEF Ahead
<1> QED
    BY <1>1, Invariance, PTL
-----------------------------------------------------------------------------
(* A connecting switcher is waited for *)

\* Some dispatcher task is at work, or a message that closes the switcher is in
\* the channel.
Served(work, q) ==
    \/ \E s \in Switchers : work[s].phase # "free"
    \/ \E i \in 1..Len(q) : q[i].kind \in {"Switched", "Failure"}

ConnectingIsServed == modal = "connecting" => Served(task, chan)

LEMMA UserServes ==
    ASSUME Typed, ConnectingIsServed, User
    PROVE  ConnectingIsServed'
<1>1. CASE OpenSwitcher \/ CloseSwitcher \/ ChangeView
    BY <1>1 DEF OpenSwitcher, CloseSwitcher, ChangeView, ConnectingIsServed, Served
<1>2. CASE \E c \in Contexts : Choose(c)
    <2>1. \E s \in Switchers : task'[s].phase = "connect"
        BY <1>2 DEF Choose, Typed, TypeOK
    <2> QED
        BY <2>1 DEF ConnectingIsServed, Served
<1> QED
    BY <1>1, <1>2 DEF User

\* A task stays at work until it has sent its outcome.
LEMMA TaskServes ==
    ASSUME Typed, ConnectingIsServed, NEW s \in Switchers, Switch(s)
    PROVE  ConnectingIsServed'
<1>1. CASE Connect(s) \/ Write(s)
    <2>1. task'[s].phase # "free"
        BY <1>1 DEF Connect, Write, Typed, TypeOK, Tasks
    <2> QED
        BY <2>1 DEF ConnectingIsServed, Served
<1>2. CASE Report(s)
    <2> PICK m \in Messages : Deliver(m) /\ m.kind \in {"Switched", "Failure"}
        <3>1. \/ Deliver(Switched(task[s].to)) /\ task[s].to \in Contexts
              \/ Deliver(Failure)
            BY <1>2 DEF Report, Typed, Targets
        <3> QED
            BY <3>1, MessageTypes DEF Switched, Failure
    <2>1. /\ chan'[Len(chan) + 1] = m
          /\ Len(chan) + 1 \in 1..Len(chan')
        BY DeliverFacts DEF Typed, TypeOK
    <2> QED
        BY <2>1 DEF ConnectingIsServed, Served
<1> QED
    BY <1>1, <1>2 DEF Switch

LEMMA RequestServes ==
    ASSUME Typed, ConnectingIsServed, Fetching \/ Expire \/ PollFails
    PROVE  ConnectingIsServed'
<1>1. UNCHANGED <<modal, task>>
    BY DEF Fetching, Pass, BeginFetch, FetchOk, FetchErr, SendUpdate, Expire, PollFails, net
<1>2. UNCHANGED chan \/ \E m \in Messages : Deliver(m)
    <2>1. CASE SendUpdate
        BY <2>1, MessageTypes DEF SendUpdate, Typed, Targets
    <2>2. CASE Expire
        BY <2>2 DEF Expire, Typed, TypeOK
    <2>3. CASE PollFails
        BY <2>3, MessageTypes DEF PollFails
    <2>4. CASE Pass \/ BeginFetch \/ FetchOk \/ FetchErr
        BY <2>4 DEF Pass, BeginFetch, FetchOk, FetchErr
    <2> QED
        BY <2>1, <2>2, <2>3, <2>4 DEF Fetching
<1>3. \A i \in 1..Len(chan) : i \in 1..Len(chan') /\ chan'[i] = chan[i]
    BY <1>2, DeliverFacts DEF Typed
<1> QED
    BY <1>1, <1>3 DEF ConnectingIsServed, Served

\* Every outcome the loop takes closes the switcher; an update is none.
LEMMA UiServes ==
    ASSUME Typed, ConnectingIsServed, UiStep
    PROVE  ConnectingIsServed'
<1>1. CASE HandleSwitched \/ HandleFailure
    BY <1>1 DEF HandleSwitched, HandleFailure, ConnectingIsServed
<1>2. CASE HandleUpdate
    <2>1. /\ UNCHANGED <<modal, task>>
          /\ chan # <<>> /\ chan' = Tail(chan) /\ chan[1].kind = "Update"
        BY <1>2, TailFacts DEF HandleUpdate, Receive, net, Typed
    <2>2. \A i \in 1..Len(chan) : i = 1 \/ (i - 1 \in 1..Len(chan') /\ chan'[i - 1] = chan[i])
        BY <2>1, TailFacts DEF Typed
    <2> QED
        BY <2>1, <2>2 DEF ConnectingIsServed, Served
<1> QED
    BY <1>1, <1>2 DEF UiStep

\* The safety half of SwitchCompletes: while the switcher is connecting, and
\* takes no key, a dispatcher task is at work for it, or an outcome that closes
\* it is in the channel, whatever failures of other workers come in between.
THEOREM ConnectingStaysServed == Spec => []ConnectingIsServed
<1>1. Init => ConnectingIsServed
    BY DEF Init, ConnectingIsServed
<1>2. IInv /\ ConnectingIsServed /\ [Next]_vars => ConnectingIsServed'
    <2> SUFFICES ASSUME IInv, ConnectingIsServed, [Next]_vars PROVE ConnectingIsServed'
        OBVIOUS
    <2>1. CASE UNCHANGED vars
        BY <2>1 DEF vars, ConnectingIsServed, Served
    <2>2. CASE Next
        BY <2>2, UserServes, TaskServes, RequestServes, UiServes DEF IInv, Next
    <2> QED
        BY <2>1, <2>2
<1> QED
    BY <1>1, <1>2, Invariance, PTL DEF Spec
=============================================================================
