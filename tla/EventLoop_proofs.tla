--------------------------- MODULE EventLoop_proofs ---------------------------
(***************************************************************************)
(* Proofs about EventLoop, for any tasks, bursts and channel capacity.     *)
(***************************************************************************)
EXTENDS EventLoop, FiniteSetTheorems, TLAPS

\* The types of the channel and of everything but the history of the pace.
LoopTypes ==
    /\ buf \in Seq(Events)
    /\ free \in 0..Capacity
    /\ waiting \in Seq(Senders)
    /\ granted \subseteq Senders
    /\ left \in [Producers -> Nat]
    /\ ui \in {"recv", "fanout", "send"}
    /\ updated \in Fetchers \cup {NoOne}
    /\ tab \in BOOLEAN
    /\ stale \subseteq Fetchers

\* The semaphore's own invariant: no slot is lost or invented, counting those
\* promised to woken senders; nobody waits while a slot is free; a sender
\* waits once, and is not also woken.
SlotsConserved == free + Len(buf) + Cardinality(granted) = Capacity
NoBarging == waiting # <<>> => free = 0
OneWait ==
    /\ \A i, j \in 1..Len(waiting) : i # j => waiting[i] # waiting[j]
    /\ \A i \in 1..Len(waiting) : waiting[i] \notin granted

\* Only fetchers have updates to announce.
FanOutInv ==
    /\ \A i \in 1..Len(buf) : buf[i].kind # "Other" => buf[i].from \in Fetchers
    /\ ui = "fanout" => updated \in Fetchers
    /\ ui = "recv" => updated = NoOne

\* A sender that waits is in the middle of a send.
WaitInv ==
    /\ \A p \in Producers : Blocked(p) => left[p] > 0
    /\ Blocked(Ui) => ui = "send"
    /\ IsFiniteSet(granted)

IInv == LoopTypes /\ FanOutInv /\ WaitInv /\ OneWait /\ NoBarging
          /\ SlotsConserved /\ LagIsAnnounced

-----------------------------------------------------------------------------
(* The channel operations *)

ChanType == /\ buf \in Seq(Events)
            /\ free \in 0..Capacity
            /\ waiting \in Seq(Senders)
            /\ granted \subseteq Senders
            /\ IsFiniteSet(granted)

ChanInv == ChanType /\ OneWait /\ NoBarging /\ SlotsConserved

\* What a sender has to say is an event.
LEMMA MessageType ==
    ASSUME NEW s \in Senders, s = Ui => updated \in Fetchers
    PROVE  Message(s) \in Events
  BY EventLoopAssumption DEF Message, Events, Senders, Producers

\* A send that finds a slot.
LEMMA SendNowSafe ==
    ASSUME ChanInv, NEW s \in Senders, SendNow(s), Message(s) \in Events
    PROVE  ChanInv'
  <1>1. ChanType'
    BY EventLoopAssumption DEF ChanInv, ChanType, SendNow
  <1>2. OneWait' /\ NoBarging'
    BY DEF ChanInv, ChanType, SendNow, OneWait, NoBarging
  <1>3. SlotsConserved'
    <2>1. Len(buf') = Len(buf) + 1
      BY DEF ChanInv, ChanType, SendNow
    <2>2. Cardinality(granted) \in Nat
      BY FS_CardinalityType DEF ChanInv, ChanType
    <2> QED BY <2>1, <2>2, EventLoopAssumption DEF ChanInv, ChanType, SendNow, SlotsConserved
  <1> QED BY <1>1, <1>2, <1>3 DEF ChanInv

\* A send that has to queue.
LEMMA SendQueueSafe ==
    ASSUME ChanInv, NEW s \in Senders, SendQueue(s), ~Blocked(s)
    PROVE  ChanInv'
  <1>1. ChanType'
    BY DEF ChanInv, ChanType, SendQueue
  <1>2. NoBarging' /\ SlotsConserved'
    BY DEF ChanInv, ChanType, SendQueue, NoBarging, SlotsConserved
  <1>3. OneWait'
    <2>1. /\ Len(waiting') = Len(waiting) + 1
          /\ \A i \in 1..Len(waiting) : waiting'[i] = waiting[i]
          /\ waiting'[Len(waiting) + 1] = s
      BY DEF ChanInv, ChanType, SendQueue
    <2>2. /\ s \notin granted
          /\ \A i \in 1..Len(waiting) : waiting[i] # s
      BY DEF Blocked, Queued
    <2>3. Len(waiting) \in Nat
      BY DEF ChanInv, ChanType
    <2>4. \A i \in 1..Len(waiting') : i \in 1..Len(waiting) \/ i = Len(waiting) + 1
      BY <2>1, <2>3
    <2>5. granted' = granted
      BY DEF SendQueue
    <2>6. \A i \in 1..Len(waiting') : waiting'[i] \notin granted'
      BY <2>1, <2>2, <2>4, <2>5 DEF ChanInv, OneWait
    <2>7. \A i, j \in 1..Len(waiting') : i # j => waiting'[i] # waiting'[j]
      BY <2>1, <2>2, <2>4 DEF ChanInv, OneWait
    <2> QED BY <2>6, <2>7 DEF OneWait
  <1> QED BY <1>1, <1>2, <1>3 DEF ChanInv

\* A send that was granted its slot.
LEMMA SendGrantedSafe ==
    ASSUME ChanInv, NEW s \in Senders, SendGranted(s), Message(s) \in Events
    PROVE  ChanInv'
  <1>1. IsFiniteSet(granted') /\ Cardinality(granted') = Cardinality(granted) - 1
    BY FS_RemoveElement DEF ChanInv, ChanType, SendGranted
  <1>2. ChanType'
    BY <1>1 DEF ChanInv, ChanType, SendGranted
  <1>3. OneWait' /\ NoBarging'
    BY DEF ChanInv, ChanType, SendGranted, OneWait, NoBarging
  <1>4. SlotsConserved'
    <2>1. Len(buf') = Len(buf) + 1
      BY DEF ChanInv, ChanType, SendGranted
    <2>2. Cardinality(granted) \in Nat
      BY FS_CardinalityType DEF ChanInv, ChanType
    <2> QED
      BY <1>1, <2>1, <2>2, EventLoopAssumption
         DEF ChanInv, ChanType, SendGranted, SlotsConserved
  <1> QED BY <1>2, <1>3, <1>4 DEF ChanInv

\* A receive, which may hand the slot on.
LEMMA TakeSafe ==
    ASSUME ChanInv, Take
    PROVE  ChanInv'
  <1>1. Len(buf') = Len(buf) - 1 /\ buf' \in Seq(Events) /\ Len(buf) \in Nat \ {0}
    BY DEF ChanInv, ChanType, Take
  <1>2. Cardinality(granted) \in Nat
    BY FS_CardinalityType DEF ChanInv, ChanType
  <1>3. CASE waiting = <<>>
    <2>1. free' = free + 1 /\ granted' = granted /\ waiting' = waiting
      BY <1>3 DEF Take
    <2>2. SlotsConserved' /\ free' \in 0..Capacity
      BY <1>1, <1>2, <2>1, EventLoopAssumption DEF ChanInv, ChanType, SlotsConserved
    <2>3. OneWait' /\ NoBarging'
      BY <1>3, <2>1 DEF ChanInv, OneWait, NoBarging
    <2> QED BY <1>1, <2>1, <2>2, <2>3 DEF ChanInv, ChanType
  <1>4. CASE waiting # <<>>
    <2> DEFINE w == Head(waiting)
    <2>1. free' = free /\ granted' = granted \cup {w} /\ waiting' = Tail(waiting)
      BY <1>4 DEF Take
    <2>2. /\ w = waiting[1] /\ Len(waiting) \in Nat \ {0} /\ w \in Senders
          /\ waiting' \in Seq(Senders) /\ Len(waiting') = Len(waiting) - 1
          /\ \A i \in 1..Len(waiting') : waiting'[i] = waiting[i + 1]
      BY <1>4, <2>1 DEF ChanInv, ChanType
    <2>3. w \notin granted
      BY <2>2 DEF ChanInv, OneWait
    <2>4. IsFiniteSet(granted') /\ Cardinality(granted') = Cardinality(granted) + 1
      BY <2>1, <2>3, FS_AddElement DEF ChanInv, ChanType
    <2>5. free = 0
      BY <1>4 DEF ChanInv, NoBarging
    <2>6. SlotsConserved' /\ NoBarging'
      BY <1>1, <1>2, <2>1, <2>4, <2>5, EventLoopAssumption
         DEF ChanInv, ChanType, SlotsConserved, NoBarging
    <2>7. \A i \in 1..Len(waiting') : i + 1 \in 1..Len(waiting) /\ i + 1 # 1
      BY <2>2
    <2>8. \A i \in 1..Len(waiting') : waiting'[i] \notin granted'
      BY <2>1, <2>2, <2>7 DEF ChanInv, OneWait
    <2>9. \A i, j \in 1..Len(waiting') : i # j => waiting'[i] # waiting'[j]
      <3> TAKE i, j \in 1..Len(waiting')
      <3> HAVE i # j
      <3>1. i + 1 # j + 1
        OBVIOUS
      <3> QED BY <2>2, <2>7, <3>1 DEF ChanInv, OneWait
    <2>10. OneWait'
      BY <2>8, <2>9 DEF OneWait
    <2> QED BY <1>1, <2>1, <2>2, <2>4, <2>6, <2>10 DEF ChanInv, ChanType
  <1> QED BY <1>3, <1>4

-----------------------------------------------------------------------------
(* Who waits after each operation *)

LEMMA SendNowWaits ==
    ASSUME NEW s, NEW t, SendNow(s)
    PROVE  Blocked(t)' <=> Blocked(t)
  BY DEF SendNow, Blocked, Queued

LEMMA SendQueueWaits ==
    ASSUME ChanType, NEW s \in Senders, SendQueue(s), NEW t, Blocked(t)'
    PROVE  Blocked(t) \/ t = s
  BY DEF ChanType, SendQueue, Blocked, Queued

LEMMA SendGrantedWaits ==
    ASSUME NEW s, NEW t, SendGranted(s), Blocked(t)'
    PROVE  Blocked(t)
  BY DEF SendGranted, Blocked, Queued

\* With nobody queued twice, a granted sender no longer waits once it sends.
LEMMA SendGrantedLeaves ==
    ASSUME OneWait, NEW s, SendGranted(s)
    PROVE  ~Blocked(s)'
  BY DEF OneWait, SendGranted, Blocked, Queued

LEMMA TakeWaits ==
    ASSUME ChanType, Take, NEW t, Blocked(t)'
    PROVE  Blocked(t)
  <1>1. CASE waiting = <<>>
    BY <1>1 DEF Take, Blocked, Queued
  <1>2. CASE waiting # <<>>
    <2>1. /\ Head(waiting) = waiting[1] /\ Len(waiting) \in Nat \ {0}
          /\ Len(Tail(waiting)) = Len(waiting) - 1
          /\ \A i \in 1..Len(Tail(waiting)) :
                Tail(waiting)[i] = waiting[i + 1] /\ i + 1 \in 1..Len(waiting)
          /\ 1 \in 1..Len(waiting)
      BY <1>2 DEF ChanType
    <2>2. granted' = granted \cup {waiting[1]} /\ waiting' = Tail(waiting)
      BY <1>2, <2>1 DEF Take
    <2> QED BY <2>1, <2>2 DEF Blocked, Queued
  <1> QED BY <1>1, <1>2

\* What the receiver leaves behind.
LEMMA TakeBuffer ==
    ASSUME ChanType, Take
    PROVE  /\ Head(buf) = buf[1]
           /\ Head(buf) \in Events
           /\ Len(buf) \in Nat \ {0}
           /\ Len(buf') = Len(buf) - 1
           /\ \A i \in 1..Len(buf') : buf'[i] = buf[i + 1] /\ i + 1 \in 1..Len(buf)
           /\ \A i \in 1..Len(buf) : i = 1 \/ (i - 1 \in 1..Len(buf') /\ buf'[i - 1] = buf[i])
  <1>1. buf' = Tail(buf) /\ buf # <<>> /\ buf \in Seq(Events)
    BY DEF ChanType, Take
  <1>2. /\ Head(buf) = buf[1] /\ Head(buf) \in Events
        /\ Len(buf) \in Nat \ {0} /\ Len(buf') = Len(buf) - 1
    BY <1>1
  <1>3. \A i \in 1..Len(buf') : buf'[i] = buf[i + 1] /\ i + 1 \in 1..Len(buf)
    BY <1>1, <1>2
  <1>4. ASSUME NEW i \in 1..Len(buf), i # 1
        PROVE  i - 1 \in 1..Len(buf') /\ buf'[i - 1] = buf[i]
    <2>1. i - 1 \in 1..Len(buf') /\ (i - 1) + 1 = i
      BY <1>2, <1>4
    <2>2. buf'[i - 1] = buf[(i - 1) + 1]
      BY <1>3, <2>1
    <2> QED BY <2>1, <2>2
  <1> QED BY <1>2, <1>3, <1>4

\* What a delivery adds.
LEMMA DeliverBuffer ==
    ASSUME ChanType, NEW m \in Events, buf' = Append(buf, m)
    PROVE  /\ Len(buf) \in Nat
           /\ Len(buf') = Len(buf) + 1
           /\ buf'[Len(buf) + 1] = m
           /\ \A i \in 1..Len(buf) : buf'[i] = buf[i]
           /\ \A i \in 1..Len(buf') : i \in 1..Len(buf) \/ i = Len(buf) + 1
  BY DEF ChanType

-----------------------------------------------------------------------------
(* The inductive invariant *)

LEMMA InitInv ==
    ASSUME Init
    PROVE  IInv
  <1>1. Cardinality({}) = 0 /\ IsFiniteSet({})
    BY FS_EmptySet
  <1>2. LoopTypes
    <2>1. /\ buf \in Seq(Events) /\ waiting \in Seq(Senders)
          /\ free \in 0..Capacity /\ granted \subseteq Senders
      BY EventLoopAssumption DEF Init
    <2>2. left \in [Producers -> Nat]
      BY DEF Init
    <2>3. /\ ui \in {"recv", "fanout", "send"} /\ updated \in Fetchers \cup {NoOne}
          /\ stale \subseteq Fetchers
      BY DEF Init
    <2>4. tab \in BOOLEAN
      BY Zenon DEF Init
    <2> QED BY <2>1, <2>2, <2>3, <2>4 DEF LoopTypes
  <1>3. FanOutInv /\ OneWait /\ NoBarging /\ LagIsAnnounced
    BY DEF Init, FanOutInv, OneWait, NoBarging, LagIsAnnounced
  <1>4. WaitInv
    BY <1>1 DEF Init, WaitInv, Blocked, Queued
  <1>5. SlotsConserved
    BY <1>1, EventLoopAssumption DEF Init, SlotsConserved
  <1> QED BY <1>2, <1>3, <1>4, <1>5 DEF IInv

LEMMA ChanFromIInv ==
    ASSUME IInv
    PROVE  ChanInv
  BY DEF IInv, LoopTypes, WaitInv, ChanInv, ChanType

\* The announcements still hold when a message that is none is delivered,
\* or any message at all.
LEMMA DeliverLag ==
    ASSUME IInv, NEW m \in Events, buf' = Append(buf, m), UNCHANGED uiVars
    PROVE  LagIsAnnounced'
  <1>1. \A i \in 1..Len(buf) : i \in 1..Len(buf') /\ buf'[i] = buf[i]
    BY DeliverBuffer, ChanFromIInv DEF ChanInv
  <1> QED BY <1>1 DEF IInv, LagIsAnnounced, uiVars

LEMMA BeginInv ==
    ASSUME IInv, NEW p \in Producers, Begin(p)
    PROVE  IInv'
  <1>1. UNCHANGED <<chanVars, uiVars>>
    BY DEF Begin
  <1>2. /\ OneWait' /\ NoBarging' /\ SlotsConserved' /\ LagIsAnnounced' /\ FanOutInv'
    BY <1>1 DEF IInv, chanVars, uiVars, OneWait, NoBarging, SlotsConserved,
                LagIsAnnounced, FanOutInv
  <1>3. left' \in [Producers -> Nat]
    BY EventLoopAssumption DEF IInv, LoopTypes, Begin
  <1>4. LoopTypes'
    BY <1>1, <1>3 DEF IInv, LoopTypes, chanVars, uiVars
  <1>5. WaitInv'
    <2>1. \A t : Blocked(t)' <=> Blocked(t)
      BY <1>1 DEF Blocked, Queued, chanVars
    <2>2. \A q \in Producers : left[q] > 0 => left'[q] > 0
      BY EventLoopAssumption DEF IInv, LoopTypes, Begin
    <2> QED BY <1>1, <2>1, <2>2 DEF IInv, WaitInv, chanVars, uiVars
  <1> QED BY <1>2, <1>4, <1>5 DEF IInv

\* A producer's delivery, whether at once or after waiting.
LEMMA ProducerDelivers ==
    ASSUME IInv, NEW p \in Producers, buf' = Append(buf, Message(p)),
           UNCHANGED uiVars
    PROVE  FanOutInv' /\ LagIsAnnounced' /\ Message(p) \in Events
  <1>1. p # Ui /\ p \in Senders
    BY EventLoopAssumption DEF Senders
  <1>2. Message(p) \in Events /\ (Message(p).kind # "Other" => Message(p).from \in Fetchers)
    BY <1>1, MessageType DEF Message
  <1>3. LagIsAnnounced'
    BY <1>2, DeliverLag
  <1>4. FanOutInv'
    BY <1>2, DeliverBuffer, ChanFromIInv DEF ChanInv, IInv, FanOutInv, uiVars
  <1> QED BY <1>2, <1>3, <1>4

LEMMA SendInv ==
    ASSUME IInv, NEW p \in Producers, Send(p)
    PROVE  IInv'
  <1>1. p # Ui /\ p \in Senders /\ UNCHANGED uiVars /\ left[p] > 0 /\ ~Blocked(p)
    BY EventLoopAssumption DEF Senders, Send
  <1>2. ChanInv
    BY ChanFromIInv
  <1>3. CASE SendNow(p) /\ left' = [left EXCEPT ![p] = @ - 1]
    <2>1. FanOutInv' /\ LagIsAnnounced' /\ Message(p) \in Events
      BY <1>1, <1>3, ProducerDelivers DEF SendNow
    <2>2. ChanInv'
      BY <1>1, <1>2, <1>3, <2>1, SendNowSafe
    <2>3. left' \in [Producers -> Nat] /\ \A q \in Producers : q # p => left'[q] = left[q]
      BY <1>1, <1>3 DEF IInv, LoopTypes
    <2>4. \A t : Blocked(t)' <=> Blocked(t)
      BY <1>3, SendNowWaits
    <2>5. WaitInv'
      BY <1>1, <2>2, <2>3, <2>4 DEF IInv, WaitInv, ChanInv, ChanType, uiVars
    <2>6. LoopTypes'
      BY <1>1, <2>2, <2>3 DEF IInv, LoopTypes, ChanInv, ChanType, uiVars
    <2> QED BY <2>1, <2>2, <2>5, <2>6 DEF IInv, ChanInv
  <1>4. CASE SendQueue(p) /\ UNCHANGED left
    <2>1. ChanInv'
      BY <1>1, <1>2, <1>4, SendQueueSafe
    <2>2. buf' = buf /\ left' = left
      BY <1>4 DEF SendQueue
    <2>3. FanOutInv' /\ LagIsAnnounced'
      BY <1>1, <2>2 DEF IInv, FanOutInv, LagIsAnnounced, uiVars
    <2>4. \A t : Blocked(t)' => Blocked(t) \/ t = p
      BY <1>1, <1>2, <1>4, SendQueueWaits DEF ChanInv
    <2>5. WaitInv'
      BY <1>1, <2>1, <2>2, <2>4 DEF IInv, WaitInv, ChanInv, ChanType, uiVars
    <2>6. LoopTypes'
      BY <1>1, <2>1, <2>2 DEF IInv, LoopTypes, ChanInv, ChanType, uiVars
    <2> QED BY <2>1, <2>3, <2>5, <2>6 DEF IInv, ChanInv
  <1> QED BY <1>3, <1>4 DEF Send

LEMMA ResumeInv ==
    ASSUME IInv, NEW p \in Producers, Resume(p)
    PROVE  IInv'
  <1>1. /\ p # Ui /\ p \in Senders /\ UNCHANGED uiVars /\ SendGranted(p)
        /\ left' = [left EXCEPT ![p] = @ - 1]
    BY EventLoopAssumption DEF Senders, Resume
  <1>2. ChanInv
    BY ChanFromIInv
  <1>3. FanOutInv' /\ LagIsAnnounced' /\ Message(p) \in Events
    BY <1>1, ProducerDelivers DEF SendGranted
  <1>4. ChanInv'
    BY <1>1, <1>2, <1>3, SendGrantedSafe
  <1>5. left[p] > 0
    BY <1>1 DEF SendGranted, Blocked, IInv, WaitInv
  <1>6. left' \in [Producers -> Nat] /\ \A q \in Producers : q # p => left'[q] = left[q]
    BY <1>1, <1>5 DEF IInv, LoopTypes
  <1>7. ~Blocked(p)' /\ \A t : Blocked(t)' => Blocked(t)
    BY <1>1, <1>2, SendGrantedLeaves, SendGrantedWaits DEF ChanInv
  <1>8. WaitInv'
    BY <1>1, <1>4, <1>6, <1>7 DEF IInv, WaitInv, ChanInv, ChanType, uiVars
  <1>9. LoopTypes'
    BY <1>1, <1>4, <1>6 DEF IInv, LoopTypes, ChanInv, ChanType, uiVars
  <1> QED BY <1>3, <1>4, <1>8, <1>9 DEF IInv, ChanInv

\* What every receive leaves: the channel, the waiters and the producers.
LEMMA ReceiveSafe ==
    ASSUME IInv, ui = "recv", Take, UNCHANGED left
    PROVE  /\ ChanInv'
           /\ WaitInv'
           /\ \A i \in 1..Len(buf') : buf'[i].kind # "Other" => buf'[i].from \in Fetchers
           /\ Head(buf) = buf[1] /\ Head(buf) \in Events /\ 1 \in 1..Len(buf)
  <1>1. ChanInv /\ ChanInv'
    BY ChanFromIInv, TakeSafe
  <1>2. \A t : Blocked(t)' => Blocked(t)
    BY <1>1, TakeWaits DEF ChanInv
  <1>3. ~Blocked(Ui)
    BY DEF IInv, WaitInv
  <1>4. WaitInv'
    BY <1>1, <1>2, <1>3 DEF IInv, WaitInv, ChanInv, ChanType
  <1> QED BY <1>1, <1>4, TakeBuffer DEF ChanInv, IInv, FanOutInv

\* Announcements in the channel stay there when another message is taken.
LEMMA ReceiveLag ==
    ASSUME IInv, Take, NEW p \in stale \ BrowserOnly, updated = NoOne,
           Head(buf) # [kind |-> "Changed", from |-> p]
    PROVE  \E i \in 1..Len(buf') : buf'[i] = [kind |-> "Changed", from |-> p]
  <1>1. p # NoOne
    BY EventLoopAssumption DEF IInv, LoopTypes, Producers
  <1>2. PICK i \in 1..Len(buf) : buf[i] = [kind |-> "Changed", from |-> p]
    BY <1>1 DEF IInv, LagIsAnnounced
  <1>3. i # 1
    BY <1>2, TakeBuffer, ChanFromIInv DEF ChanInv
  <1> QED BY <1>2, <1>3, TakeBuffer, ChanFromIInv DEF ChanInv

LEMMA RecvUpdateInv ==
    ASSUME IInv, RecvUpdate
    PROVE  IInv'
  <1>1. /\ ui = "recv" /\ Take /\ Head(buf).kind = "Update"
        /\ updated' = Head(buf).from /\ stale' = stale \cup {Head(buf).from}
        /\ ui' = "fanout" /\ UNCHANGED left /\ UNCHANGED tab
    BY DEF RecvUpdate, taskVars
  <1>2. /\ ChanInv' /\ WaitInv' /\ Head(buf) = buf[1]
        /\ Head(buf) \in Events /\ 1 \in 1..Len(buf)
        /\ \A i \in 1..Len(buf') : buf'[i].kind # "Other" => buf'[i].from \in Fetchers
    BY <1>1, ReceiveSafe
  <1>3. Head(buf).from \in Fetchers /\ updated = NoOne
    BY <1>1, <1>2 DEF IInv, FanOutInv
  <1>4. FanOutInv'
    BY <1>1, <1>2, <1>3 DEF FanOutInv
  <1>5. tab' \in BOOLEAN
    BY <1>1 DEF IInv, LoopTypes
  <1>6. LoopTypes'
    BY <1>1, <1>2, <1>3, <1>5 DEF IInv, LoopTypes, ChanInv, ChanType
  <1>7. LagIsAnnounced'
    <2>1. ASSUME NEW p \in stale' \ BrowserOnly, p # updated'
          PROVE  \E i \in 1..Len(buf') : buf'[i] = [kind |-> "Changed", from |-> p]
      <3>1. p \in stale \ BrowserOnly
        BY <1>1, <2>1
      <3>2. Head(buf) # [kind |-> "Changed", from |-> p]
        BY <1>1
      <3> QED BY <1>1, <1>3, <3>1, <3>2, ReceiveLag
    <2> QED BY <2>1 DEF LagIsAnnounced
  <1> QED BY <1>2, <1>4, <1>6, <1>7 DEF IInv, ChanInv

LEMMA RecvChangedInv ==
    ASSUME IInv, RecvChanged
    PROVE  IInv'
  <1>1. /\ ui = "recv" /\ Take /\ Head(buf).kind = "Changed"
        /\ stale' \subseteq stale
        /\ Head(buf).from \notin BrowserOnly => Head(buf).from \notin stale'
        /\ ui' = ui /\ updated' = updated /\ UNCHANGED left /\ UNCHANGED tab
    BY DEF RecvChanged, taskVars
  <1>2. /\ ChanInv' /\ WaitInv' /\ Head(buf) \in Events
        /\ \A i \in 1..Len(buf') : buf'[i].kind # "Other" => buf'[i].from \in Fetchers
    BY <1>1, ReceiveSafe
  <1>3. updated = NoOne
    BY <1>1 DEF IInv, FanOutInv
  <1>4. FanOutInv'
    BY <1>1, <1>2, <1>3 DEF FanOutInv
  <1>5. tab' \in BOOLEAN
    BY <1>1 DEF IInv, LoopTypes
  <1>6. LoopTypes'
    BY <1>1, <1>2, <1>5 DEF IInv, LoopTypes, ChanInv, ChanType
  <1>7. LagIsAnnounced'
    <2>1. ASSUME NEW p \in stale' \ BrowserOnly
          PROVE  \E i \in 1..Len(buf') : buf'[i] = [kind |-> "Changed", from |-> p]
      <3>1. p \in stale \ BrowserOnly /\ Head(buf) # [kind |-> "Changed", from |-> p]
        BY <1>1, <2>1
      <3> QED BY <1>1, <1>3, <3>1, ReceiveLag
    <2> QED BY <2>1 DEF LagIsAnnounced
  <1> QED BY <1>2, <1>4, <1>6, <1>7 DEF IInv, ChanInv

LEMMA RecvOtherInv ==
    ASSUME IInv, RecvOther
    PROVE  IInv'
  <1>1. /\ ui = "recv" /\ Take /\ Head(buf).kind = "Other" /\ tab' \in BOOLEAN
        /\ ui' = ui /\ updated' = updated /\ stale' = stale /\ UNCHANGED left
    BY DEF RecvOther, taskVars
  <1>2. /\ ChanInv' /\ WaitInv'
        /\ \A i \in 1..Len(buf') : buf'[i].kind # "Other" => buf'[i].from \in Fetchers
    BY <1>1, ReceiveSafe
  <1>3. updated = NoOne
    BY <1>1 DEF IInv, FanOutInv
  <1>4. FanOutInv'
    BY <1>1, <1>2, <1>3 DEF FanOutInv
  <1>5. LoopTypes'
    BY <1>1, <1>2 DEF IInv, LoopTypes, ChanInv, ChanType
  <1>6. LagIsAnnounced'
    <2>1. ASSUME NEW p \in stale' \ BrowserOnly
          PROVE  \E i \in 1..Len(buf') : buf'[i] = [kind |-> "Changed", from |-> p]
      <3>1. p \in stale \ BrowserOnly /\ Head(buf) # [kind |-> "Changed", from |-> p]
        BY <1>1, <2>1
      <3> QED BY <1>1, <1>3, <3>1, ReceiveLag
    <2> QED BY <2>1 DEF LagIsAnnounced
  <1> QED BY <1>2, <1>4, <1>5, <1>6 DEF IInv, ChanInv

LEMMA FanOutInvariant ==
    ASSUME IInv, FanOut
    PROVE  IInv'
  <1>1. ui = "fanout" /\ left' = left /\ tab' = tab /\ stale' = stale
    BY DEF FanOut, taskVars
  <1>2. ChanInv /\ updated \in Fetchers /\ Ui \in Senders /\ ~Blocked(Ui)
    BY <1>1, ChanFromIInv DEF IInv, FanOutInv, WaitInv, Senders
  <1>3. Message(Ui) = [kind |-> "Changed", from |-> updated] /\ Message(Ui) \in Events
    BY <1>2, MessageType DEF Message
  <1>4. tab' \in BOOLEAN
    BY <1>1 DEF IInv, LoopTypes
  <1>5. CASE SendNow(Ui) /\ ui' = "recv" /\ updated' = NoOne
    <2>1. ChanInv'
      BY <1>2, <1>3, <1>5, SendNowSafe
    <2>2. buf' = Append(buf, Message(Ui))
      BY <1>5 DEF SendNow
    <2>3. \A t : Blocked(t)' <=> Blocked(t)
      BY <1>5, SendNowWaits
    <2>4. WaitInv'
      BY <1>1, <1>2, <2>1, <2>3 DEF IInv, WaitInv, ChanInv, ChanType
    <2>5. LoopTypes'
      BY <1>1, <1>4, <1>5, <2>1 DEF IInv, LoopTypes, ChanInv, ChanType
    <2>6. FanOutInv'
      BY <1>2, <1>3, <1>5, <2>2, DeliverBuffer DEF ChanInv, IInv, FanOutInv
    <2>7. LagIsAnnounced'
      <3>1. \A i \in 1..Len(buf) : i \in 1..Len(buf') /\ buf'[i] = buf[i]
        BY <1>2, <1>3, <2>2, DeliverBuffer DEF ChanInv
      <3>2. /\ Len(buf) + 1 \in 1..Len(buf')
            /\ buf'[Len(buf) + 1] = [kind |-> "Changed", from |-> updated]
        BY <1>2, <1>3, <2>2, DeliverBuffer DEF ChanInv
      <3> QED BY <1>1, <3>1, <3>2 DEF IInv, LagIsAnnounced
    <2> QED BY <2>1, <2>4, <2>5, <2>6, <2>7 DEF IInv, ChanInv
  <1>6. CASE SendQueue(Ui) /\ ui' = "send" /\ UNCHANGED updated
    <2>1. ChanInv'
      BY <1>2, <1>6, SendQueueSafe
    <2>2. buf' = buf
      BY <1>6 DEF SendQueue
    <2>3. \A t : Blocked(t)' => Blocked(t) \/ t = Ui
      BY <1>2, <1>6, SendQueueWaits DEF ChanInv
    <2>4. WaitInv'
      BY <1>1, <1>6, <2>1, <2>3, EventLoopAssumption DEF IInv, WaitInv, ChanInv, ChanType
    <2>5. LoopTypes'
      BY <1>1, <1>4, <1>6, <2>1 DEF IInv, LoopTypes, ChanInv, ChanType
    <2>6. FanOutInv' /\ LagIsAnnounced'
      BY <1>1, <1>6, <2>2 DEF IInv, FanOutInv, LagIsAnnounced
    <2> QED BY <2>1, <2>4, <2>5, <2>6 DEF IInv, ChanInv
  <1> QED BY <1>5, <1>6 DEF FanOut

LEMMA NextInv ==
    ASSUME IInv, [Next]_vars
    PROVE  IInv'
  <1>1. CASE UiStep
    BY <1>1, RecvUpdateInv, FanOutInvariant, RecvChangedInv, RecvOtherInv DEF UiStep
  <1>2. ASSUME NEW p \in Producers, ProducerStep(p) PROVE IInv'
    BY <1>2, BeginInv, SendInv, ResumeInv DEF ProducerStep
  <1>3. CASE UNCHANGED vars
    <2>1. UNCHANGED <<buf, free, waiting, granted, left, ui, updated, tab, stale>>
      BY <1>3 DEF vars, chanVars, taskVars, uiVars
    <2>2. LoopTypes' /\ FanOutInv' /\ OneWait' /\ NoBarging' /\ SlotsConserved' /\ LagIsAnnounced'
      BY <2>1 DEF IInv, LoopTypes, FanOutInv, OneWait, NoBarging, SlotsConserved, LagIsAnnounced
    <2>3. WaitInv'
      BY <2>1 DEF IInv, WaitInv, Blocked, Queued
    <2> QED BY <2>2, <2>3 DEF IInv
  <1> QED BY <1>1, <1>2, <1>3 DEF Next

\* The inductive invariant holds in every reachable state of the channel and
\* its loop, whatever the tasks, their bursts and the capacity.
THEOREM Invariance == Spec => []IInv
  <1>1. Init => IInv
    BY InitInv
  <1>2. IInv /\ [Next]_vars => IInv'
    BY NextInv
  <1> QED BY <1>1, <1>2, PTL DEF Spec

\* Every variable of the channel and the loop keeps its type.
THEOREM TypeCorrect == Spec => []TypeOK
  <1>1. Init => hasty \in BOOLEAN
    BY Zenon DEF Init
  <1>2. hasty \in BOOLEAN /\ [Next]_vars => (hasty \in BOOLEAN)'
    <2> SUFFICES ASSUME hasty \in BOOLEAN, [Next]_vars
                 PROVE  hasty' \in BOOLEAN
      OBVIOUS
    <2>1. CASE hasty' = hasty
      BY <2>1
    <2>2. ASSUME NEW p \in Producers, Begin(p)
          PROVE  hasty' \in BOOLEAN
      <3>1. hasty' = (hasty \/ InFlight(p))
        BY <2>2 DEF Begin
      <3>2. InFlight(p) \in BOOLEAN
        BY Zenon DEF InFlight
      <3> QED BY <3>1, <3>2, Zenon
    <2>3. hasty' = hasty \/ \E p \in Producers : Begin(p)
      BY DEF vars, taskVars, Next, UiStep, RecvUpdate, FanOut, RecvChanged,
             RecvOther, ProducerStep, Send, Resume
    <2> QED BY <2>1, <2>2, <2>3
  <1>3. LoopTypes /\ hasty \in BOOLEAN => TypeOK
    BY DEF LoopTypes, TypeOK
  <1>4. IInv => LoopTypes
    BY DEF IInv
  <1> QED BY <1>1, <1>2, <1>3, <1>4, Invariance, PTL DEF Spec

\* Every update the loop applied to the snapshot is announced to the views:
\* even a fan-out that never ends remembers what it has to say.
THEOREM LagAnnounced == Spec => []LagIsAnnounced
  <1>1. IInv => LagIsAnnounced
    BY DEF IInv
  <1> QED BY <1>1, Invariance, PTL

-----------------------------------------------------------------------------
(* No back-pressure at a healthy cadence.  Under it the events of a task   *)
(* that are still to be sent, in the channel or being fanned out are never *)
(* more than one cycle's (ShareInv).  Numbering them within the cycle maps *)
(* the messages of the channel one to one to the events of all cycles, so  *)
(* a channel with room for those has a slot free for whoever sends next.   *)

\* The events of one cycle of every task.
CycleEvents == UNION {{p} \X (1..Burst[p]) : p \in Producers}

\* The channel has room for one cycle of every task.
Roomy == IsFiniteSet(CycleEvents) /\ Cardinality(CycleEvents) <= Capacity

\* The messages of p in q; the one of p that is being fanned out.
Of(q, p) == {i \in 1..Len(q) : q[i].from = p}
Announcing(u, p) == IF u = p THEN 1 ELSE 0

ShareInv ==
    \A p \in Producers : Cardinality(Of(buf, p)) + left[p] + Announcing(updated, p) <= Burst[p]

PaceInv == ~hasty => waiting = <<>> /\ granted = {} /\ ui # "send" /\ ShareInv

LEMMA OfFinite ==
    ASSUME NEW q \in Seq(Events), NEW p
    PROVE  IsFiniteSet(Of(q, p)) /\ Cardinality(Of(q, p)) \in Nat
  <1>1. Len(q) \in Int /\ Of(q, p) \in SUBSET (1..Len(q))
    BY DEF Of
  <1>2. IsFiniteSet(1..Len(q))
    BY <1>1, FS_Interval
  <1> QED BY <1>1, <1>2, FS_Subset, FS_CardinalityType

LEMMA OfAppend ==
    ASSUME NEW q \in Seq(Events), NEW m \in Events, NEW p
    PROVE  Cardinality(Of(Append(q, m), p)) =
              Cardinality(Of(q, p)) + (IF m.from = p THEN 1 ELSE 0)
  <1> DEFINE n == Len(q) + 1
  <1>1. /\ Len(q) \in Nat /\ Len(Append(q, m)) = n /\ Append(q, m)[n] = m
        /\ \A i \in 1..Len(q) : Append(q, m)[i] = q[i]
    OBVIOUS
  <1>2. n \notin Of(q, p)
    BY <1>1 DEF Of
  <1>3. Of(Append(q, m), p) = IF m.from = p THEN Of(q, p) \cup {n} ELSE Of(q, p)
    BY <1>1 DEF Of
  <1>4. Cardinality(Of(q, p) \cup {n}) = Cardinality(Of(q, p)) + 1
    BY <1>2, OfFinite, FS_AddElement
  <1> HIDE DEF n
  <1>5. Cardinality(Of(q, p)) \in Nat
    BY OfFinite
  <1> QED BY <1>3, <1>4, <1>5

LEMMA OfTail ==
    ASSUME NEW q \in Seq(Events), q # <<>>, NEW p
    PROVE  Cardinality(Of(Tail(q), p)) + (IF Head(q).from = p THEN 1 ELSE 0) =
              Cardinality(Of(q, p))
  <1> DEFINE rest == Of(q, p) \ {1}
             back == [i \in rest |-> i - 1]
  <1>1. /\ Len(q) \in Nat \ {0} /\ Head(q) = q[1] /\ Len(Tail(q)) = Len(q) - 1
        /\ \A i \in 1..Len(Tail(q)) : Tail(q)[i] = q[i + 1]
        /\ Tail(q) \in Seq(Events)
    OBVIOUS
  <1>2. back \in [rest -> Of(Tail(q), p)]
    <2> SUFFICES ASSUME NEW i \in rest PROVE i - 1 \in Of(Tail(q), p)
      OBVIOUS
    <2>1. i \in 1..Len(q) /\ i # 1 /\ q[i].from = p
      BY DEF Of
    <2>2. i - 1 \in 1..Len(Tail(q)) /\ Tail(q)[i - 1] = q[(i - 1) + 1] /\ (i - 1) + 1 = i
      BY <1>1, <2>1
    <2> QED BY <2>1, <2>2 DEF Of
  <1>3. \A i, j \in rest : back[i] = back[j] => i = j
    BY DEF Of
  <1>4. \A k \in Of(Tail(q), p) : \E i \in rest : back[i] = k
    <2> SUFFICES ASSUME NEW k \in Of(Tail(q), p) PROVE k + 1 \in rest /\ (k + 1) - 1 = k
      OBVIOUS
    <2>1. k \in 1..Len(Tail(q)) /\ q[k + 1].from = p
      BY <1>1 DEF Of
    <2> QED BY <1>1, <2>1 DEF Of
  <1>5. back \in Bijection(rest, Of(Tail(q), p))
    BY <1>2, <1>3, <1>4 DEF Bijection, Injection, Surjection, IsInjective
  <1>6. IsFiniteSet(rest) /\ Cardinality(rest) =
           IF 1 \in Of(q, p) THEN Cardinality(Of(q, p)) - 1 ELSE Cardinality(Of(q, p))
    BY OfFinite, FS_RemoveElement
  <1>7. Cardinality(Of(Tail(q), p)) = Cardinality(rest)
    BY <1>5, <1>6, FS_Bijection DEF ExistsBijection
  <1>8. 1 \in Of(q, p) <=> Head(q).from = p
    BY <1>1 DEF Of
  <1>9. Cardinality(Of(q, p)) \in Nat
    BY OfFinite
  <1> HIDE DEF rest
  <1> QED BY <1>6, <1>7, <1>8, <1>9

\* A set no larger than n can be numbered within n.
LEMMA Numbering ==
    ASSUME NEW S, IsFiniteSet(S), NEW n \in Nat, Cardinality(S) <= n
    PROVE  \E h \in [S -> 1..n] : \A x, y \in S : h[x] = h[y] => x = y
  <1> DEFINE m == Cardinality(S)
  <1>1. m \in Nat /\ IsFiniteSet(1..m) /\ Cardinality(1..m) = m
    BY FS_CardinalityType, FS_Interval
  <1>2. PICK h : h \in Bijection(S, 1..m)
    BY <1>1, FS_SameCardinalityBij DEF ExistsBijection
  <1>3. h \in [S -> 1..m] /\ \A x, y \in S : h[x] = h[y] => x = y
    BY <1>2 DEF Bijection, Injection, IsInjective
  <1>4. 1..m \subseteq 1..n
    BY <1>1
  <1> HIDE DEF m
  <1>5. h \in [S -> 1..n]
    BY <1>3, <1>4
  <1> QED BY <1>3, <1>5

\* With an event still to be sent by q, or to be announced, the channel is not
\* full.
LEMMA RoomForOne ==
    ASSUME Roomy, IInv, ShareInv, NEW q \in Producers, left[q] > 0 \/ updated = q
    PROVE  Len(buf) < Capacity
  <1> DEFINE S == 0..Len(buf)
             Owner(i) == IF i = 0 THEN q ELSE buf[i].from
             Mine(p) == {i \in S : Owner(i) = p}
  <1>1. buf \in Seq(Events) /\ Len(buf) \in Nat /\ left \in [Producers -> Nat]
    BY DEF IInv, LoopTypes
  <1>2. \A i \in S : Owner(i) \in Producers
    <2> TAKE i \in S
    <2>1. i # 0 => buf[i] \in Events
      BY <1>1
    <2> QED BY <2>1 DEF Events
  <1>3. ASSUME NEW p \in Producers
        PROVE  IsFiniteSet(Mine(p)) /\ Cardinality(Mine(p)) <= Burst[p]
    <2>1. /\ IsFiniteSet(Of(buf, p)) /\ Cardinality(Of(buf, p)) \in Nat
          /\ Cardinality(Of(buf, p)) + left[p] + Announcing(updated, p) <= Burst[p]
          /\ left[p] \in Nat /\ Burst[p] \in Nat
      BY <1>1, OfFinite, EventLoopAssumption DEF ShareInv
    <2>2. Mine(p) = IF p = q THEN Of(buf, p) \cup {0} ELSE Of(buf, p)
      BY <1>1 DEF Of
    <2>3. 0 \notin Of(buf, p)
      BY <1>1 DEF Of
    <2>4. /\ IsFiniteSet(Of(buf, p) \cup {0})
          /\ Cardinality(Of(buf, p) \cup {0}) = Cardinality(Of(buf, p)) + 1
      BY <2>1, <2>3, FS_AddElement
    <2>5. Announcing(updated, p) \in {0, 1} /\ (updated = p => Announcing(updated, p) = 1)
      BY DEF Announcing
    <2> HIDE DEF Mine
    <2>6. CASE p = q
      BY <2>1, <2>2, <2>4, <2>5, <2>6
    <2>7. CASE p # q
      BY <2>1, <2>2, <2>5, <2>7
    <2> QED BY <2>6, <2>7
  <1> DEFINE Counts(h, p) == h \in [Mine(p) -> 1..Burst[p]]
                                /\ \A x, y \in Mine(p) : h[x] = h[y] => x = y
             H == [p \in Producers |-> CHOOSE h : Counts(h, p)]
             G == [i \in S |-> <<Owner(i), H[Owner(i)][i]>>]
  <1>4. ASSUME NEW p \in Producers PROVE Counts(H[p], p)
    <2>1. Burst[p] \in Nat
      BY EventLoopAssumption
    <2> HIDE DEF Mine
    <2>2. \E h : Counts(h, p)
      BY <1>3, <2>1, Numbering
    <2> HIDE DEF Counts
    <2> QED BY <2>2
  <1>5. \A i \in S : Owner(i) \in Producers /\ i \in Mine(Owner(i))
    BY <1>2
  <1> HIDE DEF Owner, H
  <1>6. G \in [S -> CycleEvents]
    <2> SUFFICES ASSUME NEW i \in S PROVE <<Owner(i), H[Owner(i)][i]>> \in CycleEvents
      OBVIOUS
    <2>1. H[Owner(i)][i] \in 1..Burst[Owner(i)]
      BY <1>4, <1>5
    <2> QED BY <1>5, <2>1 DEF CycleEvents
  <1>7. ASSUME NEW i \in S, NEW j \in S, G[i] = G[j] PROVE i = j
    <2>1. Owner(i) = Owner(j) /\ H[Owner(i)][i] = H[Owner(i)][j]
      BY <1>7
    <2> QED BY <1>4, <1>5, <2>1
  <1>8. G \in Injection(S, CycleEvents)
    <2> HIDE DEF G
    <2> QED BY <1>6, <1>7 DEF Injection, IsInjective
  <1>9. Cardinality(S) <= Cardinality(CycleEvents)
    BY <1>8, FS_Injection DEF Roomy
  <1>10. Cardinality(S) = Len(buf) + 1
    BY <1>1, FS_Interval
  <1>11. Cardinality(CycleEvents) \in Nat /\ Capacity \in Nat
    BY FS_CardinalityType, EventLoopAssumption DEF Roomy
  <1> QED BY <1>1, <1>9, <1>10, <1>11 DEF Roomy

\* Then a slot is free, if nobody was granted one.
LEMMA SlotFree ==
    ASSUME Roomy, IInv, ShareInv, granted = {}, NEW q \in Producers,
           left[q] > 0 \/ updated = q
    PROVE  free > 0
  <1>1. Len(buf) < Capacity
    BY RoomForOne
  <1>2. free + Len(buf) + 0 = Capacity
    BY FS_EmptySet DEF IInv, SlotsConserved
  <1> QED BY <1>1, <1>2, EventLoopAssumption DEF IInv, LoopTypes

LEMMA ProducerPace ==
    ASSUME Roomy, IInv, PaceInv, NEW p \in Producers, ProducerStep(p)
    PROVE  PaceInv'
  <1> SUFFICES ASSUME ~hasty'
               PROVE  waiting' = <<>> /\ granted' = {} /\ ui' # "send" /\ ShareInv'
    BY DEF PaceInv
  <1>1. ~hasty
    BY Zenon DEF ProducerStep, Begin, Send, Resume
  <1>2. waiting = <<>> /\ granted = {} /\ ui # "send" /\ ShareInv
    BY <1>1 DEF PaceInv
  <1>3. buf \in Seq(Events) /\ left \in [Producers -> Nat]
    BY DEF IInv, LoopTypes
  <1>4. \A o \in Producers : Cardinality(Of(buf, o)) \in Nat /\ Announcing(updated, o) \in {0, 1}
    BY <1>3, OfFinite DEF Announcing
  <1>5. CASE Begin(p)
    <2>1. ~InFlight(p)
      BY <1>5, Zenon DEF Begin
    <2>2. /\ UNCHANGED <<buf, waiting, granted, ui, updated>>
          /\ left' = [left EXCEPT ![p] = Burst[p]]
      BY <1>5 DEF Begin, chanVars, uiVars
    <2>3. Of(buf, p) = {} /\ Announcing(updated, p) = 0
      BY <2>1 DEF InFlight, Of, Announcing
    <2>4. Cardinality(Of(buf, p)) = 0
      BY <2>3, FS_EmptySet
    <2>5. left'[p] = Burst[p] /\ Burst[p] \in Nat /\ \A o \in Producers \ {p} : left'[o] = left[o]
      BY <1>3, <2>2, EventLoopAssumption
    <2>6. ASSUME NEW o \in Producers
          PROVE  Cardinality(Of(buf', o)) + left'[o] + Announcing(updated', o) <= Burst[o]
      <3>1. CASE o = p
        BY <2>2, <2>3, <2>4, <2>5, <3>1
      <3>2. CASE o # p
        BY <1>2, <2>2, <2>5, <3>2 DEF ShareInv
      <3> QED BY <3>1, <3>2
    <2> QED BY <1>2, <2>2, <2>6 DEF ShareInv
  <1>6. CASE Send(p)
    <2>1. left[p] > 0 /\ free > 0
      BY <1>2, <1>6, SlotFree DEF Send
    <2>2. SendNow(p) /\ left' = [left EXCEPT ![p] = @ - 1] /\ UNCHANGED <<ui, updated>>
      BY <1>6, <2>1 DEF Send, SendQueue, uiVars
    <2>3. Message(p) \in Events /\ Message(p).from = p
      <3>1. p # Ui /\ p \in Senders
        BY EventLoopAssumption DEF Senders
      <3> QED BY <3>1, MessageType DEF Message
    <2>4. buf' = Append(buf, Message(p)) /\ UNCHANGED <<waiting, granted>>
      BY <2>2 DEF SendNow
    <2>5. \A o \in Producers : Cardinality(Of(buf', o)) =
             Cardinality(Of(buf, o)) + (IF p = o THEN 1 ELSE 0)
      BY <1>3, <2>3, <2>4, OfAppend
    <2>6. left'[p] = left[p] - 1 /\ \A o \in Producers \ {p} : left'[o] = left[o]
      BY <1>3, <2>2
    <2>7. ASSUME NEW o \in Producers
          PROVE  Cardinality(Of(buf', o)) + left'[o] + Announcing(updated', o) <= Burst[o]
      <3>1. /\ Cardinality(Of(buf, o)) + left[o] + Announcing(updated, o) <= Burst[o]
            /\ Cardinality(Of(buf, o)) \in Nat /\ Announcing(updated, o) \in {0, 1}
            /\ left[o] \in Nat /\ Burst[o] \in Nat /\ Announcing(updated', o) = Announcing(updated, o)
        BY <1>2, <1>3, <1>4, <2>2, EventLoopAssumption DEF ShareInv
      <3>2. CASE o = p
        BY <2>5, <2>6, <3>1, <3>2
      <3>3. CASE o # p
        BY <2>5, <2>6, <3>1, <3>3
      <3> QED BY <3>2, <3>3
    <2> QED BY <1>2, <2>2, <2>4, <2>7 DEF ShareInv
  <1>7. CASE Resume(p)
    BY <1>2, <1>7 DEF Resume, SendGranted
  <1> QED BY <1>5, <1>6, <1>7 DEF ProducerStep

\* A receive takes a message of its sender's share off the channel.
LEMMA ReceiveShare ==
    ASSUME IInv, Take, waiting = <<>>
    PROVE  /\ UNCHANGED <<waiting, granted>>
           /\ \A p \in Producers :
                 /\ Cardinality(Of(buf', p)) \in Nat
                 /\ Cardinality(Of(buf', p)) + (IF Head(buf).from = p THEN 1 ELSE 0) =
                       Cardinality(Of(buf, p))
  <1>1. buf \in Seq(Events) /\ buf # <<>> /\ buf' = Tail(buf) /\ UNCHANGED <<waiting, granted>>
    BY DEF IInv, LoopTypes, Take
  <1>2. buf' \in Seq(Events)
    BY <1>1
  <1> QED BY <1>1, <1>2, OfTail, OfFinite

LEMMA UiPace ==
    ASSUME Roomy, IInv, PaceInv, UiStep
    PROVE  PaceInv'
  <1> SUFFICES ASSUME ~hasty'
               PROVE  waiting' = <<>> /\ granted' = {} /\ ui' # "send" /\ ShareInv'
    BY DEF PaceInv
  <1>1. ~hasty /\ left' = left
    BY DEF UiStep, RecvUpdate, FanOut, RecvChanged, RecvOther, taskVars
  <1>2. waiting = <<>> /\ granted = {} /\ ui # "send" /\ ShareInv
    BY <1>1 DEF PaceInv
  <1>3. buf \in Seq(Events) /\ left \in [Producers -> Nat]
    BY DEF IInv, LoopTypes
  <1>4. ASSUME NEW p \in Producers
        PROVE  /\ Cardinality(Of(buf, p)) + left[p] + Announcing(updated, p) <= Burst[p]
               /\ Cardinality(Of(buf, p)) \in Nat /\ left[p] \in Nat /\ Burst[p] \in Nat
    BY <1>2, <1>3, OfFinite, EventLoopAssumption DEF ShareInv
  <1>5. CASE RecvUpdate \/ RecvChanged \/ RecvOther
    <2>1. /\ Take /\ ui' # "send" /\ updated = NoOne
          /\ updated' = updated \/ updated' = Head(buf).from
      BY <1>5 DEF RecvUpdate, RecvChanged, RecvOther, IInv, FanOutInv
    <2>2. \A p \in Producers : Announcing(updated, p) = 0
      BY <2>1, EventLoopAssumption DEF Announcing
    <2>3. \A p \in Producers : /\ Announcing(updated', p) \in Nat
                               /\ Announcing(updated', p) <= IF Head(buf).from = p THEN 1 ELSE 0
      BY <2>1, EventLoopAssumption DEF Announcing
    <2>4. ASSUME NEW p \in Producers
          PROVE  Cardinality(Of(buf', p)) + left'[p] + Announcing(updated', p) <= Burst[p]
      BY <1>1, <1>2, <1>4, <2>1, <2>2, <2>3, ReceiveShare
    <2> QED BY <1>2, <2>1, <2>4, ReceiveShare DEF ShareInv
  <1>6. CASE FanOut
    <2>1. ui = "fanout" /\ updated \in Fetchers /\ updated \in Producers
      BY <1>6 DEF FanOut, IInv, FanOutInv, Producers
    <2>2. free > 0
      BY <1>2, <2>1, SlotFree
    <2>3. SendNow(Ui) /\ ui' = "recv" /\ updated' = NoOne
      BY <1>6, <2>2 DEF FanOut, SendQueue
    <2>4. Message(Ui) \in Events /\ Message(Ui).from = updated
      BY <2>1, MessageType DEF Message, Senders
    <2>5. buf' = Append(buf, Message(Ui)) /\ UNCHANGED <<waiting, granted>>
      BY <2>3 DEF SendNow
    <2>6. \A p \in Producers : Cardinality(Of(buf', p)) =
             Cardinality(Of(buf, p)) + Announcing(updated, p)
      BY <1>3, <2>4, <2>5, OfAppend DEF Announcing
    <2>7. \A p \in Producers : Announcing(updated', p) = 0 /\ Announcing(updated, p) \in {0, 1}
      BY <2>3, EventLoopAssumption DEF Announcing
    <2>8. ASSUME NEW p \in Producers
          PROVE  Cardinality(Of(buf', p)) + left'[p] + Announcing(updated', p) <= Burst[p]
      BY <1>1, <1>4, <2>6, <2>7
    <2> QED BY <1>2, <2>3, <2>5, <2>8 DEF ShareInv
  <1> QED BY <1>5, <1>6 DEF UiStep

\* APP_EVENT_CHANNEL_CAPACITY is "sized for bursty cluster fanouts without
\* backpressuring producers under healthy render cadence": with room for one
\* cycle of every task no sender waits, the loop in its own send least of all,
\* until a task begins a cycle with events of its last one unhandled.
THEOREM HealthyCadenceSuffices ==
    ASSUME Roomy
    PROVE  Spec => []NoBackpressure
  <1>1. Init => PaceInv
    <2> SUFFICES ASSUME Init PROVE PaceInv
      OBVIOUS
    <2>1. \A p \in Producers : Of(buf, p) = {} /\ left[p] = 0 /\ Announcing(updated, p) = 0
      BY EventLoopAssumption DEF Init, Of, Announcing
    <2>2. Cardinality({}) = 0
      BY FS_EmptySet
    <2>3. \A p \in Producers : Burst[p] \in Nat
      BY EventLoopAssumption
    <2>4. ShareInv
      BY <2>1, <2>2, <2>3 DEF ShareInv
    <2> QED BY <2>4 DEF Init, PaceInv
  <1>2. IInv /\ PaceInv /\ [Next]_vars => PaceInv'
    <2> SUFFICES ASSUME IInv, PaceInv, [Next]_vars PROVE PaceInv'
      OBVIOUS
    <2>1. CASE UNCHANGED vars
      <3>1. UNCHANGED <<buf, waiting, granted, left, ui, updated, hasty>>
        BY <2>1 DEF vars, chanVars, taskVars, uiVars
      <3> QED BY <3>1 DEF PaceInv, ShareInv
    <2> QED BY <2>1, UiPace, ProducerPace DEF Next
  <1>3. PaceInv => NoBackpressure
    BY DEF PaceInv, NoBackpressure
  <1> QED BY <1>1, <1>2, <1>3, Invariance, PTL DEF Spec
=============================================================================
