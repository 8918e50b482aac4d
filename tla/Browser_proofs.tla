--------------------------- MODULE Browser_proofs ---------------------------
(***************************************************************************)
(* Proofs about the two modules of the Browser tab, QueueListing and       *)
(* BrowserTree, for any connections, flows and services, any number of     *)
(* listings and any channel.                                               *)
(*                                                                         *)
(* QueueListing: a request the UI was told of is DELETEd because its id    *)
(* was in the slot before it was announced (WrittenBeforeTold): Drop finds *)
(* it there.                                                               *)
(*                                                                         *)
(* BrowserTree: no pane shows another node's detail, the rows are the open *)
(* tree, and a poll keeps the user's place.  The arena is a forest because *)
(* parents rank below their children (Ranked): twice the index in the flat *)
(* list, and one more than its group for a folder.  By induction on the    *)
(* rank the walks over it unfold (AncestorsAre, VisibleIs), and the rows are *)
(* what the walk down pushes (VisibleFacts).  TreeInv says that the rows are *)
(* those of the arena and the open nodes at every step.                    *)
(***************************************************************************)
EXTENDS QueueListing, BrowserTree, WellFoundedInduction, FiniteSetTheorems, TLAPS

\* An id reaches the slot before anybody hears of it.
WrittenBeforeTold ==
    /\ \A w \in Workers : phase[w] = "announce" => w \in slot
    /\ \A i \in 1..Len(chan) : chan[i].kind = "Id" => chan[i].from \in slot
    /\ told \subseteq slot

IInv == TypeOK /\ OnePoller /\ RowsOfQueue /\ WrittenBeforeTold /\ KnownRequestDeleted

USE QueueListingAssumption

-----------------------------------------------------------------------------
(* Types *)

TaskType == /\ started \in 0..MaxWorkers
            /\ queue \in [Workers -> Queues \cup {NoQueue}]
            /\ phase \in [Workers -> Phases]
            /\ next \in [Workers -> {"sleep", "complete", "error"}]
            /\ slot \subseteq Workers
UiType   == /\ aborted \subseteq Workers /\ cleanup \subseteq Workers
            /\ deleted \subseteq Workers /\ told \subseteq Workers
            /\ listing \in Listings
ChanType == chan \in Seq(Payloads)

LEMMA TypeParts == TypeOK <=> TaskType /\ UiType /\ ChanType
BY DEF TypeOK, TaskType, UiType, ChanType

LEMMA TypePartsNext == TaskType' /\ UiType' /\ ChanType' => TypeOK'
BY DEF TypeOK, TaskType, UiType, ChanType

LEMMA InitInv == Init => IInv
<1> SUFFICES ASSUME Init PROVE IInv
    OBVIOUS
<1>1. TaskType
    BY DEF Init, TaskType, Phases
<1>2. UiType /\ ChanType
    <2>1. Nothing \in Listings
        BY DEF Nothing, Listings
    <2> QED
        BY <2>1 DEF Init, UiType, ChanType
<1>3. OnePoller /\ RowsOfQueue /\ WrittenBeforeTold /\ KnownRequestDeleted
    BY DEF Init, OnePoller, RowsOfQueue, WrittenBeforeTold, KnownRequestDeleted, Nothing
<1> QED
    BY <1>1, <1>2, <1>3, TypeParts DEF IInv

LEMMA SendType ==
    ASSUME ChanType, NEW w \in Workers, NEW kind \in Kinds, Send(w, kind)
    PROVE  ChanType'
<1>1. [kind |-> kind, from |-> w] \in Payloads
    BY DEF Payloads
<1> QED
    BY <1>1 DEF ChanType, Send

LEMMA WorkerType ==
    ASSUME TypeOK, NEW w \in Workers, WorkerStep(w) \/ Cleanup(w)
    PROVE  TypeOK'
<1> USE DEF WorkerStep, Post, WriteId, Announce, Wake, WakeLate, Poll, Progress, Finish,
            Cancel, Cleanup
<1>1. TaskType'
    BY TypeParts DEF TaskType, Goto, Phases, taskVars
<1>2. UiType'
    BY TypeParts DEF UiType, taskVars, deleteVars
<1>3. ChanType'
    <2>1. UNCHANGED chan \/ \E kind \in Kinds : Send(w, kind)
        BY DEF Kinds
    <2> QED
        BY <2>1, SendType, TypeParts DEF ChanType
<1> QED
    BY <1>1, <1>2, <1>3, TypePartsNext

\* A worker is spawned for a connection, or none is.
LEMMA SpawnType ==
    ASSUME TypeOK, UNCHANGED <<next, slot>>,
           SpawnNothing \/ \E q \in Queues : Spawn(q)
    PROVE  TaskType'
<1>1. CASE SpawnNothing
    BY <1>1, TypeParts DEF SpawnNothing, TaskType
<1>2. CASE \E q \in Queues : Spawn(q)
    <2>1. started' \in Workers
        BY <1>2, TypeParts DEF Spawn, TaskType, Workers
    <2> QED
        BY <1>2, <2>1, TypeParts DEF Spawn, TaskType, Goto, Phases, Workers
<1> QED
    BY <1>1, <1>2

LEMMA DropType ==
    ASSUME TypeOK, Drop(listing.handle)
    PROVE  aborted' \subseteq Workers /\ cleanup' \subseteq Workers
BY TypeParts DEF UiType, TaskType, Drop, Listings

\* What a replaced listing is.
Replaced(q) ==
    \/ SpawnNothing /\ listing' = [Nothing EXCEPT !.queue = q]
    \/ q \in Queues /\ Spawn(q)
       /\ listing' = [Nothing EXCEPT !.queue = q, !.handle = started']

\* Every way the user replaces the listing.
LEMMA UserReplaces ==
    ASSUME TypeOK, User
    PROVE  /\ Drop(listing.handle)
           /\ \E q \in Queues \cup {NoQueue} : Replaced(q)
           /\ UNCHANGED <<next, slot, deleted, chan, told>>
<1>1. CASE Refresh
    <2>1. listing.queue \in Queues
        BY <1>1, TypeParts DEF Refresh, UiType, Listings
    <2> QED
        BY <1>1, <2>1 DEF Refresh, Replaced
<1>2. CASE HandleSwitched
    <2>1. Nothing = [Nothing EXCEPT !.queue = NoQueue]
        <3>1. Nothing \in Listings /\ Nothing.queue = NoQueue
            BY DEF Nothing, Listings
        <3> HIDE DEF Nothing
        <3> QED
            BY <3>1 DEF Listings
    <2> QED
        BY <1>2, <2>1 DEF HandleSwitched, Replaced
<1>3. CASE \E q \in Queues \cup {NoQueue} : Select(q)
    BY <1>3 DEF Select, Replaced
<1> QED
    BY <1>1, <1>2, <1>3 DEF User

LEMMA UserType ==
    ASSUME TypeOK, User
    PROVE  TypeOK'
<1>1. PICK q \in Queues \cup {NoQueue} : Replaced(q)
    BY UserReplaces
<1>2. TaskType'
    BY <1>1, UserReplaces, SpawnType DEF Replaced
<1>3. listing' \in Listings
    <2>1. CASE SpawnNothing /\ listing' = [Nothing EXCEPT !.queue = q]
        BY <2>1 DEF Nothing, Listings
    <2>2. CASE Spawn(q) /\ listing' = [Nothing EXCEPT !.queue = q, !.handle = started']
        <3>1. started' \in Workers
            BY <2>2, TypeParts DEF Spawn, TaskType, Workers
        <3> QED
            BY <2>2, <3>1 DEF Nothing, Listings
    <2> QED
        BY <1>1, <2>1, <2>2 DEF Replaced
<1>4. UiType' /\ ChanType'
    BY <1>3, UserReplaces, DropType, TypeParts DEF UiType, ChanType
<1> QED
    BY <1>2, <1>4, TypePartsNext

\* A payload changes the rows or the error, of the queue it is tagged with.
LEMMA ApplyShows ==
    ASSUME NEW l \in Listings, NEW m \in Payloads
    PROVE  /\ Apply(l, m) \in Listings
           /\ Apply(l, m).queue = l.queue
           /\ Apply(l, m).handle = l.handle
           /\ \/ Apply(l, m).rows = l.rows
              \/ Apply(l, m).rows = m.from /\ l.queue = queue[m.from]
<1>1. CASE l.queue # queue[m.from]
    BY <1>1 DEF Apply
<1>2. CASE l.queue = queue[m.from]
    <2>1. \/ Apply(l, m) = l
          \/ Apply(l, m) = [l EXCEPT !.error = FALSE]
          \/ Apply(l, m) = [l EXCEPT !.rows = m.from, !.error = FALSE]
          \/ Apply(l, m) = [l EXCEPT !.error = TRUE]
        BY <1>2 DEF Apply, Payloads, Kinds
    <2> QED
        BY <1>2, <2>1 DEF Listings, Payloads
<1> QED
    BY <1>1, <1>2

LEMMA HandleFacts ==
    ASSUME TypeOK, Handle
    PROVE  /\ Head(chan) \in Payloads /\ chan' \in Seq(Payloads)
           /\ listing' = Apply(listing, Head(chan))
           /\ UNCHANGED <<taskVars, deleteVars>>
BY TypeParts DEF ChanType, Handle

LEMMA HandleType ==
    ASSUME TypeOK, Handle
    PROVE  TypeOK'
<1>1. TaskType' /\ ChanType'
    BY HandleFacts, TypeParts DEF TaskType, ChanType, taskVars
<1>2. listing' \in Listings
    BY HandleFacts, ApplyShows, TypeParts DEF UiType
<1>3. told' \subseteq Workers
    BY HandleFacts, TypeParts DEF Handle, UiType, Payloads
<1>4. UiType'
    BY <1>2, <1>3, HandleFacts, TypeParts DEF UiType, taskVars, deleteVars
<1> QED
    BY <1>1, <1>4, TypePartsNext

LEMMA StepType ==
    ASSUME TypeOK, [Next]_vars
    PROVE  TypeOK'
<1>1. CASE UNCHANGED vars
    BY <1>1 DEF TypeOK, vars, taskVars, deleteVars
<1> QED
    BY <1>1, WorkerType, UserType, HandleType DEF Next

-----------------------------------------------------------------------------
(* One poller, and its rows *)

LEMMA StepOnePoller ==
    ASSUME TypeOK, OnePoller, [Next]_vars
    PROVE  OnePoller'
<1>1. CASE \E v \in Workers : WorkerStep(v) \/ Cleanup(v)
    <2> PICK v \in Workers : WorkerStep(v) \/ Cleanup(v)
        BY <1>1
    <2> USE DEF WorkerStep, Post, WriteId, Announce, Wake, WakeLate, Poll, Progress, Finish,
                Cancel, Cleanup, Goto
    <2>1. UNCHANGED <<queue, aborted, listing>>
        BY DEF taskVars
    <2>2. \A w \in Workers : phase'[w] \notin {"unborn", "done"} => phase[w] \notin {"unborn", "done"}
        <3>1. CASE Cleanup(v)
            BY <3>1 DEF taskVars
        <3>2. CASE WorkerStep(v)
            <4>1. phase[v] \notin {"unborn", "done"} \/ phase'[v] = "done"
                BY <3>2, TypeParts DEF TaskType
            <4>2. \A w \in Workers : w # v => phase'[w] = phase[w]
                BY <3>2, TypeParts DEF TaskType
            <4> QED
                BY <4>1, <4>2
        <3> QED
            BY <3>1, <3>2
    <2> QED
        BY <2>1, <2>2 DEF OnePoller
<1>2. CASE User
    <2> PICK q \in Queues \cup {NoQueue} : Replaced(q)
        BY <1>2, UserReplaces
    <2>1. aborted' = aborted \cup ({listing.handle} \ {NoWorker})
        BY <1>2, UserReplaces DEF Drop
    <2>2. \A w \in Workers : phase[w] \notin {"unborn", "done"} => w \in aborted'
        BY <2>1 DEF OnePoller, Workers, NoWorker
    <2>3. CASE SpawnNothing
        BY <2>2, <2>3 DEF SpawnNothing, OnePoller
    <2>4. CASE Spawn(q) /\ listing' = [Nothing EXCEPT !.queue = q, !.handle = started']
        <3>1. started' \in Workers
            BY <2>4, TypeParts DEF Spawn, TaskType, Workers
        <3>2. \A w \in Workers : w # started' => phase'[w] = phase[w]
            BY <2>4, TypeParts DEF Spawn, Goto, TaskType
        <3>3. queue'[started'] = q /\ listing'.handle = started' /\ listing'.queue = q
            BY <2>4, <3>1, TypeParts DEF Spawn, TaskType, Nothing
        <3> QED
            BY <2>2, <3>2, <3>3 DEF OnePoller
    <2> QED
        BY <2>3, <2>4 DEF Replaced
<1>3. CASE Handle
    BY <1>3, HandleFacts, ApplyShows, TypeParts DEF UiType, taskVars, OnePoller
<1>4. CASE UNCHANGED vars
    BY <1>4 DEF vars, taskVars, OnePoller
<1> QED
    BY <1>1, <1>2, <1>3, <1>4 DEF Next

LEMMA StepRows ==
    ASSUME TypeOK, RowsOfQueue, [Next]_vars
    PROVE  RowsOfQueue'
<1> USE DEF RowsOfQueue
<1>1. CASE (\E v \in Workers : WorkerStep(v) \/ Cleanup(v)) \/ UNCHANGED vars
    <2>1. UNCHANGED <<queue, listing>>
        BY <1>1 DEF WorkerStep, Post, WriteId, Announce, Wake, WakeLate, Poll, Progress, Finish,
                    Cancel, Cleanup, vars, taskVars
    <2> QED
        BY <2>1
<1>2. CASE User
    BY <1>2, UserReplaces DEF Replaced, Nothing
<1>3. CASE Handle
    <2> DEFINE m == Head(chan)
    <2>1. /\ m \in Payloads /\ listing \in Listings
          /\ listing' = Apply(listing, m) /\ queue' = queue
        BY <1>3, HandleFacts, TypeParts DEF UiType, taskVars
    <2> HIDE DEF m
    <2>2. listing'.queue = listing.queue
        BY <2>1, ApplyShows
    <2>3. CASE listing'.rows = listing.rows
        BY <2>1, <2>2, <2>3
    <2>4. CASE listing'.rows = m.from /\ listing.queue = queue[m.from]
        BY <2>1, <2>2, <2>4
    <2> QED
        BY <2>1, <2>3, <2>4, ApplyShows
<1> QED
    BY <1>1, <1>2, <1>3 DEF Next

-----------------------------------------------------------------------------
(* DELETE *)

LEMMA SendWritten ==
    ASSUME TypeOK, WrittenBeforeTold, NEW w \in Workers, NEW kind \in Kinds, Send(w, kind),
           kind = "Id" => w \in slot, slot' = slot
    PROVE  \A i \in 1..Len(chan') : chan'[i].kind = "Id" => chan'[i].from \in slot'
<1> DEFINE m == [kind |-> kind, from |-> w]
<1>1. chan \in Seq(Payloads) /\ chan' = Append(chan, m)
    BY TypeParts DEF ChanType, Send
<1>2. m.kind = "Id" => m.from \in slot
    OBVIOUS
<1> HIDE DEF m
<1>3. m \in Payloads
    BY DEF m, Payloads
<1> QED
    BY <1>1, <1>2, <1>3 DEF WrittenBeforeTold

LEMMA StepWritten ==
    ASSUME TypeOK, WrittenBeforeTold, [Next]_vars
    PROVE  WrittenBeforeTold'
<1>1. CASE \E v \in Workers : WorkerStep(v) \/ Cleanup(v)
    <2> PICK v \in Workers : WorkerStep(v) \/ Cleanup(v)
        BY <1>1
    <2> USE DEF WorkerStep, Post, WriteId, Announce, Wake, WakeLate, Poll, Progress, Finish,
                Cancel, Cleanup, Goto
    <2>1. slot \subseteq slot' /\ told' = told
        BY DEF taskVars
    <2>2. \A w \in Workers : phase'[w] = "announce" => w \in slot'
        BY <2>1, TypeParts DEF TaskType, WrittenBeforeTold, taskVars
    <2>3. \A i \in 1..Len(chan') : chan'[i].kind = "Id" => chan'[i].from \in slot'
        <3>1. CASE UNCHANGED chan
            BY <2>1, <3>1 DEF WrittenBeforeTold
        <3>2. CASE Announce(v) \/ Progress(v) \/ Finish(v)
            <4>1. slot' = slot
                BY <3>2
            <4>2. \E kind \in Kinds : Send(v, kind) /\ (kind = "Id" => v \in slot)
                BY <3>2 DEF Kinds, WrittenBeforeTold
            <4> QED
                BY <4>1, <4>2, SendWritten
        <3> QED
            BY <3>1, <3>2
    <2> QED
        BY <2>1, <2>2, <2>3 DEF WrittenBeforeTold
<1>2. CASE User
    <2>1. UNCHANGED <<slot, chan, told>>
        BY <1>2, UserReplaces
    <2>2. \A w \in Workers : phase'[w] = "announce" => phase[w] = "announce"
        BY <1>2, UserReplaces, TypeParts DEF Replaced, Spawn, SpawnNothing, Goto, TaskType
    <2> QED
        BY <2>1, <2>2 DEF WrittenBeforeTold
<1>3. CASE Handle
    <2>1. UNCHANGED <<phase, slot>>
        BY <1>3, HandleFacts DEF taskVars
    <2>2. told' \subseteq slot
        <3>1. chan \in Seq(Payloads) /\ chan # <<>> /\ Head(chan) = chan[1] /\ 1 \in 1..Len(chan)
            BY <1>3, TypeParts DEF Handle, ChanType
        <3> QED
            BY <1>3, <3>1 DEF Handle, WrittenBeforeTold
    <2>3. \A i \in 1..Len(chan') : i + 1 \in 1..Len(chan) /\ chan'[i] = chan[i + 1]
        BY <1>3, TypeParts DEF Handle, ChanType
    <2> QED
        BY <2>1, <2>2, <2>3 DEF WrittenBeforeTold
<1>4. CASE UNCHANGED vars
    BY <1>4 DEF vars, taskVars, WrittenBeforeTold
<1> QED
    BY <1>1, <1>2, <1>3, <1>4 DEF Next

LEMMA StepDeleted ==
    ASSUME TypeOK, WrittenBeforeTold, KnownRequestDeleted, [Next]_vars
    PROVE  KnownRequestDeleted'
<1> USE DEF KnownRequestDeleted
<1>1. CASE (\E v \in Workers : WorkerStep(v) \/ Cleanup(v)) \/ UNCHANGED vars
    <2>1. /\ UNCHANGED <<listing, told>>
          /\ cleanup \cup deleted \subseteq cleanup' \cup deleted'
        BY <1>1 DEF WorkerStep, Post, WriteId, Announce, Wake, WakeLate, Poll, Progress, Finish,
                    Cancel, Cleanup, vars, taskVars, deleteVars
    <2> QED
        BY <2>1
<1>2. CASE User
    <2>1. told' = told /\ told \subseteq slot /\ deleted' = deleted
        BY <1>2, UserReplaces DEF WrittenBeforeTold
    <2>2. cleanup \subseteq cleanup' /\ (listing.handle \in slot => listing.handle \in cleanup')
        BY <1>2, UserReplaces DEF Drop
    <2> QED
        BY <2>1, <2>2
<1>3. CASE Handle
    <2>1. listing'.handle = listing.handle /\ cleanup' = cleanup /\ deleted' = deleted
        BY <1>3, HandleFacts, ApplyShows, TypeParts DEF UiType, deleteVars
    <2> QED
        BY <1>3, <2>1 DEF Handle
<1> QED
    BY <1>1, <1>2, <1>3 DEF Next

LEMMA Invariance == Spec => []IInv
<1>1. IInv /\ [Next]_vars => IInv'
    BY StepType, StepOnePoller, StepRows, StepWritten, StepDeleted DEF IInv
<1> QED
    BY <1>1, InitInv, PTL DEF Spec

-----------------------------------------------------------------------------
\* Type correctness.
THEOREM TypeCorrect == Spec => []TypeOK
BY Invariance, PTL DEF IInv

\* impl Drop for QueueListingHandle: whatever replaces a listing, and at
\* whatever await its worker is, no second worker polls NiFi.
THEOREM PollersAreOne == Spec => []OnePoller
BY Invariance, PTL DEF IInv

\* QueueListingState::apply_*: no rows of another connection, however late.
THEOREM RowsBelong == Spec => []RowsOfQueue
BY Invariance, PTL DEF IInv

\* impl Drop for QueueListingHandle: a request the UI learned of is DELETEd
\* with its listing.
THEOREM KnownAreDeleted == Spec => []KnownRequestDeleted
BY Invariance, PTL DEF IInv

-----------------------------------------------------------------------------
(* The flow tree.                                                          *)

HIDE QueueListingAssumption

(***************************************************************************)
(* An answer is stored only where its index still names its node.          *)
(***************************************************************************)
LEMMA AnswerKeepsDetails ==
    ASSUME DetailOfNode, TakeAnswer
    PROVE  DetailOfNode'
<1> DEFINE a == Head(answers)
<1>1. nodes' = nodes
  BY DEF TakeAnswer, tree
<1>2. CASE a.ok /\ StillNames(a.req, nodes)
  <2>1. details' = [i \in DOMAIN details \union {a.req.at} |->
                       IF i = a.req.at
                       THEN [key |-> a.req.key, invalid |-> a.invalid]
                       ELSE details[i]]
    BY <1>2 DEF TakeAnswer
  <2>2. a.req.at \in DOMAIN nodes /\ Key(nodes[a.req.at]) = a.req.key
    BY <1>2 DEF StillNames
  <2> HIDE DEF a
  <2>3. ASSUME NEW i \in DOMAIN details'
        PROVE  i \in DOMAIN nodes /\ details'[i].key = Key(nodes[i])
    <3>1. CASE i = a.req.at
      BY <3>1, <2>1, <2>2
    <3>2. CASE i # a.req.at
      BY <3>2, <2>1 DEF DetailOfNode
    <3> QED BY <3>1, <3>2
  <2> QED BY <2>3, <1>1 DEF DetailOfNode, Key
<1>3. CASE ~(a.ok /\ StillNames(a.req, nodes))
  <2>1. details' = details
    BY <1>3 DEF TakeAnswer
  <2> QED BY <2>1, <1>1 DEF DetailOfNode, Key
<1> QED BY <1>2, <1>3

(***************************************************************************)
(* A rebuild carries a detail from the index a key had to one it has.      *)
(***************************************************************************)
LEMMA RebuildKeepsDetails ==
    ASSUME DetailOfNode, TakeChanged
    PROVE  DetailOfNode'
<1> DEFINE ns == Arena(status, services)
           held(j) == \E i \in DOMAIN nodes : Key(nodes[i]) = Key(ns[j])
           was(j) == CHOOSE i \in DOMAIN nodes : Key(nodes[i]) = Key(ns[j])
<1>1. ApplySnapshot(ns)
  BY DEF TakeChanged
<1>2. nodes' = ns
  BY <1>1 DEF ApplySnapshot
<1>3. details' = [j \in {j \in DOMAIN ns : held(j) /\ was(j) \in DOMAIN details}
                    |-> details[was(j)]]
  BY <1>1 DEF ApplySnapshot
<1>4. ASSUME NEW j \in DOMAIN details'
      PROVE  j \in DOMAIN nodes' /\ details'[j].key = Key(nodes'[j])
  <2>1. j \in DOMAIN ns /\ held(j) /\ was(j) \in DOMAIN details
    BY <1>3
  <2>2. details'[j] = details[was(j)]
    BY <1>3
  <2>3. Key(nodes[was(j)]) = Key(ns[j])
    BY <2>1
  <2>4. details[was(j)].key = Key(nodes[was(j)])
    BY <2>1 DEF DetailOfNode
  <2> QED BY <2>1, <2>2, <2>3, <2>4, <1>2
<1> QED BY <1>4 DEF DetailOfNode, Key

(***************************************************************************)
(* Whatever order polls, answers, keys, jumps, tab changes and context     *)
(* switches come in, the detail stored at an index is that of its node     *)
(* (apply_tree_snapshot and apply_node_detail).                            *)
(***************************************************************************)
THEOREM DetailsAreTheirs == TreeSpec => []DetailOfNode
<1>1. TreeInit => DetailOfNode
  BY DEF TreeInit, DetailOfNode
<1>2. DetailOfNode /\ [TreeNext]_treeVars => DetailOfNode'
  <2> SUFFICES ASSUME DetailOfNode, [TreeNext]_treeVars
               PROVE  DetailOfNode'
    OBVIOUS
  <2>1. CASE TakeChanged
    BY <2>1, RebuildKeepsDetails
  <2>2. CASE TakeAnswer
    BY <2>2, AnswerKeepsDetails
  <2>3. CASE ContextSwitched
    BY <2>3 DEF ContextSwitched, DetailOfNode
  <2>4. CASE UNCHANGED <<nodes, details>>
    BY <2>4 DEF DetailOfNode, Key
  <2>5. PollFlow \/ Worker => UNCHANGED <<nodes, details>>
    BY DEF PollFlow, Worker, AnswerOk, AnswerErr, Answer, tree
  <2>6. Tree \/ AmongSections \/ Drill => UNCHANGED <<nodes, details>>
    BY DEF Tree, Move, Right, Left, Ascend, Descend, IntoSections,
           AmongSections, Drill, KeyDone
  <2>7. Jump \/ ShowTab \/ LeaveTab => UNCHANGED <<nodes, details>>
    BY DEF Jump, ShowTab, LeaveTab, tree
  <2>8. CASE UNCHANGED treeVars
    BY <2>8, <2>4 DEF treeVars, tree
  <2> QED BY <2>1, <2>2, <2>3, <2>4, <2>5, <2>6, <2>7, <2>8 DEF TreeNext
<1> QED BY <1>1, <1>2, PTL DEF TreeSpec

-----------------------------------------------------------------------------
(* Induction over Nat, and sequences pushed in rounds.                     *)

\* A set of numbers that is not empty has a least one.
LEMMA LeastOf ==
    ASSUME NEW S \in SUBSET Nat, S # {}
    PROVE  \E n \in S : \A k \in S : n <= k
<1> DEFINE R == OpToRel(<, Nat)
<1>1. IsWellFoundedOn(R, Nat)
  BY NatLessThanWellFounded
<1>2. R = {p \in Nat \X Nat : p[1] < p[2]}
  BY DEF OpToRel
<1> HIDE DEF R
<1>3. PICK n \in S : \A k \in S : <<k, n>> \notin R
  BY <1>1, WFMin
<1>4. ASSUME NEW k \in S PROVE n <= k
  <2>1. n \in Nat /\ k \in Nat
    OBVIOUS
  <2>2. <<k, n>> \in R <=> k < n
    BY <1>2, <2>1
  <2> QED BY <1>3, <2>1, <2>2
<1> QED BY <1>4

\* Induction, on sets.
LEMMA Induction ==
    ASSUME NEW P \in SUBSET Nat,
           \A n \in Nat : (\A m \in Nat : m < n => m \in P) => n \in P
    PROVE  P = Nat
<1> SUFFICES ASSUME Nat \ P # {} PROVE FALSE
  OBVIOUS
<1>1. PICK n \in Nat \ P : \A k \in Nat \ P : n <= k
  BY LeastOf
<1>2. \A m \in Nat : m < n => m \in P
  BY <1>1
<1> QED BY <1>1, <1>2

\* Induction from n to n + 1.
LEMMA UpTo ==
    ASSUME NEW P \in SUBSET Nat, 0 \in P, \A n \in P : n + 1 \in P
    PROVE  P = Nat
<1>1. ASSUME NEW n \in Nat, \A m \in Nat : m < n => m \in P
      PROVE  n \in P
  <2>1. CASE n = 0
    BY <2>1
  <2>2. CASE n # 0
    BY <1>1, <2>2, n - 1 \in P
  <2> QED BY <2>1, <2>2
<1>2. \A n \in Nat : (\A m \in Nat : m < n => m \in P) => n \in P
  BY <1>1
<1> QED BY <1>2, Induction

\* What FlattenSeq computes, prefix by prefix.
BuiltUp(f, s, T) ==
    /\ f \in [1 .. Len(s) -> Seq(T)]
    /\ f[1] = s[1]
    /\ \A i \in 2 .. Len(s) : f[i] = f[i - 1] \o s[i]

\* FlattenSeq is the last of its prefixes: the recursion of its definition
\* has the solution that CHOOSE picks.
LEMMA FlattenIs ==
    ASSUME NEW T, NEW s \in Seq(Seq(T)), s # <<>>
    PROVE  \E f : BuiltUp(f, s, T) /\ FlattenSeq(s) = f[Len(s)]
<1> DEFINE D == 1 .. Len(s)
           E(f, i) == IF i = 1 THEN s[i] ELSE f[i - 1] \o s[i]
           flatten == CHOOSE f : f = [i \in D |-> E(f, i)]
           part(n) == 1 .. IF n < Len(s) THEN n ELSE Len(s)
           Solves(f, n) == f = [i \in part(n) |-> E(f, i)]
           P == {n \in Nat : \E f : Solves(f, n)}
<1>0. Len(s) \in Nat \ {0} /\ \A i \in D : s[i] \in Seq(T)
  OBVIOUS
<1>1. P = Nat
  <2>1. 0 \in P
    <3>1. part(0) = {}
      BY <1>0
    <3> DEFINE f == [i \in part(0) |-> 0]
    <3>2. Solves(f, 0)
      BY <3>1
    <3> HIDE DEF Solves
    <3> QED BY <3>2
  <2>2. ASSUME NEW n \in P PROVE n + 1 \in P
    <3>1. PICK f : Solves(f, n)
      OBVIOUS
    <3> DEFINE g == [i \in part(n + 1) |-> E(f, i)]
    <3>2. ASSUME NEW i \in part(n + 1) PROVE E(f, i) = E(g, i)
      <4>1. CASE i = 1
        BY <4>1
      <4>2. CASE i # 1
        <5>1. i - 1 \in part(n) /\ i - 1 \in part(n + 1)
          BY <4>2, <1>0
        <5>2. g[i - 1] = f[i - 1]
          BY <3>1, <5>1
        <5> QED BY <4>2, <5>2
      <4> QED BY <4>1, <4>2
    <3>3. Solves(g, n + 1)
      BY <3>2
    <3> HIDE DEF Solves
    <3> QED BY <3>3
  <2> HIDE DEF P
  <2>3. P \in SUBSET Nat
    BY DEF P
  <2> QED BY <2>1, <2>2, <2>3, UpTo
<1>2. \E f : f = [i \in D |-> E(f, i)]
  <2>1. Len(s) \in P
    BY <1>0, <1>1
  <2>2. part(Len(s)) = D
    BY <1>0
  <2> QED BY <2>1, <2>2
<1>3. flatten = [i \in D |-> E(flatten, i)]
  BY <1>2
<1>4. FlattenSeq(s) = flatten[Len(s)]
  BY <1>0 DEF FlattenSeq
<1> HIDE DEF flatten
<1>5. \A i \in D : flatten[i] \in Seq(T)
  <2> DEFINE Q == {n \in Nat : n \in D => flatten[n] \in Seq(T)}
  <2>1. 0 \in Q
    OBVIOUS
  <2>2. ASSUME NEW n \in Q PROVE n + 1 \in Q
    <3> SUFFICES ASSUME n + 1 \in D PROVE flatten[n + 1] \in Seq(T)
      OBVIOUS
    <3>1. flatten[n + 1] = E(flatten, n + 1)
      BY <1>3
    <3>2. CASE n = 0
      BY <3>1, <3>2, <1>0
    <3>3. CASE n # 0
      <4>1. n \in D /\ (n + 1) - 1 = n
        BY <3>3, <1>0
      <4>2. flatten[n] \in Seq(T)
        BY <4>1
      <4>3. flatten[n + 1] = flatten[n] \o s[n + 1]
        <5>1. n + 1 # 1
          BY <3>3
        <5> QED BY <3>1, <4>1, <5>1
      <4> QED BY <4>2, <4>3, <1>0
    <3> QED BY <3>2, <3>3
  <2> HIDE DEF Q
  <2>3. Q = Nat
    <3>1. Q \in SUBSET Nat
      BY DEF Q
    <3> QED BY <2>1, <2>2, <3>1, UpTo
  <2> SUFFICES ASSUME NEW i \in D PROVE flatten[i] \in Seq(T)
    OBVIOUS
  <2>4. i \in Q
    BY <2>3
  <2> QED BY <2>4 DEF Q
<1>6. BuiltUp(flatten, s, T)
  <2>1. flatten \in [D -> Seq(T)]
    BY <1>3, <1>5
  <2>2. flatten[1] = s[1]
    BY <1>0, <1>3
  <2>3. ASSUME NEW i \in 2 .. Len(s) PROVE flatten[i] = flatten[i - 1] \o s[i]
    <3>1. i \in D /\ i # 1
      BY <1>0
    <3>2. flatten[i] = E(flatten, i)
      BY <1>3, <3>1
    <3> QED BY <3>1, <3>2
  <2> QED BY <2>1, <2>2, <2>3 DEF BuiltUp
<1> QED BY <1>4, <1>6

\* What two pushes leave.
LEMMA ConcatIs ==
    ASSUME NEW T, NEW a \in Seq(T), NEW b \in Seq(T)
    PROVE  /\ a \o b \in Seq(T)
           /\ ToSet(a \o b) = ToSet(a) \union ToSet(b)
           /\ IsInjective(a) /\ IsInjective(b) /\ ToSet(a) \cap ToSet(b) = {}
                  => IsInjective(a \o b)
<1> DEFINE c == a \o b
<1>1. /\ c \in Seq(T) /\ Len(c) = Len(a) + Len(b) /\ Len(a) \in Nat /\ Len(b) \in Nat
      /\ DOMAIN a = 1 .. Len(a) /\ DOMAIN b = 1 .. Len(b) /\ DOMAIN c = 1 .. Len(c)
  OBVIOUS
<1>2. /\ \A i \in DOMAIN a : i \in DOMAIN c /\ c[i] = a[i]
      /\ \A i \in DOMAIN b : Len(a) + i \in DOMAIN c /\ c[Len(a) + i] = b[i]
  OBVIOUS
<1>3. \A i \in DOMAIN c : \/ i \in DOMAIN a /\ c[i] = a[i]
                          \/ i - Len(a) \in DOMAIN b /\ c[i] = b[i - Len(a)]
  OBVIOUS
<1> HIDE DEF c
<1>4. ToSet(c) = ToSet(a) \union ToSet(b)
  <2>1. ToSet(c) \subseteq ToSet(a) \union ToSet(b)
    BY <1>3 DEF ToSet
  <2>2. ToSet(a) \union ToSet(b) \subseteq ToSet(c)
    BY <1>2 DEF ToSet
  <2> QED BY <2>1, <2>2
<1>5. ASSUME IsInjective(a), IsInjective(b), ToSet(a) \cap ToSet(b) = {},
             NEW i \in DOMAIN c, NEW j \in DOMAIN c, c[i] = c[j]
      PROVE  i = j
  <2>1. \A k \in DOMAIN a, l \in DOMAIN b : a[k] # b[l]
    BY <1>5 DEF ToSet
  <2>2. CASE i \in DOMAIN a /\ c[i] = a[i]
    <3>1. j \in DOMAIN a /\ c[j] = a[j]
      BY <1>3, <1>5, <2>1, <2>2
    <3> QED BY <1>5, <2>2, <3>1 DEF IsInjective
  <2>3. CASE i - Len(a) \in DOMAIN b /\ c[i] = b[i - Len(a)]
    <3>1. j - Len(a) \in DOMAIN b /\ c[j] = b[j - Len(a)]
      BY <1>3, <1>5, <2>1, <2>3
    <3>2. i - Len(a) = j - Len(a)
      BY <1>5, <2>3, <3>1 DEF IsInjective
    <3> QED BY <1>1, <3>2
  <2> QED BY <1>3, <2>2, <2>3
<1>6. IsInjective(a) /\ IsInjective(b) /\ ToSet(a) \cap ToSet(b) = {} => IsInjective(c)
  BY <1>5 DEF IsInjective
<1> QED BY <1>1, <1>4, <1>6 DEF c

\* What flattening s yields, n of its sequences in.
FlatSoFar(q, s, n, T) ==
    /\ q \in Seq(T)
    /\ \A x : x \in ToSet(q) <=> \E k \in 1 .. n : x \in ToSet(s[k])
    /\ (\A k \in DOMAIN s : IsInjective(s[k]))
       /\ (\A k, l \in DOMAIN s : k # l => ToSet(s[k]) \cap ToSet(s[l]) = {})
          => IsInjective(q)

\* One more round of pushes.
LEMMA FlattenStep ==
    ASSUME NEW T, NEW s \in Seq(Seq(T)), NEW f, BuiltUp(f, s, T),
           NEW n \in DOMAIN s, n + 1 \in DOMAIN s, FlatSoFar(f[n], s, n, T)
    PROVE  FlatSoFar(f[n + 1], s, n + 1, T)
<1>1. n \in Nat /\ n + 1 \in 2 .. Len(s) /\ (n + 1) - 1 = n /\ DOMAIN s = 1 .. Len(s)
  OBVIOUS
<1>2. f[n + 1] = f[n] \o s[n + 1]
  BY <1>1 DEF BuiltUp
<1>3. f[n] \in Seq(T) /\ s[n + 1] \in Seq(T)
  BY DEF FlatSoFar
<1>4. /\ f[n + 1] \in Seq(T) /\ ToSet(f[n + 1]) = ToSet(f[n]) \union ToSet(s[n + 1])
      /\ IsInjective(f[n]) /\ IsInjective(s[n + 1]) /\ ToSet(f[n]) \cap ToSet(s[n + 1]) = {}
             => IsInjective(f[n + 1])
  BY <1>2, <1>3, ConcatIs
<1>5. \A x : x \in ToSet(f[n + 1]) <=> \E k \in 1 .. n + 1 : x \in ToSet(s[k])
  <2>1. /\ \A k \in 1 .. n + 1 : k \in 1 .. n \/ k = n + 1
        /\ \A k \in 1 .. n : k \in 1 .. n + 1
        /\ n + 1 \in 1 .. n + 1
    BY <1>1
  <2>2. \A x : x \in ToSet(f[n]) <=> \E k \in 1 .. n : x \in ToSet(s[k])
    BY DEF FlatSoFar
  <2> QED BY <1>4, <2>1, <2>2
<1>6. ASSUME \A k \in DOMAIN s : IsInjective(s[k]),
             \A k, l \in DOMAIN s : k # l => ToSet(s[k]) \cap ToSet(s[l]) = {}
      PROVE  IsInjective(f[n + 1])
  <2>1. IsInjective(f[n]) /\ IsInjective(s[n + 1])
    BY <1>6 DEF FlatSoFar
  <2>2. \A k \in 1 .. n : k \in DOMAIN s /\ k # n + 1
    BY <1>1
  <2>3. ToSet(f[n]) \cap ToSet(s[n + 1]) = {}
    <3> SUFFICES ASSUME NEW x \in ToSet(f[n]), x \in ToSet(s[n + 1]) PROVE FALSE
      OBVIOUS
    <3>1. PICK k \in 1 .. n : x \in ToSet(s[k])
      BY DEF FlatSoFar
    <3> QED BY <1>6, <2>2, <3>1
  <2> QED BY <1>4, <2>1, <2>3
<1> QED BY <1>4, <1>5, <1>6 DEF FlatSoFar

\* All the rounds: what was pushed, and once each if no two rounds push the same.
LEMMA FlattenFacts ==
    ASSUME NEW T, NEW s \in Seq(Seq(T))
    PROVE  FlatSoFar(FlattenSeq(s), s, Len(s), T)
<1>1. CASE s = <<>>
  <2>1. FlattenSeq(s) = <<>> /\ Len(s) = 0
    BY <1>1 DEF FlattenSeq
  <2>2. ToSet(<<>>) = {} /\ IsInjective(<<>>)
    BY DEF ToSet, IsInjective
  <2> QED BY <2>1, <2>2 DEF FlatSoFar
<1>2. CASE s # <<>>
  <2>1. PICK f : BuiltUp(f, s, T) /\ FlattenSeq(s) = f[Len(s)]
    BY <1>2, FlattenIs
  <2> DEFINE P == {n \in Nat : n + 1 \in DOMAIN s => FlatSoFar(f[n + 1], s, n + 1, T)}
  <2>2. 0 \in P
    <3>1. 1 \in DOMAIN s /\ s[1] \in Seq(T) /\ f[1] = s[1]
      BY <1>2, <2>1 DEF BuiltUp
    <3> QED BY <3>1 DEF FlatSoFar
  <2>3. \A n \in P : n + 1 \in P
    <3> SUFFICES ASSUME NEW n \in P, (n + 1) + 1 \in DOMAIN s
                 PROVE  FlatSoFar(f[(n + 1) + 1], s, (n + 1) + 1, T)
      OBVIOUS
    <3>1. n + 1 \in DOMAIN s
      OBVIOUS
    <3> QED BY <2>1, <3>1, FlattenStep
  <2> HIDE DEF P
  <2>4. P = Nat
    <3>1. P \in SUBSET Nat
      BY DEF P
    <3> QED BY <2>2, <2>3, <3>1, UpTo
  <2>5. Len(s) - 1 \in P /\ (Len(s) - 1) + 1 = Len(s) /\ Len(s) \in DOMAIN s
    BY <1>2, <2>4
  <2>6. FlatSoFar(f[Len(s)], s, Len(s), T)
    BY <2>5 DEF P
  <2> QED BY <2>1, <2>6
<1> QED BY <1>1, <1>2

\* Each entry of q comes below p or below an entry before it.
Below(q, ns, p) ==
    \A m \in DOMAIN q : \/ ns[q[m]].parent = p
                        \/ \E h \in 1 .. m - 1 : q[h] = ns[q[m]].parent

LEMMA ConcatBelow ==
    ASSUME NEW T, NEW a \in Seq(T), NEW b \in Seq(T), NEW ns, NEW p,
           Below(a, ns, p), Below(b, ns, p)
    PROVE  Below(a \o b, ns, p)
<1> DEFINE c == a \o b
<1>1. /\ Len(a) \in Nat /\ Len(b) \in Nat /\ DOMAIN c = 1 .. Len(a) + Len(b)
      /\ DOMAIN a = 1 .. Len(a) /\ DOMAIN b = 1 .. Len(b)
      /\ \A i \in DOMAIN a : c[i] = a[i]
      /\ \A i \in DOMAIN b : c[Len(a) + i] = b[i]
  OBVIOUS
<1> HIDE DEF c
<1> SUFFICES ASSUME NEW m \in DOMAIN c, ns[c[m]].parent # p
             PROVE  \E h \in 1 .. m - 1 : c[h] = ns[c[m]].parent
  BY DEF Below, c
<1>2. CASE m \in DOMAIN a
  <2>1. PICK h \in 1 .. m - 1 : a[h] = ns[a[m]].parent
    BY <1>1, <1>2 DEF Below
  <2>2. h \in DOMAIN a
    BY <1>1, <1>2
  <2> QED BY <1>1, <1>2, <2>1, <2>2
<1>3. CASE m \notin DOMAIN a
  <2>1. m - Len(a) \in DOMAIN b /\ Len(a) + (m - Len(a)) = m
    BY <1>1, <1>3
  <2>2. c[m] = b[m - Len(a)]
    BY <1>1, <2>1
  <2>3. PICK h \in 1 .. (m - Len(a)) - 1 : b[h] = ns[c[m]].parent
    BY <2>1, <2>2 DEF Below
  <2>4. h \in DOMAIN b /\ Len(a) + h \in 1 .. m - 1
    BY <1>1, <2>1
  <2> QED BY <1>1, <2>3, <2>4
<1> QED BY <1>2, <1>3

\* If every round pushes parents before children, so do all of them.
LEMMA FlattenBelow ==
    ASSUME NEW T, NEW s \in Seq(Seq(T)), NEW ns, NEW p,
           \A k \in DOMAIN s : Below(s[k], ns, p)
    PROVE  Below(FlattenSeq(s), ns, p)
<1>1. CASE s = <<>>
  <2>1. FlattenSeq(s) = <<>>
    BY <1>1 DEF FlattenSeq
  <2> QED BY <2>1 DEF Below
<1>2. CASE s # <<>>
  <2>1. PICK f : BuiltUp(f, s, T) /\ FlattenSeq(s) = f[Len(s)]
    BY <1>2, FlattenIs
  <2> DEFINE P == {n \in Nat : n + 1 \in DOMAIN s => Below(f[n + 1], ns, p)}
  <2>2. 0 \in P
    <3>1. 1 \in DOMAIN s /\ f[1] = s[1]
      BY <1>2, <2>1 DEF BuiltUp
    <3> QED BY <3>1
  <2>3. \A n \in P : n + 1 \in P
    <3> SUFFICES ASSUME NEW n \in P, (n + 1) + 1 \in DOMAIN s
                 PROVE  Below(f[(n + 1) + 1], ns, p)
      OBVIOUS
    <3>1. n + 1 \in DOMAIN s /\ (n + 1) + 1 \in 2 .. Len(s) /\ ((n + 1) + 1) - 1 = n + 1
      OBVIOUS
    <3>2. f[(n + 1) + 1] = f[n + 1] \o s[(n + 1) + 1]
      BY <2>1, <3>1 DEF BuiltUp
    <3>3. f[n + 1] \in Seq(T) /\ s[(n + 1) + 1] \in Seq(T)
      <4>1. DOMAIN s = 1 .. Len(s) /\ \A k \in DOMAIN s : s[k] \in Seq(T)
        OBVIOUS
      <4> QED BY <2>1, <3>1, <4>1 DEF BuiltUp
    <3> QED BY <3>1, <3>2, <3>3, ConcatBelow
  <2> HIDE DEF P
  <2>4. P = Nat
    <3>1. P \in SUBSET Nat
      BY DEF P
    <3> QED BY <2>2, <2>3, <3>1, UpTo
  <2>5. Len(s) - 1 \in P /\ (Len(s) - 1) + 1 = Len(s) /\ Len(s) \in DOMAIN s
    BY <1>2, <2>4
  <2> QED BY <2>1, <2>5 DEF P
<1> QED BY <1>1, <1>2

-----------------------------------------------------------------------------
(* Walks over a forest: children, ancestors, rows.                         *)

NodeKinds == {KindOf[id] : id \in Ids} \union Folders
TreeNodes == [id : Ids, kind : NodeKinds, parent : Nat]

\* ns is a forest: parents rank below their children.
Ranked(ns, r) ==
    /\ ns \in Seq(TreeNodes)
    /\ r \in [0 .. Len(ns) -> 0 .. 2 * Len(ns)] /\ r[NoNode] = 0
    /\ \A i \in DOMAIN ns : ns[i].parent \in 0 .. Len(ns) /\ r[ns[i].parent] < r[i]

\* One round of a loop that filters.
LEMMA OneIfIs ==
    ASSUME NEW T, NEW there \in BOOLEAN, NEW x, there => x \in T
    PROVE  /\ OneIf(there, x) \in Seq(T)
           /\ ToSet(OneIf(there, x)) = IF there THEN {x} ELSE {}
           /\ IsInjective(OneIf(there, x))
<1>1. CASE there
  BY <1>1 DEF OneIf, ToSet, IsInjective
<1>2. CASE ~there
  BY <1>2 DEF OneIf, ToSet, IsInjective
<1> QED BY <1>1, <1>2

LEMMA RankIs == \A kind : Rank(kind) \in 1 .. 4
BY DEF Rank

\* new_children: the children are bucketed by kind, and none is lost or twice.
LEMMA ChildrenAre ==
    ASSUME NEW ns \in Seq(TreeNodes), NEW p
    PROVE  /\ Children(ns, p) \in Seq(DOMAIN ns)
           /\ ToSet(Children(ns, p)) = {i \in DOMAIN ns : ns[i].parent = p}
           /\ IsInjective(Children(ns, p))
<1> DEFINE T == DOMAIN ns
           test(i, k) == ns[i].parent = p /\ Rank(ns[i].kind) = k
           ones(k) == [i \in T |-> OneIf(test(i, k), i)]
           bucket(k) == FlattenSeq(ones(k))
           buckets == [k \in 1 .. 4 |-> bucket(k)]
<1>0. T = 1 .. Len(ns) /\ Len(ns) \in Nat
  OBVIOUS
<1>1. ASSUME NEW k \in 1 .. 4
      PROVE  /\ bucket(k) \in Seq(T)
             /\ ToSet(bucket(k)) = {i \in T : test(i, k)}
             /\ IsInjective(bucket(k))
  <2> DEFINE s == ones(k)
  <2>1. /\ DOMAIN s = T
        /\ \A i \in T : /\ s[i] \in Seq(T) /\ IsInjective(s[i])
                        /\ ToSet(s[i]) = IF test(i, k) THEN {i} ELSE {}
    <3> SUFFICES ASSUME NEW i \in T
                 PROVE  /\ s[i] \in Seq(T) /\ IsInjective(s[i])
                        /\ ToSet(s[i]) = IF test(i, k) THEN {i} ELSE {}
      OBVIOUS
    <3>1. s[i] = OneIf(test(i, k), i) /\ test(i, k) \in BOOLEAN
      OBVIOUS
    <3> HIDE DEF s, test, T
    <3> QED BY <3>1, OneIfIs
  <2>2. s \in Seq(Seq(T)) /\ Len(s) = Len(ns)
    <3>1. s = [i \in 1 .. Len(ns) |-> s[i]]
      BY <1>0
    <3> HIDE DEF s, test
    <3>2. \A i \in 1 .. Len(ns) : s[i] \in Seq(T)
      BY <1>0, <2>1
    <3> QED BY <1>0, <3>1, <3>2
  <2> HIDE DEF s
  <2>3. FlatSoFar(FlattenSeq(s), s, Len(s), T)
    BY <2>2, FlattenFacts
  <2>4. \A i, j \in T : i # j => ToSet(s[i]) \cap ToSet(s[j]) = {}
    BY <2>1
  <2>5. FlattenSeq(s) \in Seq(T) /\ IsInjective(FlattenSeq(s))
    BY <2>1, <2>3, <2>4 DEF FlatSoFar
  <2>6. ToSet(FlattenSeq(s)) = {i \in T : test(i, k)}
    <3>1. \A x : x \in ToSet(FlattenSeq(s)) <=> \E i \in T : x \in ToSet(s[i])
      BY <1>0, <2>2, <2>3 DEF FlatSoFar
    <3> QED BY <2>1, <3>1
  <2> QED BY <2>5, <2>6 DEF s
<1>2. buckets \in Seq(Seq(T)) /\ Len(buckets) = 4 /\ DOMAIN buckets = 1 .. 4
  BY <1>1
<1>3. Children(ns, p) = FlattenSeq(buckets)
  BY DEF Children
<1>4. \A k \in 1 .. 4 : /\ IsInjective(buckets[k])
                        /\ ToSet(buckets[k]) = {i \in T : test(i, k)}
  BY <1>1
<1> HIDE DEF buckets
<1>5. FlatSoFar(FlattenSeq(buckets), buckets, 4, T)
  BY <1>2, FlattenFacts
<1>6. \A k, l \in 1 .. 4 : k # l => ToSet(buckets[k]) \cap ToSet(buckets[l]) = {}
  BY <1>4
<1>7. ToSet(FlattenSeq(buckets)) = {i \in T : ns[i].parent = p}
  <2>1. \A x : x \in ToSet(FlattenSeq(buckets)) <=> \E k \in 1 .. 4 : x \in ToSet(buckets[k])
    BY <1>5 DEF FlatSoFar
  <2> QED BY <1>4, <2>1, RankIs
<1> QED BY <1>2, <1>3, <1>4, <1>5, <1>6, <1>7 DEF FlatSoFar

\* The walk up: AncestorsIn unfolds.
LEMMA AncestorsAre ==
    ASSUME NEW ns, NEW r, Ranked(ns, r), NEW i \in DOMAIN ns
    PROVE  AncestorsIn(ns, i) = IF ns[i].parent = NoNode THEN {}
                                ELSE {ns[i].parent} \union AncestorsIn(ns, ns[i].parent)
<1> DEFINE D == DOMAIN ns
           E(f, j) == IF ns[j].parent = NoNode THEN {}
                      ELSE {ns[j].parent} \union f[ns[j].parent]
           above == CHOOSE f : f = [j \in D |-> E(f, j)]
           part(n) == {j \in D : r[j] < n}
           Solves(f, n) == f = [j \in part(n) |-> E(f, j)]
           P == {n \in Nat : \E f : Solves(f, n)}
<1>0. /\ D = 1 .. Len(ns) /\ Len(ns) \in Nat
      /\ \A j \in D : r[j] \in Nat /\ r[j] < 2 * Len(ns) + 1
      /\ \A j \in D : ns[j].parent # NoNode => ns[j].parent \in D /\ r[ns[j].parent] < r[j]
  BY DEF Ranked, NoNode
<1>1. P = Nat
  <2>1. 0 \in P
    <3>1. part(0) = {}
      BY <1>0
    <3> DEFINE f == [j \in part(0) |-> 0]
    <3>2. Solves(f, 0)
      BY <3>1
    <3> HIDE DEF Solves
    <3> QED BY <3>2
  <2>2. ASSUME NEW n \in P PROVE n + 1 \in P
    <3>1. PICK f : Solves(f, n)
      OBVIOUS
    <3> DEFINE g == [j \in part(n + 1) |-> E(f, j)]
    <3>2. ASSUME NEW j \in part(n + 1) PROVE E(f, j) = E(g, j)
      <4>1. CASE ns[j].parent = NoNode
        BY <4>1
      <4>2. CASE ns[j].parent # NoNode
        <5>1. ns[j].parent \in part(n) /\ ns[j].parent \in part(n + 1)
          BY <4>2, <1>0
        <5>2. f[ns[j].parent] = E(f, ns[j].parent)
          BY <3>1, <5>1
        <5>3. g[ns[j].parent] = E(f, ns[j].parent)
          BY <5>1
        <5> QED BY <4>2, <5>2, <5>3
      <4> QED BY <4>1, <4>2
    <3>3. Solves(g, n + 1)
      BY <3>2
    <3> HIDE DEF Solves
    <3> QED BY <3>3
  <2> HIDE DEF P
  <2>3. P \in SUBSET Nat
    BY DEF P
  <2> QED BY <2>1, <2>2, <2>3, UpTo
<1>2. \E f : f = [j \in D |-> E(f, j)]
  <2>1. 2 * Len(ns) + 1 \in P
    <3> HIDE DEF P
    <3>1. 2 * Len(ns) + 1 \in Nat
      BY <1>0
    <3> QED BY <1>1, <3>1
  <2>2. part(2 * Len(ns) + 1) = D
    BY <1>0
  <2> QED BY <2>1, <2>2
<1>3. above = [j \in D |-> E(above, j)]
  BY <1>2
<1>4. \A j \in D : AncestorsIn(ns, j) = above[j]
  BY DEF AncestorsIn
<1> HIDE DEF above
<1> QED BY <1>0, <1>3, <1>4

\* No node is above itself, since its ancestors rank below it.
LEMMA AncestorsRank ==
    ASSUME NEW ns, NEW r, Ranked(ns, r), NEW i \in DOMAIN ns, NEW a \in AncestorsIn(ns, i)
    PROVE  a \in DOMAIN ns /\ r[a] < r[i]
<1>0. /\ \A j \in DOMAIN ns : r[j] \in Nat
      /\ \A j \in DOMAIN ns : ns[j].parent # NoNode =>
             ns[j].parent \in DOMAIN ns /\ r[ns[j].parent] < r[j]
  BY DEF Ranked, NoNode
<1> DEFINE P == {n \in Nat : \A j \in DOMAIN ns : r[j] = n =>
                     \A x \in AncestorsIn(ns, j) : x \in DOMAIN ns /\ r[x] < r[j]}
<1>1. ASSUME NEW n \in Nat, \A m \in Nat : m < n => m \in P
      PROVE  n \in P
  <2> SUFFICES ASSUME NEW j \in DOMAIN ns, r[j] = n, NEW x \in AncestorsIn(ns, j)
               PROVE  x \in DOMAIN ns /\ r[x] < r[j]
    OBVIOUS
  <2>1. AncestorsIn(ns, j) = IF ns[j].parent = NoNode THEN {}
                             ELSE {ns[j].parent} \union AncestorsIn(ns, ns[j].parent)
    BY AncestorsAre
  <2>2. ns[j].parent # NoNode
    BY <2>1
  <2>3. ns[j].parent \in DOMAIN ns /\ r[ns[j].parent] < r[j]
    BY <1>0, <2>2
  <2>4. r[ns[j].parent] \in P
    BY <1>0, <1>1, <2>3
  <2>5. CASE x = ns[j].parent
    BY <2>3, <2>5
  <2>6. CASE x \in AncestorsIn(ns, ns[j].parent)
    <3>1. x \in DOMAIN ns /\ r[x] < r[ns[j].parent]
      BY <2>3, <2>4, <2>6
    <3> QED BY <1>0, <2>3, <3>1
  <2> QED BY <2>1, <2>2, <2>5, <2>6
<1> HIDE DEF P
<1>2. P = Nat
  <2>1. P \in SUBSET Nat
    BY DEF P
  <2>2. \A n \in Nat : (\A m \in Nat : m < n => m \in P) => n \in P
    BY <1>1
  <2> QED BY <2>1, <2>2, Induction
<1>3. r[i] \in P
  BY <1>0, <1>2
<1> QED BY <1>3 DEF P

Opens(open, p) == p = NoNode \/ p \in open

\* One node's part of the walk down, given those of the nodes below it.
Walk(ns, open, f, p) ==
    IF Opens(open, p)
    THEN LET kids == Children(ns, p)
         IN  FlattenSeq([k \in DOMAIN kids |-> <<kids[k]>> \o f[kids[k]]])
    ELSE <<>>

\* The walk down: the recursion of Visible unfolds.
LEMMA VisibleIs ==
    ASSUME NEW ns, NEW r, Ranked(ns, r), NEW open
    PROVE  \E f : /\ Visible(ns, open) = f[NoNode]
                  /\ \A p \in 0 .. Len(ns) : f[p] = Walk(ns, open, f, p)
<1> DEFINE D == 0 .. Len(ns)
           top == 2 * Len(ns)
           under == CHOOSE f : f = [p \in D |-> Walk(ns, open, f, p)]
           part(n) == {p \in D : r[p] > top - n}
           Solves(f, n) == f = [p \in part(n) |-> Walk(ns, open, f, p)]
           P == {n \in Nat : \E f : Solves(f, n)}
<1>0. /\ DOMAIN ns = 1 .. Len(ns) /\ Len(ns) \in Nat
      /\ \A p \in D : r[p] \in Nat /\ r[p] <= top
      /\ \A i \in DOMAIN ns : ns[i].parent \in D /\ r[ns[i].parent] < r[i]
  BY DEF Ranked, NoNode
<1>1. P = Nat
  <2>1. 0 \in P
    <3>1. part(0) = {}
      BY <1>0
    <3> DEFINE f == [p \in part(0) |-> 0]
    <3>2. Solves(f, 0)
      BY <3>1
    <3> HIDE DEF Solves
    <3> QED BY <3>2
  <2>2. ASSUME NEW n \in P PROVE n + 1 \in P
    <3>1. PICK f : Solves(f, n)
      OBVIOUS
    <3> DEFINE g == [p \in part(n + 1) |-> Walk(ns, open, f, p)]
    <3>2. ASSUME NEW p \in part(n + 1)
          PROVE  Walk(ns, open, f, p) = Walk(ns, open, g, p)
      <4> DEFINE kids == Children(ns, p)
      <4>1. \A k \in DOMAIN kids : kids[k] \in DOMAIN ns /\ ns[kids[k]].parent = p
        <5>1. \A k \in DOMAIN kids : kids[k] \in ToSet(kids)
          BY DEF ToSet
        <5> QED BY <5>1, ChildrenAre DEF Ranked
      <4> HIDE DEF kids
      <4>2. ASSUME NEW k \in DOMAIN kids PROVE f[kids[k]] = g[kids[k]]
        <5>1. kids[k] \in part(n) /\ kids[k] \in part(n + 1)
          BY <1>0, <4>1
        <5> QED BY <3>1, <5>1
      <4>3. [k \in DOMAIN kids |-> <<kids[k]>> \o f[kids[k]]]
              = [k \in DOMAIN kids |-> <<kids[k]>> \o g[kids[k]]]
        BY <4>2
      <4> QED BY <4>3 DEF Walk, kids
    <3>3. Solves(g, n + 1)
      BY <3>2
    <3> HIDE DEF Solves
    <3> QED BY <3>3
  <2> HIDE DEF P
  <2>3. P \in SUBSET Nat
    BY DEF P
  <2> QED BY <2>1, <2>2, <2>3, UpTo
<1>2. \E f : f = [p \in D |-> Walk(ns, open, f, p)]
  <2>1. top + 1 \in P
    <3> HIDE DEF P
    <3>1. top + 1 \in Nat
      BY <1>0
    <3> QED BY <1>1, <3>1
  <2>2. part(top + 1) = D
    BY <1>0
  <2> QED BY <2>1, <2>2
<1>3. under = [p \in D |-> Walk(ns, open, under, p)]
  BY <1>2
<1>4. Visible(ns, open) = under[NoNode]
  BY DEF Visible, Walk, Opens
<1> HIDE DEF under
<1> QED BY <1>3, <1>4

\* The walk below p: what rebuild_visible pushes between p and what follows.
WalkOk(ns, r, open, q, p) ==
    /\ q \in Seq(DOMAIN ns) /\ IsInjective(q) /\ Below(q, ns, p)
    /\ \A x \in ToSet(q) : Opens(open, p) /\ r[p] < r[x]
    /\ \A i \in DOMAIN ns : ns[i].parent = p /\ Opens(open, p) => i \in ToSet(q)
    /\ \A i \in DOMAIN ns : ns[i].parent \in ToSet(q) \cap open => i \in ToSet(q)
    /\ \A x \in ToSet(q) : \A a \in AncestorsIn(ns, x) :
           a \in open \/ a = p \/ (p # NoNode /\ a \in AncestorsIn(ns, p))

\* A child and what is below it.
BlockOk(ns, r, open, b, kid, p) ==
    /\ b \in Seq(DOMAIN ns) /\ IsInjective(b) /\ Below(b, ns, p)
    /\ kid \in ToSet(b)
    /\ \A x \in ToSet(b) : r[p] < r[x] /\ (x = kid \/ ns[x].parent \in ToSet(b))
    /\ \A i \in DOMAIN ns : ns[i].parent \in ToSet(b) \cap open => i \in ToSet(b)
    /\ \A x \in ToSet(b) : \A a \in AncestorsIn(ns, x) :
           a \in open \/ a = p \/ (p # NoNode /\ a \in AncestorsIn(ns, p))

\* What is below a child, put after it.
LEMMA BlockIs ==
    ASSUME NEW ns, NEW r, Ranked(ns, r), NEW open, NEW p \in 0 .. Len(ns), Opens(open, p),
           NEW kid \in DOMAIN ns, ns[kid].parent = p, NEW q, WalkOk(ns, r, open, q, kid)
    PROVE  BlockOk(ns, r, open, <<kid>> \o q, kid, p)
<1> DEFINE b == <<kid>> \o q
           one == <<kid>>
<1>0. /\ r[p] \in Nat /\ r[p] < r[kid] /\ kid # NoNode
      /\ \A i \in DOMAIN ns : r[i] \in Nat
  BY DEF Ranked, NoNode
<1>1. one \in Seq(DOMAIN ns) /\ ToSet(one) = {kid} /\ IsInjective(one)
  BY DEF ToSet, IsInjective
<1>2. q \in Seq(DOMAIN ns) /\ IsInjective(q) /\ Below(q, ns, kid)
  BY DEF WalkOk
<1>3. \A x \in ToSet(q) : x \in DOMAIN ns /\ r[kid] < r[x] /\ kid \in open
  BY <1>0, <1>2 DEF WalkOk, ToSet, Opens
<1>4. b \in Seq(DOMAIN ns) /\ ToSet(b) = {kid} \union ToSet(q) /\ IsInjective(b)
  <2>1. {kid} \cap ToSet(q) = {}
    BY <1>0, <1>3
  <2> HIDE DEF one
  <2>2. b = one \o q
    BY DEF one
  <2> HIDE DEF b
  <2> QED BY <1>1, <1>2, <2>1, <2>2, ConcatIs
<1>5. Below(b, ns, p)
  <2>1. /\ DOMAIN b = 1 .. Len(q) + 1 /\ Len(q) \in Nat /\ DOMAIN q = 1 .. Len(q)
        /\ b[1] = kid /\ \A m \in DOMAIN q : b[m + 1] = q[m]
    BY <1>2
  <2> HIDE DEF b
  <2> SUFFICES ASSUME NEW m \in DOMAIN b, ns[b[m]].parent # p
               PROVE  \E h \in 1 .. m - 1 : b[h] = ns[b[m]].parent
    BY DEF Below
  <2>2. m - 1 \in DOMAIN q /\ b[m] = q[m - 1]
    <3>1. m # 1
      BY <2>1
    <3>2. m - 1 \in DOMAIN q /\ (m - 1) + 1 = m
      BY <2>1, <3>1
    <3> QED BY <2>1, <3>2
  <2>3. CASE ns[q[m - 1]].parent = kid
    BY <2>1, <2>2, <2>3
  <2>4. CASE \E h \in 1 .. (m - 1) - 1 : q[h] = ns[q[m - 1]].parent
    <3>1. PICK h \in 1 .. (m - 1) - 1 : q[h] = ns[q[m - 1]].parent
      BY <2>4
    <3>2. h \in DOMAIN q /\ h + 1 \in 1 .. m - 1
      BY <2>1, <2>2
    <3> QED BY <2>1, <2>2, <3>1, <3>2
  <2> QED BY <1>2, <2>2, <2>3, <2>4 DEF Below
<1>6. \A x \in ToSet(b) : r[p] < r[x] /\ (x = kid \/ ns[x].parent \in ToSet(b))
  <2> SUFFICES ASSUME NEW x \in ToSet(q)
               PROVE  r[p] < r[x] /\ ns[x].parent \in ToSet(b)
    BY <1>0, <1>4
  <2>1. PICK m \in DOMAIN q : q[m] = x
    BY DEF ToSet
  <2>2. ns[x].parent = kid \/ \E h \in 1 .. m - 1 : q[h] = ns[x].parent
    BY <1>2, <2>1 DEF Below
  <2>3. \A h \in 1 .. m - 1 : q[h] \in ToSet(q)
    <3>1. \A h \in 1 .. m - 1 : h \in DOMAIN q
      BY <1>2
    <3> QED BY <3>1 DEF ToSet
  <2>4. ns[x].parent \in ToSet(b)
    BY <1>4, <2>2, <2>3
  <2>5. r[kid] < r[x] /\ r[x] \in Nat /\ r[kid] \in Nat
    BY <1>0, <1>3
  <2> QED BY <1>0, <2>4, <2>5
<1>7. \A i \in DOMAIN ns : ns[i].parent \in ToSet(b) \cap open => i \in ToSet(b)
  BY <1>0, <1>4 DEF WalkOk, Opens
<1>8. ASSUME NEW x \in ToSet(b), NEW a \in AncestorsIn(ns, x)
      PROVE  a \in open \/ a = p \/ (p # NoNode /\ a \in AncestorsIn(ns, p))
  <2>1. \A y \in AncestorsIn(ns, kid) : y = p \/ (p # NoNode /\ y \in AncestorsIn(ns, p))
    <3>1. AncestorsIn(ns, kid) = IF p = NoNode THEN {} ELSE {p} \union AncestorsIn(ns, p)
      BY AncestorsAre
    <3> QED BY <3>1
  <2>2. CASE x = kid
    BY <1>8, <2>1, <2>2
  <2>3. CASE x \in ToSet(q)
    <3>1. a \in open \/ a = kid \/ a \in AncestorsIn(ns, kid)
      BY <1>8, <2>3 DEF WalkOk
    <3>2. kid \in open
      BY <1>3, <2>3
    <3> QED BY <2>1, <3>1, <3>2
  <2> QED BY <1>4, <2>2, <2>3
<1> HIDE DEF b
<1>9. BlockOk(ns, r, open, b, kid, p)
  BY <1>4, <1>5, <1>6, <1>7, <1>8 DEF BlockOk
<1> QED BY <1>9 DEF b

\* Two children have nothing below them in common.
LEMMA BlocksApart ==
    ASSUME NEW ns, NEW r, Ranked(ns, r), NEW open, NEW p \in 0 .. Len(ns),
           NEW k, NEW l, k # l, ns[k].parent = p, ns[l].parent = p, NEW b, NEW c,
           BlockOk(ns, r, open, b, k, p), BlockOk(ns, r, open, c, l, p)
    PROVE  ToSet(b) \cap ToSet(c) = {}
<1> DEFINE both == ToSet(b) \cap ToSet(c)
           S == {r[x] : x \in both}
<1> SUFFICES ASSUME both # {} PROVE FALSE
  OBVIOUS
<1>0. /\ both \subseteq DOMAIN ns
      /\ \A i \in DOMAIN ns : r[i] \in Nat /\ r[ns[i].parent] \in Nat /\ r[ns[i].parent] < r[i]
      /\ r[p] \in Nat
  <2>1. \A x \in ToSet(b) : x \in DOMAIN ns
    BY DEF BlockOk, ToSet
  <2> QED BY <2>1 DEF Ranked
<1>1. PICK x \in both : \A y \in both : r[x] <= r[y]
  <2>1. S \in SUBSET Nat /\ S # {}
    BY <1>0
  <2>2. PICK n \in S : \A m \in S : n <= m
    BY <2>1, LeastOf
  <2> QED BY <2>2
<1>2. /\ r[p] < r[x] /\ x \in DOMAIN ns
      /\ x = k \/ ns[x].parent \in ToSet(b)
      /\ x = l \/ ns[x].parent \in ToSet(c)
  BY <1>0 DEF BlockOk
<1>3. p \notin ToSet(b) /\ p \notin ToSet(c)
  BY <1>0 DEF BlockOk
<1>4. x # k /\ x # l
  BY <1>2, <1>3
<1>5. ns[x].parent \in both
  BY <1>2, <1>4
<1> QED BY <1>0, <1>1, <1>2, <1>5

\* One node's part is what it should be if its children's are.
LEMMA WalkStep ==
    ASSUME NEW ns, NEW r, Ranked(ns, r), NEW open, NEW f, NEW p \in 0 .. Len(ns),
           \A i \in DOMAIN ns : ns[i].parent = p => WalkOk(ns, r, open, f[i], i)
    PROVE  WalkOk(ns, r, open, Walk(ns, open, f, p), p)
<1> DEFINE q == Walk(ns, open, f, p)
           kids == Children(ns, p)
           block(k) == <<kids[k]>> \o f[kids[k]]
           s == [k \in DOMAIN kids |-> block(k)]
<1>1. CASE ~Opens(open, p)
  <2>1. q = <<>> /\ ToSet(q) = {}
    BY <1>1 DEF Walk, ToSet
  <2> HIDE DEF q
  <2>2. q \in Seq(DOMAIN ns) /\ IsInjective(q) /\ Below(q, ns, p)
    BY <2>1 DEF IsInjective, Below
  <2>3. WalkOk(ns, r, open, q, p)
    BY <1>1, <2>1, <2>2 DEF WalkOk
  <2> QED BY <2>3 DEF q
<1>2. CASE Opens(open, p)
  <2>1. /\ kids \in Seq(DOMAIN ns) /\ IsInjective(kids)
        /\ ToSet(kids) = {i \in DOMAIN ns : ns[i].parent = p}
    BY ChildrenAre DEF Ranked
  <2>2. q = FlattenSeq(s)
    BY <1>2 DEF Walk
  <2> HIDE DEF q, kids
  <2>3. \A k \in DOMAIN kids : kids[k] \in DOMAIN ns /\ ns[kids[k]].parent = p
    BY <2>1 DEF ToSet
  <2>4. ASSUME NEW k \in DOMAIN kids
        PROVE  BlockOk(ns, r, open, block(k), kids[k], p)
    BY <1>2, <2>3, BlockIs
  <2>5. DOMAIN s = DOMAIN kids /\ \A k \in DOMAIN s : BlockOk(ns, r, open, s[k], kids[k], p)
    BY <2>4
  <2>6. s = [k \in 1 .. Len(kids) |-> s[k]] /\ DOMAIN kids = 1 .. Len(kids) /\ Len(kids) \in Nat
    BY <2>1
  <2> HIDE DEF s
  <2>7. s \in Seq(Seq(DOMAIN ns)) /\ Len(s) = Len(kids) /\ DOMAIN s = 1 .. Len(s)
    <3>1. \A k \in 1 .. Len(kids) : s[k] \in Seq(DOMAIN ns)
      BY <2>5, <2>6 DEF BlockOk
    <3> QED BY <2>6, <3>1
  <2>8. FlatSoFar(q, s, Len(s), DOMAIN ns)
    BY <2>2, <2>7, FlattenFacts
  <2>9. \A x : x \in ToSet(q) <=> \E k \in DOMAIN s : x \in ToSet(s[k])
    BY <2>7, <2>8 DEF FlatSoFar
  <2>10. q \in Seq(DOMAIN ns) /\ IsInjective(q)
    <3>1. \A k \in DOMAIN s : IsInjective(s[k])
      BY <2>5 DEF BlockOk
    <3>2. ASSUME NEW k \in DOMAIN s, NEW l \in DOMAIN s, k # l
          PROVE  ToSet(s[k]) \cap ToSet(s[l]) = {}
      <4>1. kids[k] # kids[l]
        BY <2>1, <2>5, <3>2 DEF IsInjective
      <4> QED BY <2>3, <2>5, <4>1, BlocksApart
    <3> QED BY <2>8, <3>1, <3>2 DEF FlatSoFar
  <2>11. Below(q, ns, p)
    <3>1. \A k \in DOMAIN s : Below(s[k], ns, p)
      BY <2>5 DEF BlockOk
    <3> QED BY <2>2, <2>7, <3>1, FlattenBelow
  <2>12. \A x \in ToSet(q) : Opens(open, p) /\ r[p] < r[x]
    BY <1>2, <2>5, <2>9 DEF BlockOk
  <2>13. \A i \in DOMAIN ns : ns[i].parent = p => i \in ToSet(q)
    <3> SUFFICES ASSUME NEW i \in DOMAIN ns, ns[i].parent = p PROVE i \in ToSet(q)
      OBVIOUS
    <3>1. i \in ToSet(kids)
      BY <2>1
    <3>2. PICK k \in DOMAIN kids : kids[k] = i
      BY <3>1 DEF ToSet
    <3>3. k \in DOMAIN s /\ i \in ToSet(s[k])
      BY <2>5, <3>2 DEF BlockOk
    <3> QED BY <2>9, <3>3
  <2>14. \A i \in DOMAIN ns : ns[i].parent \in ToSet(q) \cap open => i \in ToSet(q)
    BY <2>5, <2>9 DEF BlockOk
  <2>15. \A x \in ToSet(q) : \A a \in AncestorsIn(ns, x) :
             a \in open \/ a = p \/ (p # NoNode /\ a \in AncestorsIn(ns, p))
    BY <2>5, <2>9 DEF BlockOk
  <2>16. WalkOk(ns, r, open, q, p)
    BY <2>10, <2>11, <2>12, <2>13, <2>14, <2>15 DEF WalkOk
  <2> QED BY <2>16 DEF q
<1> QED BY <1>1, <1>2

\* rebuild_visible walks the open part of the tree, each node of it once, below
\* its parent.
LEMMA VisibleFacts ==
    ASSUME NEW ns, NEW r, Ranked(ns, r), NEW open
    PROVE  WalkOk(ns, r, open, Visible(ns, open), NoNode)
<1> DEFINE top == 2 * Len(ns)
<1>0. /\ Len(ns) \in Nat /\ top \in Nat /\ DOMAIN ns = 1 .. Len(ns)
      /\ \A p \in 0 .. Len(ns) : r[p] \in 0 .. top
      /\ \A i \in DOMAIN ns : r[ns[i].parent] < r[i]
  BY DEF Ranked
<1>1. PICK f : /\ Visible(ns, open) = f[NoNode]
               /\ \A p \in 0 .. Len(ns) : f[p] = Walk(ns, open, f, p)
  BY VisibleIs
<1> DEFINE P == {n \in Nat : \A p \in 0 .. Len(ns) :
                                 top - r[p] = n => WalkOk(ns, r, open, f[p], p)}
<1>2. ASSUME NEW n \in Nat, \A m \in Nat : m < n => m \in P
      PROVE  n \in P
  <2> SUFFICES ASSUME NEW p \in 0 .. Len(ns), top - r[p] = n
               PROVE  WalkOk(ns, r, open, f[p], p)
    OBVIOUS
  <2>1. ASSUME NEW i \in DOMAIN ns, ns[i].parent = p
        PROVE  WalkOk(ns, r, open, f[i], i)
    <3>1. i \in 0 .. Len(ns) /\ top - r[i] \in Nat /\ top - r[i] < n
      BY <1>0, <2>1
    <3>2. top - r[i] \in P
      BY <1>2, <3>1
    <3> QED BY <3>1, <3>2
  <2>2. WalkOk(ns, r, open, Walk(ns, open, f, p), p)
    BY <2>1, WalkStep
  <2> QED BY <1>1, <2>2
<1> HIDE DEF P
<1>3. P = Nat
  <2>1. P \in SUBSET Nat
    BY DEF P
  <2>2. \A n \in Nat : (\A m \in Nat : m < n => m \in P) => n \in P
    BY <1>2
  <2> QED BY <2>1, <2>2, Induction
<1>4. NoNode \in 0 .. Len(ns) /\ top - r[NoNode] \in P
  BY <1>0, <1>3 DEF NoNode
<1> QED BY <1>1, <1>4 DEF P

\* The nodes under open ancestors.
OpenTree(ns, open) == {i \in DOMAIN ns : AncestorsIn(ns, i) \subseteq open}

\* The rows are the open tree.
LEMMA VisibleIsOpenTree ==
    ASSUME NEW ns, NEW r, Ranked(ns, r), NEW open
    PROVE  ToSet(Visible(ns, open)) = OpenTree(ns, open)
<1> DEFINE q == Visible(ns, open)
<1>0. /\ \A i \in DOMAIN ns : r[i] \in Nat
      /\ \A i \in DOMAIN ns : ns[i].parent # NoNode =>
             ns[i].parent \in DOMAIN ns /\ r[ns[i].parent] < r[i]
  BY DEF Ranked, NoNode
<1>1. WalkOk(ns, r, open, q, NoNode)
  BY VisibleFacts
<1> HIDE DEF q
<1>2. ASSUME NEW x \in ToSet(q) PROVE x \in OpenTree(ns, open)
  <2>1. x \in DOMAIN ns
    BY <1>1 DEF WalkOk, ToSet
  <2>2. \A a \in AncestorsIn(ns, x) : a \in open \/ a = NoNode
    BY <1>1 DEF WalkOk
  <2>3. \A a \in AncestorsIn(ns, x) : a # NoNode
    <3>1. \A a \in AncestorsIn(ns, x) : a \in DOMAIN ns
      BY <2>1, AncestorsRank
    <3> QED BY <3>1 DEF Ranked, NoNode
  <2> QED BY <2>1, <2>2, <2>3 DEF OpenTree
<1> DEFINE P == {n \in Nat : \A i \in OpenTree(ns, open) : r[i] = n => i \in ToSet(q)}
<1>3. ASSUME NEW n \in Nat, \A m \in Nat : m < n => m \in P
      PROVE  n \in P
  <2> SUFFICES ASSUME NEW i \in OpenTree(ns, open), r[i] = n PROVE i \in ToSet(q)
    OBVIOUS
  <2>1. i \in DOMAIN ns
    BY DEF OpenTree
  <2>2. CASE ns[i].parent = NoNode
    BY <1>1, <2>1, <2>2 DEF WalkOk, Opens
  <2>3. CASE ns[i].parent # NoNode
    <3> DEFINE a == ns[i].parent
    <3>1. a \in DOMAIN ns /\ r[a] \in Nat /\ r[a] < n
      BY <1>0, <2>1, <2>3
    <3>2. AncestorsIn(ns, i) = {a} \union AncestorsIn(ns, a)
      BY <2>1, <2>3, AncestorsAre
    <3>3. a \in open /\ a \in OpenTree(ns, open)
      BY <3>1, <3>2 DEF OpenTree
    <3>4. r[a] \in P
      BY <1>3, <3>1
    <3>5. a \in ToSet(q)
      BY <3>3, <3>4
    <3> QED BY <1>1, <2>1, <3>3, <3>5 DEF WalkOk
  <2> QED BY <2>2, <2>3
<1> HIDE DEF P
<1>4. P = Nat
  <2>1. P \in SUBSET Nat
    BY DEF P
  <2>2. \A n \in Nat : (\A m \in Nat : m < n => m \in P) => n \in P
    BY <1>3
  <2> QED BY <2>1, <2>2, Induction
<1>5. ASSUME NEW i \in OpenTree(ns, open) PROVE i \in ToSet(q)
  <2>1. r[i] \in P
    BY <1>0, <1>4 DEF OpenTree
  <2> QED BY <2>1 DEF P
<1> QED BY <1>2, <1>5 DEF q

-----------------------------------------------------------------------------
(* The arena of a flow and its services is such a forest.                  *)

\* A list rebuild_arena_from_cluster hands over: parents come first, and are groups.
FlatOk(f) ==
    /\ f \in Seq(TreeNodes) /\ Distinct(f)
    /\ \A i \in DOMAIN f :
           /\ f[i].kind = KindOf[f[i].id]
           /\ f[i].parent \in 0 .. i - 1
           /\ IF f[i].parent = NoNode THEN IsGroup(f, i) ELSE IsGroup(f, f[i].parent)

\* The flat list: a component after its group, and no id twice.
LEMMA FlatIs ==
    ASSUME NEW flow \in Flows, flow # <<>>, NEW list \in ServiceLists \union {<<>>}
    PROVE  FlatOk(Flat(flow, list)) /\ Flat(flow, list) # <<>>
<1> DEFINE known(s) == \E i \in DOMAIN flow : flow[i].id = s.parent
                                               /\ KindOf[flow[i].id] = "Group"
           at(id) == CHOOSE i \in DOMAIN flow : flow[i].id = id
           row(s) == [id |-> s.id, kind |-> "Service", parent |-> at(s.parent)]
           base == [i \in DOMAIN flow |->
                       [id |-> flow[i].id, kind |-> KindOf[flow[i].id], parent |-> flow[i].parent]]
           s == [k \in DOMAIN list |-> OneIf(known(list[k]), row(list[k]))]
           more == FlattenSeq(s)
           f == base \o more
<1>1. /\ flow \in Seq([id : Ids, parent : Nat]) /\ Distinct(flow)
      /\ \A i \in DOMAIN flow :
             /\ KindOf[flow[i].id] # "Service" /\ flow[i].parent \in 0 .. i - 1
             /\ flow[i].parent = 0 => KindOf[flow[i].id] = "Group"
             /\ flow[i].parent # 0 => KindOf[flow[flow[i].parent].id] = "Group"
  BY BrowserTreeAssumption
<1>2. /\ list \in Seq([id : Ids, parent : Ids]) /\ Distinct(list)
      /\ \A k \in DOMAIN list : KindOf[list[k].id] = "Service"
  <2>1. CASE list \in ServiceLists
    BY <2>1, BrowserTreeAssumption
  <2>2. CASE list = <<>>
    BY <2>2 DEF Distinct
  <2> QED BY <2>1, <2>2
<1>3. /\ DOMAIN flow = 1 .. Len(flow) /\ Len(flow) \in Nat \ {0}
      /\ DOMAIN list = 1 .. Len(list) /\ Len(list) \in Nat
  BY <1>1, <1>2
<1>4. ASSUME NEW k \in DOMAIN list, known(list[k])
      PROVE  /\ row(list[k]) \in TreeNodes /\ row(list[k]).parent \in DOMAIN flow
             /\ KindOf[flow[row(list[k]).parent].id] = "Group"
             /\ row(list[k]).kind = KindOf[row(list[k]).id]
             /\ row(list[k]).id = list[k].id
  <2> DEFINE a == at(list[k].parent)
  <2>1. PICK i \in DOMAIN flow : flow[i].id = list[k].parent /\ KindOf[flow[i].id] = "Group"
    BY <1>4
  <2>2. a \in DOMAIN flow /\ flow[a].id = list[k].parent
    BY <2>1
  <2>3. KindOf[flow[a].id] = "Group" /\ a \in Nat
    BY <1>3, <2>1, <2>2
  <2> HIDE DEF a
  <2>4. row(list[k]) = [id |-> list[k].id, kind |-> "Service", parent |-> a]
    BY DEF a
  <2> HIDE DEF row
  <2>5. list[k].id \in Ids /\ "Service" = KindOf[list[k].id]
    <3> DEFINE R == [id : Ids, parent : Ids]
    <3>1. list[k] \in R
      <4>1. list \in Seq(R)
        BY <1>2
      <4> HIDE DEF R
      <4> QED BY <4>1
    <3> QED BY <1>2, <3>1
  <2>6. KindOf[list[k].id] \in NodeKinds
    BY <2>5 DEF NodeKinds
  <2> QED BY <2>2, <2>3, <2>4, <2>5, <2>6 DEF TreeNodes
<1>5. /\ base \in Seq(TreeNodes) /\ Len(base) = Len(flow)
      /\ \A i \in DOMAIN flow : base[i] = [id |-> flow[i].id, kind |-> KindOf[flow[i].id],
                                           parent |-> flow[i].parent]
  <2>1. \A i \in DOMAIN flow : base[i] \in TreeNodes
    <3> SUFFICES ASSUME NEW i \in DOMAIN flow PROVE base[i] \in TreeNodes
      OBVIOUS
    <3>1. flow[i].id \in Ids /\ flow[i].parent \in Nat
      <4> DEFINE R == [id : Ids, parent : Nat]
      <4>1. flow[i] \in R
        <5>1. flow \in Seq(R)
          BY <1>1
        <5> HIDE DEF R
        <5> QED BY <5>1
      <4> QED BY <4>1
    <3>2. KindOf[flow[i].id] \in NodeKinds
      BY <3>1 DEF NodeKinds
    <3> QED BY <3>1, <3>2 DEF TreeNodes
  <2> QED BY <1>3, <2>1
<1>6. /\ s \in Seq(Seq(TreeNodes)) /\ DOMAIN s = DOMAIN list /\ Len(s) = Len(list)
      /\ \A k \in DOMAIN list :
             /\ \A x \in ToSet(s[k]) : known(list[k]) /\ x = row(list[k])
             /\ IsInjective(s[k])
  <2>1. ASSUME NEW k \in DOMAIN list
        PROVE  /\ s[k] \in Seq(TreeNodes) /\ IsInjective(s[k])
               /\ \A x \in ToSet(s[k]) : known(list[k]) /\ x = row(list[k])
    <3>1. s[k] = OneIf(known(list[k]), row(list[k])) /\ known(list[k]) \in BOOLEAN
      OBVIOUS
    <3>2. known(list[k]) => row(list[k]) \in TreeNodes
      BY <1>4
    <3> HIDE DEF s, known, row
    <3>3. /\ s[k] \in Seq(TreeNodes) /\ IsInjective(s[k])
          /\ ToSet(s[k]) = IF known(list[k]) THEN {row(list[k])} ELSE {}
      BY <3>1, <3>2, OneIfIs
    <3>4. CASE known(list[k])
      BY <3>3, <3>4
    <3>5. CASE ~known(list[k])
      BY <3>3, <3>5
    <3> QED BY <3>4, <3>5
  <2>2. s = [k \in 1 .. Len(list) |-> s[k]]
    BY <1>3
  <2> HIDE DEF s, known, row
  <2> QED BY <1>3, <2>1, <2>2
<1> HIDE DEF base, s
<1>7. FlatSoFar(more, s, Len(s), TreeNodes)
  BY <1>6, FlattenFacts
<1>8. \A x \in ToSet(more) : \E k \in DOMAIN list : known(list[k]) /\ x = row(list[k])
  <2> SUFFICES ASSUME NEW x \in ToSet(more)
               PROVE  \E k \in DOMAIN list : known(list[k]) /\ x = row(list[k])
    OBVIOUS
  <2>1. PICK k \in 1 .. Len(s) : x \in ToSet(s[k])
    BY <1>7 DEF FlatSoFar
  <2>2. k \in DOMAIN list
    BY <1>3, <1>6
  <2> HIDE DEF known, row
  <2> QED BY <1>6, <2>1, <2>2
<1>9. more \in Seq(TreeNodes) /\ IsInjective(more)
  <2>1. \A k, l \in DOMAIN s : k # l => ToSet(s[k]) \cap ToSet(s[l]) = {}
    <3> SUFFICES ASSUME NEW k \in DOMAIN list, NEW l \in DOMAIN list, k # l
                 PROVE  ToSet(s[k]) \cap ToSet(s[l]) = {}
      BY <1>6
    <3>1. list[k].id # list[l].id
      BY <1>2 DEF Distinct
    <3>2. row(list[k]) # row(list[l])
      BY <3>1
    <3> HIDE DEF known, row
    <3>3. \A x \in ToSet(s[k]) : x = row(list[k])
      BY <1>6
    <3>4. \A x \in ToSet(s[l]) : x = row(list[l])
      BY <1>6
    <3> QED BY <3>2, <3>3, <3>4
  <2> QED BY <1>6, <1>7, <2>1 DEF FlatSoFar
<1> HIDE DEF more
<1>10. ASSUME NEW m \in DOMAIN more
       PROVE  /\ more[m].parent \in DOMAIN flow /\ KindOf[flow[more[m].parent].id] = "Group"
              /\ more[m].kind = KindOf[more[m].id] /\ KindOf[more[m].id] = "Service"
              /\ \A n \in DOMAIN more : more[m].id = more[n].id => m = n
  <2>1. PICK k \in DOMAIN list : known(list[k]) /\ more[m] = row(list[k])
    BY <1>8 DEF ToSet
  <2>2. ASSUME NEW n \in DOMAIN more, more[m].id = more[n].id
        PROVE  m = n
    <3>1. PICK l \in DOMAIN list : known(list[l]) /\ more[n] = row(list[l])
      BY <1>8 DEF ToSet
    <3>2. list[k].id = list[l].id
      BY <2>1, <2>2, <3>1
    <3>3. k = l
      BY <1>2, <3>2 DEF Distinct
    <3> QED BY <1>9, <2>1, <3>1, <3>3 DEF IsInjective
  <2>3. KindOf[more[m].id] = "Service"
    BY <1>2, <2>1
  <2> HIDE DEF row, known
  <2> QED BY <1>4, <2>1, <2>2, <2>3
<1>11. Flat(flow, list) = f
  BY DEF Flat, base, more, s
<1>12. /\ f \in Seq(TreeNodes) /\ Len(f) = Len(flow) + Len(more) /\ Len(more) \in Nat
       /\ DOMAIN f = 1 .. Len(f) /\ DOMAIN more = 1 .. Len(more)
       /\ \A i \in DOMAIN flow : i \in DOMAIN f /\ f[i] = base[i]
       /\ \A i \in DOMAIN f : i \notin DOMAIN flow =>
              i - Len(flow) \in DOMAIN more /\ f[i] = more[i - Len(flow)]
  <2>1. base \in Seq(TreeNodes) /\ Len(base) = Len(flow) /\ more \in Seq(TreeNodes)
    BY <1>5, <1>9
  <2> QED BY <1>3, <2>1
<1> HIDE DEF f
<1>13. \A i \in DOMAIN flow : /\ f[i].id = flow[i].id /\ f[i].kind = KindOf[flow[i].id]
                              /\ f[i].parent = flow[i].parent
  <2> SUFFICES ASSUME NEW i \in DOMAIN flow
               PROVE  /\ f[i].id = flow[i].id /\ f[i].kind = KindOf[flow[i].id]
                      /\ f[i].parent = flow[i].parent
    OBVIOUS
  <2>1. f[i] = [id |-> flow[i].id, kind |-> KindOf[flow[i].id], parent |-> flow[i].parent]
    BY <1>5, <1>12
  <2> QED BY <2>1
<1>14. ASSUME NEW i \in DOMAIN f
       PROVE  /\ f[i].kind = KindOf[f[i].id]
              /\ f[i].parent \in 0 .. i - 1
              /\ IF f[i].parent = NoNode THEN IsGroup(f, i) ELSE IsGroup(f, f[i].parent)
  <2>1. CASE i \in DOMAIN flow
    <3> DEFINE a == flow[i].parent
    <3>1. f[i].parent = a /\ f[i].kind = KindOf[f[i].id] /\ f[i].kind = KindOf[flow[i].id]
      BY <1>13, <2>1
    <3>2. a \in 0 .. i - 1 /\ (a = 0 => KindOf[flow[i].id] = "Group")
      BY <1>1, <2>1
    <3>3. ASSUME a # 0 PROVE f[a].kind = "Group"
      <4>1. a \in DOMAIN flow
        BY <1>3, <2>1, <3>2, <3>3
      <4>2. KindOf[flow[a].id] = "Group"
        BY <1>1, <2>1, <3>3
      <4> QED BY <1>13, <4>1, <4>2
    <3> HIDE DEF a
    <3> QED BY <3>1, <3>2, <3>3 DEF IsGroup, NoNode
  <2>2. CASE i \notin DOMAIN flow
    <3>1. i - Len(flow) \in DOMAIN more /\ f[i] = more[i - Len(flow)]
      BY <1>12, <2>2
    <3>2. f[i].parent \in DOMAIN flow /\ KindOf[flow[f[i].parent].id] = "Group"
          /\ f[i].kind = KindOf[f[i].id]
      BY <1>10, <3>1
    <3>3. f[i].parent \in 0 .. i - 1 /\ f[i].parent # NoNode
      BY <1>3, <1>12, <2>2, <3>2 DEF NoNode
    <3> QED BY <1>13, <3>2, <3>3 DEF IsGroup
  <2> QED BY <2>1, <2>2
<1>15. Distinct(f)
  <2> SUFFICES ASSUME NEW i \in DOMAIN f, NEW j \in DOMAIN f, f[i].id = f[j].id
               PROVE  i = j
    BY DEF Distinct
  <2>1. \A k \in DOMAIN f : k \in DOMAIN flow <=> KindOf[f[k].id] # "Service"
    <3>1. \A k \in DOMAIN flow : KindOf[f[k].id] # "Service"
      BY <1>1, <1>13
    <3>2. \A k \in DOMAIN f : k \notin DOMAIN flow => KindOf[f[k].id] = "Service"
      BY <1>10, <1>12
    <3> QED BY <3>1, <3>2
  <2>2. CASE i \in DOMAIN flow
    BY <1>1, <1>13, <2>1, <2>2 DEF Distinct
  <2>3. CASE i \notin DOMAIN flow
    <3>1. j \notin DOMAIN flow
      BY <2>1, <2>3
    <3>2. i - Len(flow) = j - Len(flow)
      BY <1>10, <1>12, <2>3, <3>1
    <3> QED BY <1>3, <1>12, <3>2
  <2> QED BY <2>2, <2>3
<1>16. f # <<>>
  BY <1>3, <1>12
<1> QED BY <1>11, <1>12, <1>14, <1>15, <1>16 DEF FlatOk

\* g has a folder of this kind.
Holds(f, g, kind) ==
    IsGroup(f, g) /\ \E c \in DOMAIN f : f[c].parent = g /\ FolderOf(f[c].kind) = kind
FolderNode(f, g, kind) == [id |-> f[g].id, kind |-> kind, parent |-> g]

\* The folders are appended once per group and kind, where there is a child.
LEMMA FoldersAre ==
    ASSUME NEW f, FlatOk(f)
    PROVE  /\ FoldersOf(f) \in Seq(TreeNodes) /\ IsInjective(FoldersOf(f))
           /\ \A x : x \in ToSet(FoldersOf(f)) <=>
                  \E g \in DOMAIN f, kind \in Folders :
                      Holds(f, g, kind) /\ x = FolderNode(f, g, kind)
<1> DEFINE folder(g, kind) == OneIf(Holds(f, g, kind), FolderNode(f, g, kind))
           s == [g \in DOMAIN f |-> folder(g, "Queues") \o folder(g, "Services")]
           o == FoldersOf(f)
<1>1. o = FlattenSeq(s)
  BY DEF FoldersOf, Holds, FolderNode
<1>2. DOMAIN f = 1 .. Len(f) /\ Len(f) \in Nat
  BY DEF FlatOk
<1>3. ASSUME NEW g \in DOMAIN f, NEW kind \in Folders
      PROVE  /\ folder(g, kind) \in Seq(TreeNodes) /\ IsInjective(folder(g, kind))
             /\ \A x : x \in ToSet(folder(g, kind)) <=>
                           Holds(f, g, kind) /\ x = FolderNode(f, g, kind)
  <2>1. FolderNode(f, g, kind) \in TreeNodes
    <3>1. f[g] \in TreeNodes /\ g \in Nat
      BY <1>2 DEF FlatOk
    <3> QED BY <3>1 DEF FolderNode, TreeNodes, NodeKinds
  <2>2. Holds(f, g, kind) \in BOOLEAN
    BY DEF Holds
  <2>3. /\ folder(g, kind) \in Seq(TreeNodes) /\ IsInjective(folder(g, kind))
        /\ ToSet(folder(g, kind)) =
               IF Holds(f, g, kind) THEN {FolderNode(f, g, kind)} ELSE {}
    BY <2>1, <2>2, OneIfIs
  <2> HIDE DEF folder
  <2>4. CASE Holds(f, g, kind)
    BY <2>3, <2>4
  <2>5. CASE ~Holds(f, g, kind)
    BY <2>3, <2>5
  <2> QED BY <2>4, <2>5
<1>4. ASSUME NEW g \in DOMAIN f
      PROVE  /\ s[g] \in Seq(TreeNodes) /\ IsInjective(s[g])
             /\ \A x : x \in ToSet(s[g]) <=>
                    \E kind \in Folders : Holds(f, g, kind) /\ x = FolderNode(f, g, kind)
  <2> DEFINE a == folder(g, "Queues")
             b == folder(g, "Services")
  <2>1. /\ a \in Seq(TreeNodes) /\ IsInjective(a)
        /\ \A x : x \in ToSet(a) <=> Holds(f, g, "Queues") /\ x = FolderNode(f, g, "Queues")
    BY <1>3 DEF Folders
  <2>2. /\ b \in Seq(TreeNodes) /\ IsInjective(b)
        /\ \A x : x \in ToSet(b) <=> Holds(f, g, "Services") /\ x = FolderNode(f, g, "Services")
    BY <1>3 DEF Folders
  <2>3. s[g] = a \o b
    OBVIOUS
  <2>4. FolderNode(f, g, "Queues") # FolderNode(f, g, "Services")
    BY DEF FolderNode
  <2> HIDE DEF s, a, b
  <2>5. ToSet(a) \cap ToSet(b) = {}
    BY <2>1, <2>2, <2>4
  <2>6. s[g] \in Seq(TreeNodes) /\ IsInjective(s[g]) /\ ToSet(s[g]) = ToSet(a) \union ToSet(b)
    BY <2>1, <2>2, <2>3, <2>5, ConcatIs
  <2> QED BY <2>1, <2>2, <2>6 DEF Folders
<1>5. s \in Seq(Seq(TreeNodes)) /\ DOMAIN s = DOMAIN f /\ Len(s) = Len(f)
  <2>1. s = [g \in 1 .. Len(f) |-> s[g]]
    BY <1>2
  <2> HIDE DEF s
  <2> QED BY <1>2, <1>4, <2>1
<1> HIDE DEF s, o
<1>6. FlatSoFar(o, s, Len(s), TreeNodes)
  BY <1>1, <1>5, FlattenFacts
<1>7. \A x : x \in ToSet(o) <=> \E g \in DOMAIN f : x \in ToSet(s[g])
  BY <1>2, <1>5, <1>6 DEF FlatSoFar
<1>8. \A g, h \in DOMAIN f : g # h => ToSet(s[g]) \cap ToSet(s[h]) = {}
  <2> SUFFICES ASSUME NEW g \in DOMAIN f, NEW h \in DOMAIN f, NEW x,
                      x \in ToSet(s[g]), x \in ToSet(s[h])
               PROVE  g = h
    OBVIOUS
  <2>1. x.parent = g
    BY <1>4 DEF FolderNode
  <2>2. x.parent = h
    BY <1>4 DEF FolderNode
  <2> QED BY <2>1, <2>2
<1>9. o \in Seq(TreeNodes) /\ IsInjective(o)
  BY <1>4, <1>5, <1>6, <1>8 DEF FlatSoFar
<1>10. \A x : x \in ToSet(o) <=>
           \E g \in DOMAIN f, kind \in Folders : Holds(f, g, kind) /\ x = FolderNode(f, g, kind)
  <2>1. \A g \in DOMAIN f : \A x : x \in ToSet(s[g]) <=>
            \E kind \in Folders : Holds(f, g, kind) /\ x = FolderNode(f, g, kind)
    BY <1>4
  <2> HIDE DEF s
  <2>2. ASSUME NEW x, x \in ToSet(o)
        PROVE  \E g \in DOMAIN f, kind \in Folders :
                   Holds(f, g, kind) /\ x = FolderNode(f, g, kind)
    <3>1. PICK g \in DOMAIN f : x \in ToSet(s[g])
      BY <1>7, <2>2
    <3> QED BY <2>1, <3>1
  <2>3. ASSUME NEW x, NEW g \in DOMAIN f, NEW kind \in Folders,
               Holds(f, g, kind) /\ x = FolderNode(f, g, kind)
        PROVE  x \in ToSet(o)
    <3>1. x \in ToSet(s[g])
      BY <2>1, <2>3
    <3> QED BY <1>7, <3>1
  <2> QED BY <2>2, <2>3
<1> QED BY <1>9, <1>10 DEF o

\* The arena is a tree with the root group first, and a key is one node's.
ArenaOk(ns) ==
    /\ \E r : Ranked(ns, r)
    /\ ns # <<>> /\ ns[1].parent = NoNode
    /\ \A i \in DOMAIN ns : Key(ns[i]) \in Keys
    /\ \A i, j \in DOMAIN ns : Key(ns[i]) = Key(ns[j]) => i = j

\* The arena is a forest, with the root first and no key twice.
LEMMA ArenaIs ==
    ASSUME NEW flow \in Flows, flow # <<>>, NEW list \in ServiceLists \union {<<>>}
    PROVE  ArenaOk(Arena(flow, list))
<1> DEFINE f == Flat(flow, list)
           o == FoldersOf(f)
           all == f \o o
           folder(i) == CHOOSE j \in DOMAIN all : /\ all[j].parent = all[i].parent
                                                  /\ all[j].kind = FolderOf(all[i].kind)
           ns == [i \in DOMAIN all |->
                     IF FolderOf(all[i].kind) = "none" THEN all[i]
                     ELSE [all[i] EXCEPT !.parent = folder(i)]]
           N == Len(f)
<1>1. FlatOk(f) /\ f # <<>>
  BY FlatIs
<1>2. Arena(flow, list) = ns
  BY DEF Arena
<1> HIDE DEF f
<1>3. o \in Seq(TreeNodes) /\ IsInjective(o)
  BY <1>1, FoldersAre
<1>4. \A x : x \in ToSet(o) <=>
          \E g \in DOMAIN f, kind \in Folders : Holds(f, g, kind) /\ x = FolderNode(f, g, kind)
  BY <1>1, FoldersAre
<1> HIDE DEF o
<1>5. /\ N \in Nat \ {0} /\ Len(o) \in Nat /\ DOMAIN f = 1 .. N /\ DOMAIN o = 1 .. Len(o)
      /\ all \in Seq(TreeNodes) /\ DOMAIN all = 1 .. N + Len(o) /\ Len(all) = N + Len(o)
      /\ \A i \in DOMAIN f : i \in DOMAIN all /\ all[i] = f[i]
      /\ \A i \in DOMAIN o : N + i \in DOMAIN all /\ all[N + i] = o[i]
      /\ \A i \in DOMAIN all : i > N => i - N \in DOMAIN o /\ all[i] = o[i - N]
  <2>1. f \in Seq(TreeNodes)
    BY <1>1 DEF FlatOk
  <2> QED BY <1>1, <1>3, <2>1
<1> HIDE DEF all, N
<1>6. ASSUME NEW i \in DOMAIN f
      PROVE  /\ all[i] = f[i] /\ all[i].kind \notin Folders /\ all[i].kind = KindOf[all[i].id]
             /\ all[i].id \in Ids
             /\ all[i].parent \in 0 .. i - 1
             /\ IF all[i].parent = NoNode THEN IsGroup(f, i) ELSE IsGroup(f, all[i].parent)
  <2>1. f[i] \in TreeNodes /\ f[i].kind = KindOf[f[i].id]
    BY <1>1 DEF FlatOk
  <2>2. f[i].id \in Ids
    BY <2>1 DEF TreeNodes
  <2>3. KindOf[f[i].id] \notin Folders
    BY <2>2, BrowserTreeAssumption DEF Folders
  <2> QED BY <1>1, <1>5, <2>1, <2>2, <2>3 DEF FlatOk
<1>7. ASSUME NEW i \in DOMAIN all, i > N
      PROVE  \E g \in DOMAIN f, kind \in Folders :
                 Holds(f, g, kind) /\ all[i] = FolderNode(f, g, kind)
  <2>1. all[i] \in ToSet(o)
    BY <1>5, <1>7 DEF ToSet
  <2> QED BY <1>4, <2>1
\* What is in a folder finds it, after the flat list.
<1>8. ASSUME NEW i \in DOMAIN all, FolderOf(all[i].kind) # "none"
      PROVE  /\ i \in DOMAIN f /\ all[i].parent \in DOMAIN f /\ all[i].parent < i
             /\ folder(i) \in DOMAIN all /\ folder(i) > N
             /\ all[folder(i)].parent = all[i].parent
  <2>1. i \in DOMAIN f
    <3> SUFFICES ASSUME i > N PROVE FALSE
      BY <1>5
    <3>1. all[i].kind \in Folders
      BY <1>7 DEF FolderNode
    <3> QED BY <1>8, <3>1 DEF FolderOf, Folders
  <2> DEFINE g == all[i].parent
             kind == FolderOf(all[i].kind)
  <2>2. kind \in Folders
    BY <1>8 DEF FolderOf, Folders
  <2>3. g # NoNode
    BY <1>6, <1>8, <2>1 DEF IsGroup, FolderOf
  <2>4. g \in DOMAIN f /\ g < i /\ IsGroup(f, g)
    BY <1>5, <1>6, <2>1, <2>3 DEF NoNode
  <2>5. Holds(f, g, kind)
    BY <1>6, <2>1, <2>4 DEF Holds
  <2>6. FolderNode(f, g, kind) \in ToSet(o)
    BY <1>4, <2>2, <2>4, <2>5
  <2>7. PICK m \in DOMAIN o : o[m] = FolderNode(f, g, kind)
    BY <2>6 DEF ToSet
  <2>8. N + m \in DOMAIN all /\ all[N + m].parent = g /\ all[N + m].kind = kind
    BY <1>5, <2>7 DEF FolderNode
  <2>9. folder(i) \in DOMAIN all /\ all[folder(i)].parent = g /\ all[folder(i)].kind = kind
    BY <2>8
  <2> HIDE DEF folder, g, kind
  <2>10. folder(i) > N
    <3> SUFFICES ASSUME folder(i) \in DOMAIN f PROVE FALSE
      BY <1>5, <2>9
    <3> QED BY <1>6, <2>2, <2>9
  <2> QED BY <2>1, <2>4, <2>9, <2>10 DEF g
<1> HIDE DEF folder
<1>9. ASSUME NEW i \in DOMAIN all
      PROVE  /\ ns[i].id = all[i].id /\ ns[i].kind = all[i].kind /\ ns[i] \in TreeNodes
             /\ ns[i].parent = IF FolderOf(all[i].kind) = "none" THEN all[i].parent ELSE folder(i)
  <2>1. all[i] \in TreeNodes
    BY <1>5
  <2>2. CASE FolderOf(all[i].kind) = "none"
    BY <2>1, <2>2
  <2>3. CASE FolderOf(all[i].kind) # "none"
    <3>1. ns[i] = [all[i] EXCEPT !.parent = folder(i)]
      BY <2>3
    <3>2. folder(i) \in Nat
      BY <1>5, <1>8, <2>3
    <3> HIDE DEF ns
    <3> QED BY <2>1, <2>3, <3>1, <3>2 DEF TreeNodes
  <2> QED BY <2>2, <2>3
<1>10. ns \in Seq(TreeNodes) /\ DOMAIN ns = DOMAIN all /\ Len(ns) = N + Len(o)
  <2> DEFINE n == N + Len(o)
  <2>1. n \in Nat /\ DOMAIN all = 1 .. n
    BY <1>5
  <2> HIDE DEF n
  <2>2. ns = [i \in 1 .. n |-> ns[i]] /\ DOMAIN ns = DOMAIN all
    BY <2>1
  <2>3. \A i \in 1 .. n : ns[i] \in TreeNodes
    BY <1>9, <2>1
  <2> HIDE DEF ns
  <2>4. ns \in Seq(TreeNodes) /\ Len(ns) = n
    BY <2>1, <2>2, <2>3
  <2> QED BY <2>2, <2>4 DEF n
<1> HIDE DEF ns
<1> DEFINE r == [i \in 0 .. Len(ns) |-> IF i = 0 THEN 0 ELSE
                                        IF i <= N THEN 2 * i ELSE 2 * all[i].parent + 1]
<1>11. ASSUME NEW i \in DOMAIN all, i > N
       PROVE  /\ all[i].parent \in DOMAIN f /\ ns[i].parent = all[i].parent
              /\ all[i].kind \in Folders /\ all[i].id = f[all[i].parent].id
  <2>1. PICK g \in DOMAIN f, kind \in Folders : all[i] = FolderNode(f, g, kind)
    BY <1>7, <1>11
  <2>2. all[i].parent = g /\ all[i].kind = kind /\ all[i].id = f[g].id
    BY <2>1 DEF FolderNode
  <2> QED BY <1>9, <2>2 DEF FolderOf, Folders
<1>12. Ranked(ns, r)
  <2>0. /\ DOMAIN ns = 1 .. Len(ns) /\ Len(ns) \in Nat /\ N \in Nat
        /\ DOMAIN f = 1 .. N /\ DOMAIN ns = DOMAIN all
        /\ r[0] = 0
        /\ \A i \in DOMAIN f : r[i] = 2 * i
        /\ \A i \in DOMAIN all : i > N => r[i] = 2 * all[i].parent + 1
    BY <1>5, <1>10
  <2> HIDE DEF r
  <2>1. ASSUME NEW i \in DOMAIN ns
        PROVE  /\ r[i] \in 0 .. 2 * Len(ns)
               /\ ns[i].parent \in 0 .. Len(ns) /\ r[ns[i].parent] < r[i]
    <3>1. CASE i > N
      <4>1. all[i].parent \in DOMAIN f /\ ns[i].parent = all[i].parent
        BY <1>11, <2>0, <3>1
      <4> QED BY <2>0, <3>1, <4>1
    <3>2. CASE i <= N /\ FolderOf(all[i].kind) = "none"
      <4>1. ns[i].parent \in 0 .. i - 1
        BY <1>6, <1>9, <2>0, <3>2
      <4>2. ns[i].parent = 0 \/ ns[i].parent \in DOMAIN f
        BY <2>0, <3>2, <4>1
      <4> QED BY <2>0, <3>2, <4>1, <4>2
    <3>3. CASE i <= N /\ FolderOf(all[i].kind) # "none"
      <4>1. /\ all[i].parent \in DOMAIN f /\ all[i].parent < i /\ ns[i].parent = folder(i)
            /\ folder(i) \in DOMAIN all /\ folder(i) > N /\ all[folder(i)].parent = all[i].parent
        BY <1>8, <1>9, <2>0, <3>3
      <4> QED BY <2>0, <3>3, <4>1
    <3> QED BY <2>0, <3>1, <3>2, <3>3
  <2>2. r \in [0 .. Len(ns) -> 0 .. 2 * Len(ns)]
    <3>1. r = [i \in 0 .. Len(ns) |-> r[i]]
      BY DEF r
    <3>2. \A i \in 0 .. Len(ns) : r[i] \in 0 .. 2 * Len(ns)
      BY <2>0, <2>1
    <3> QED BY <3>1, <3>2
  <2> QED BY <1>10, <2>0, <2>1, <2>2 DEF Ranked, NoNode
<1> HIDE DEF r
<1>13. ns # <<>> /\ ns[1].parent = NoNode
  <2>1. 1 \in DOMAIN f /\ 1 \in DOMAIN ns
    BY <1>5, <1>10
  <2>2. all[1].parent = 0 /\ IsGroup(f, 1)
    BY <1>6, <2>1 DEF NoNode
  <2>3. FolderOf(all[1].kind) = "none"
    BY <1>6, <2>1, <2>2 DEF IsGroup, FolderOf
  <2> QED BY <1>9, <1>10, <2>1, <2>2, <2>3 DEF NoNode
<1>14. ASSUME NEW i \in DOMAIN ns PROVE Key(ns[i]) \in Keys
  <2>1. Key(ns[i]) = [id |-> all[i].id, kind |-> all[i].kind]
    BY <1>9, <1>10 DEF Key
  <2>2. CASE i \in DOMAIN f
    BY <1>6, <2>1, <2>2 DEF Keys, Components
  <2>3. CASE i > N
    <3>1. all[i].kind \in Folders /\ all[i].id = f[all[i].parent].id /\ all[i].parent \in DOMAIN f
      BY <1>10, <1>11, <2>3
    <3>2. all[i].id \in Ids
      BY <1>6, <3>1
    <3> QED BY <2>1, <3>1, <3>2 DEF Keys
  <2> QED BY <1>5, <1>10, <2>2, <2>3
<1>15. ASSUME NEW i \in DOMAIN ns, NEW j \in DOMAIN ns, Key(ns[i]) = Key(ns[j])
       PROVE  i = j
  <2>1. all[i].id = all[j].id /\ all[i].kind = all[j].kind
    BY <1>9, <1>10, <1>15 DEF Key
  <2>2. \A k, l \in DOMAIN f : f[k].id = f[l].id => k = l
    BY <1>1 DEF FlatOk, Distinct
  <2>3. CASE i \in DOMAIN f
    <3>1. j \in DOMAIN f
      BY <1>5, <1>6, <1>10, <1>11, <2>1, <2>3
    <3> QED BY <1>6, <2>1, <2>2, <2>3, <3>1
  <2>4. CASE i > N
    <3>1. j > N
      BY <1>5, <1>6, <1>10, <1>11, <2>1, <2>4
    <3>2. PICK g \in DOMAIN f, k \in Folders : all[i] = FolderNode(f, g, k)
      BY <1>7, <1>10, <2>4
    <3>3. PICK h \in DOMAIN f, l \in Folders : all[j] = FolderNode(f, h, l)
      BY <1>7, <1>10, <3>1
    <3>4. g = h /\ k = l
      BY <2>1, <2>2, <3>2, <3>3 DEF FolderNode
    <3>5. /\ i - N \in DOMAIN o /\ all[i] = o[i - N]
          /\ j - N \in DOMAIN o /\ all[j] = o[j - N]
      BY <1>5, <1>10, <2>4, <3>1
    <3>6. i - N = j - N
      BY <1>3, <3>2, <3>3, <3>4, <3>5 DEF IsInjective
    <3> QED BY <1>5, <1>10, <3>6
  <2> QED BY <1>5, <1>10, <2>3, <2>4
<1>16. ArenaOk(ns)
  BY <1>12, <1>13, <1>14, <1>15 DEF ArenaOk
<1> QED BY <1>2, <1>16

-----------------------------------------------------------------------------
(* The rows.                                                               *)

\* The arena of a new BrowserState.
LEMMA EmptyRanked == Ranked(<<>>, [i \in 0 .. 0 |-> 0])
BY DEF Ranked, NoNode

\* The rows of a walk over the whole tree.
LEMMA RowsFacts ==
    ASSUME NEW ns, \E r : Ranked(ns, r), NEW open
    PROVE  LET q == Visible(ns, open)
           IN  /\ q \in Seq(DOMAIN ns) /\ IsInjective(q) /\ Below(q, ns, NoNode)
               /\ ToSet(q) = OpenTree(ns, open)
<1> PICK r : Ranked(ns, r)
  OBVIOUS
<1> QED BY VisibleFacts, VisibleIsOpenTree DEF WalkOk

\* What is above a row is in a row before it.
LEMMA AboveIsEarlier ==
    ASSUME NEW ns, NEW r, Ranked(ns, r), NEW q \in Seq(DOMAIN ns), Below(q, ns, NoNode),
           NEW k \in DOMAIN q, NEW a \in AncestorsIn(ns, q[k])
    PROVE  \E h \in 1 .. k - 1 : q[h] = a
<1> DEFINE P == {n \in Nat : n \in DOMAIN q =>
                     \A x \in AncestorsIn(ns, q[n]) : \E h \in 1 .. n - 1 : q[h] = x}
<1>0. DOMAIN q = 1 .. Len(q) /\ Len(q) \in Nat /\ \A n \in DOMAIN q : q[n] \in DOMAIN ns
  OBVIOUS
<1>1. ASSUME NEW n \in Nat, \A m \in Nat : m < n => m \in P
      PROVE  n \in P
  <2> SUFFICES ASSUME n \in DOMAIN q, NEW x \in AncestorsIn(ns, q[n])
               PROVE  \E h \in 1 .. n - 1 : q[h] = x
    OBVIOUS
  <2>1. AncestorsIn(ns, q[n]) = IF ns[q[n]].parent = NoNode THEN {}
                                ELSE {ns[q[n]].parent} \union AncestorsIn(ns, ns[q[n]].parent)
    BY <1>0, AncestorsAre
  <2>2. ns[q[n]].parent # NoNode
    BY <2>1
  <2>3. PICK h \in 1 .. n - 1 : q[h] = ns[q[n]].parent
    BY <2>2 DEF Below
  <2>4. h \in DOMAIN q /\ h \in Nat /\ h < n
    BY <1>0, <2>3
  <2>5. CASE x = ns[q[n]].parent
    BY <2>3, <2>5
  <2>6. CASE x \in AncestorsIn(ns, q[h])
    <3>1. h \in P
      BY <1>1, <2>4
    <3>2. PICK g \in 1 .. h - 1 : q[g] = x
      BY <2>4, <2>6, <3>1
    <3>3. g \in 1 .. n - 1
      BY <2>4
    <3> QED BY <3>2, <3>3
  <2> QED BY <2>1, <2>2, <2>3, <2>5, <2>6
<1> HIDE DEF P
<1>2. P = Nat
  <2>1. P \in SUBSET Nat
    BY DEF P
  <2>2. \A n \in Nat : (\A m \in Nat : m < n => m \in P) => n \in P
    BY <1>1
  <2> QED BY <2>1, <2>2, Induction
<1>3. k \in P
  BY <1>0, <1>2
<1> QED BY <1>3 DEF P

\* A sequence without repetition is as long as its set is large.
LEMMA LenOfSet ==
    ASSUME NEW T, NEW q \in Seq(T), IsInjective(q)
    PROVE  IsFiniteSet(ToSet(q)) /\ Cardinality(ToSet(q)) = Len(q)
<1>1. DOMAIN q = 1 .. Len(q) /\ Len(q) \in Nat
  OBVIOUS
<1>2. q \in Bijection(1 .. Len(q), ToSet(q))
  <2>1. q \in [1 .. Len(q) -> ToSet(q)]
    <3>1. q = [k \in 1 .. Len(q) |-> q[k]]
      OBVIOUS
    <3>2. \A k \in 1 .. Len(q) : q[k] \in ToSet(q)
      BY <1>1 DEF ToSet
    <3> QED BY <3>1, <3>2
  <2>2. \A k, l \in 1 .. Len(q) : q[k] = q[l] => k = l
    BY <1>1 DEF IsInjective
  <2>3. \A x \in ToSet(q) : \E k \in 1 .. Len(q) : q[k] = x
    BY <1>1 DEF ToSet
  <2> QED BY <2>1, <2>2, <2>3 DEF Bijection, Injection, Surjection
<1>3. IsFiniteSet(1 .. Len(q)) /\ Cardinality(1 .. Len(q)) = Len(q)
  BY <1>1, FS_Interval
<1> QED BY <1>2, <1>3, FS_Bijection DEF ExistsBijection

\* A sequence that has each of the first n of another at all has n of them.
LEMMA LenOfPart ==
    ASSUME NEW T, NEW p \in Seq(T), NEW q \in Seq(T), IsInjective(p), IsInjective(q),
           NEW n \in 0 .. Len(p), \A k \in 1 .. n : p[k] \in ToSet(q)
    PROVE  n <= Len(q)
<1> DEFINE h == SubSeq(p, 1, n)
<1>1. /\ h \in Seq(T) /\ Len(h) = n /\ DOMAIN h = 1 .. n
      /\ \A k \in 1 .. n : k \in DOMAIN p /\ h[k] = p[k]
  OBVIOUS
<1> HIDE DEF h
<1>2. IsInjective(h)
  BY <1>1 DEF IsInjective
<1>3. ToSet(h) \subseteq ToSet(q)
  BY <1>1 DEF ToSet
<1>4. Cardinality(ToSet(h)) <= Cardinality(ToSet(q))
  BY <1>3, LenOfSet, FS_Subset
<1> QED BY <1>1, <1>2, <1>4, LenOfSet

-----------------------------------------------------------------------------
(* The invariant of the tree.                                              *)

Answers == [ok : {TRUE}, req : Requests, invalid : BOOLEAN] \cup [ok : {FALSE}]

ArenaType == nodes = <<>> \/ ArenaOk(nodes)
Shown ==
    /\ expanded \subseteq DOMAIN nodes
    /\ rows = Visible(nodes, expanded)
    /\ selected \in Nat \ {0}
    /\ nodes # <<>> => selected \in DOMAIN rows
Panes ==
    /\ focus \in 0 .. 4
    /\ DOMAIN details \subseteq DOMAIN nodes
    /\ pending \in 0 .. Len(nodes)
Wires ==
    /\ asked \in Seq(Requests) /\ Len(asked) <= MaxAsked
    /\ answers \in Seq(Answers) /\ Len(answers) <= MaxAnswers
    /\ wanted \in Requests \union {NoRequestMade}
Sources ==
    /\ status \in Flows \union {<<>>} /\ services \in ServiceLists \union {<<>>}
    /\ tab \in {"browser", "other"}
TreeInv == Sources /\ ArenaType /\ Shown /\ Panes /\ Wires

\* What every arena is.
LEMMA ArenaFacts ==
    ASSUME ArenaType
    PROVE  /\ \E r : Ranked(nodes, r)
           /\ nodes \in Seq(TreeNodes) /\ DOMAIN nodes = 1 .. Len(nodes) /\ Len(nodes) \in Nat
           /\ \A i \in DOMAIN nodes : Key(nodes[i]) \in Keys /\ nodes[i].parent \in 0 .. Len(nodes)
           /\ \A i, j \in DOMAIN nodes : Key(nodes[i]) = Key(nodes[j]) => i = j
<1>1. \E r : Ranked(nodes, r)
  BY EmptyRanked DEF ArenaType, ArenaOk
<1>2. nodes \in Seq(TreeNodes) /\ \A i \in DOMAIN nodes : nodes[i].parent \in 0 .. Len(nodes)
  BY <1>1 DEF Ranked
<1>3. DOMAIN nodes = 1 .. Len(nodes) /\ Len(nodes) \in Nat
  BY <1>2
<1>4. CASE nodes = <<>>
  <2>1. DOMAIN nodes = {}
    BY <1>4
  <2> QED BY <1>1, <1>2, <1>3, <2>1
<1>5. CASE ArenaOk(nodes)
  BY <1>1, <1>2, <1>3, <1>5 DEF ArenaOk
<1> QED BY <1>4, <1>5 DEF ArenaType

\* The rows an action computes are the open tree, whatever was opened.
LEMMA RowsOf ==
    ASSUME ArenaType, NEW open, NEW q, q = Visible(nodes, open)
    PROVE  /\ q \in Seq(DOMAIN nodes) /\ IsInjective(q) /\ Below(q, nodes, NoNode)
           /\ ToSet(q) = OpenTree(nodes, open)
           /\ DOMAIN q = 1 .. Len(q) /\ Len(q) \in Nat
<1>1. \E r : Ranked(nodes, r)
  BY ArenaFacts
<1>2. /\ q \in Seq(DOMAIN nodes) /\ IsInjective(q) /\ Below(q, nodes, NoNode)
      /\ ToSet(q) = OpenTree(nodes, open)
  BY <1>1, RowsFacts
<1>3. DOMAIN q = 1 .. Len(q) /\ Len(q) \in Nat
  BY <1>2
<1> QED BY <1>2, <1>3

\* The invariant says what is claimed of the rows.
LEMMA TreeInvGives == TreeInv => RowsAreOpenTree
<1> SUFFICES ASSUME TreeInv PROVE RowsAreOpenTree
  OBVIOUS
<1>1. ArenaType /\ rows = Visible(nodes, expanded)
  BY DEF TreeInv, Shown
<1>2. /\ rows \in Seq(DOMAIN nodes) /\ IsInjective(rows) /\ Below(rows, nodes, NoNode)
      /\ ToSet(rows) = OpenTree(nodes, expanded) /\ DOMAIN rows = 1 .. Len(rows)
      /\ Len(rows) \in Nat
  BY <1>1, RowsOf
<1>3. TreeTypeOK
  <2>1. /\ \A i \in DOMAIN nodes : Key(nodes[i]) \in Keys /\ nodes[i].parent \in 0 .. Len(nodes)
        /\ \A i, j \in DOMAIN nodes : Key(nodes[i]) = Key(nodes[j]) => i = j
    BY <1>1, ArenaFacts
  <2> QED BY <2>1 DEF TreeInv, Sources, Shown, Panes, Wires, TreeTypeOK
<1>4. ToSet(rows) = {i \in DOMAIN nodes : AncestorsIn(nodes, i) \subseteq expanded}
  BY <1>2 DEF OpenTree
<1>5. Cardinality(ToSet(rows)) = Len(rows)
  BY <1>2, LenOfSet
<1>6. \A k \in DOMAIN rows : nodes[rows[k]].parent # NoNode =>
          \E h \in 1 .. k - 1 : rows[h] = nodes[rows[k]].parent
  BY <1>2 DEF Below
<1>7. nodes # <<>> => selected \in DOMAIN rows
  BY DEF TreeInv, Shown
<1> QED BY <1>3, <1>4, <1>5, <1>6, <1>7 DEF RowsAreOpenTree

-----------------------------------------------------------------------------
\* Opening nodes hides no row.
LEMMA ExpandShows ==
    ASSUME ArenaType, Shown, NEW is \in SUBSET DOMAIN nodes, Expand(is)
    PROVE  /\ expanded' \subseteq DOMAIN nodes
           /\ rows' = Visible(nodes, expanded')
           /\ Len(rows) <= Len(rows')
<1>1. expanded' = expanded \union is /\ rows' = Visible(nodes, expanded')
  BY DEF Expand
<1>2. /\ rows \in Seq(DOMAIN nodes) /\ IsInjective(rows) /\ DOMAIN rows = 1 .. Len(rows)
      /\ ToSet(rows) = OpenTree(nodes, expanded) /\ Len(rows) \in Nat
  BY RowsOf DEF Shown
<1>3. /\ rows' \in Seq(DOMAIN nodes) /\ IsInjective(rows')
      /\ ToSet(rows') = OpenTree(nodes, expanded')
  BY <1>1, RowsOf
<1>4. OpenTree(nodes, expanded) \subseteq OpenTree(nodes, expanded')
  BY <1>1 DEF OpenTree
<1>5. \A k \in 1 .. Len(rows) : rows[k] \in ToSet(rows')
  BY <1>2, <1>3, <1>4 DEF ToSet
<1>6. Len(rows) \in 0 .. Len(rows)
  BY <1>2
<1>7. Len(rows) <= Len(rows')
  BY <1>2, <1>3, <1>5, <1>6, LenOfPart
<1> QED BY <1>1, <1>7 DEF Shown

\* Closing the selected node keeps the rows up to it: it is above none of them.
LEMMA CollapseShows ==
    ASSUME ArenaType, Shown, nodes # <<>>, Collapse(Current)
    PROVE  /\ expanded' \subseteq DOMAIN nodes
           /\ rows' = Visible(nodes, expanded')
           /\ selected <= Len(rows')
<1>1. expanded' = expanded \ {Current} /\ rows' = Visible(nodes, expanded')
  BY DEF Collapse
<1>2. /\ rows \in Seq(DOMAIN nodes) /\ IsInjective(rows) /\ DOMAIN rows = 1 .. Len(rows)
      /\ ToSet(rows) = OpenTree(nodes, expanded) /\ Len(rows) \in Nat
      /\ Below(rows, nodes, NoNode)
  BY RowsOf DEF Shown
<1>3. /\ rows' \in Seq(DOMAIN nodes) /\ IsInjective(rows')
      /\ ToSet(rows') = OpenTree(nodes, expanded')
  BY <1>1, RowsOf
<1>4. selected \in 1 .. Len(rows) /\ selected \in DOMAIN rows
  BY <1>2 DEF Shown
<1>5. ASSUME NEW k \in 1 .. selected
      PROVE  rows[k] \in ToSet(rows')
  <2>1. k \in DOMAIN rows /\ k <= selected
    BY <1>2, <1>4
  <2>2. rows[k] \in DOMAIN nodes /\ AncestorsIn(nodes, rows[k]) \subseteq expanded
    BY <1>2, <2>1 DEF OpenTree, ToSet
  <2>3. Current \notin AncestorsIn(nodes, rows[k])
    <3> SUFFICES ASSUME Current \in AncestorsIn(nodes, rows[k]) PROVE FALSE
      OBVIOUS
    <3>1. PICK r : Ranked(nodes, r)
      BY ArenaFacts
    <3>2. PICK h \in 1 .. k - 1 : rows[h] = Current
      BY <1>2, <2>1, <3>1, AboveIsEarlier
    <3>3. h \in DOMAIN rows /\ h # selected
      BY <1>2, <1>4, <2>1
    <3> QED BY <1>2, <1>4, <3>2, <3>3 DEF IsInjective, Current
  <2> QED BY <1>1, <1>3, <2>2, <2>3 DEF OpenTree
<1>6. selected \in 0 .. Len(rows)
  BY <1>4
<1>7. selected <= Len(rows')
  BY <1>2, <1>3, <1>5, <1>6, LenOfPart
<1> QED BY <1>1, <1>7 DEF Shown

\* The rows an action leaves, and where the selection may go.
RowsNext ==
    /\ expanded' \subseteq DOMAIN nodes
    /\ rows' = Visible(nodes, expanded')
    /\ selected \in 1 .. Len(rows')

\* select_node goes to a row or stays where it is.
LEMMA SelectStays ==
    ASSUME ArenaType, RowsNext, NEW i, SelectNode(i)
    PROVE  selected' \in 1 .. Len(rows')
<1>1. DOMAIN rows' = 1 .. Len(rows')
  BY RowsOf DEF RowsNext
<1>2. CASE i \in ToSet(rows')
  <2>1. selected' = Position(rows', i)
    BY <1>2 DEF SelectNode
  <2>2. \E k \in DOMAIN rows' : rows'[k] = i
    BY <1>2 DEF ToSet
  <2>3. Position(rows', i) \in DOMAIN rows'
    BY <2>2 DEF Position
  <2> QED BY <1>1, <2>1, <2>3
<1>3. CASE i \notin ToSet(rows')
  BY <1>3 DEF SelectNode, RowsNext
<1> QED BY <1>2, <1>3

LEMMA ExpandStays ==
    ASSUME ArenaType, Shown, nodes # <<>>, NEW is \in SUBSET DOMAIN nodes, Expand(is)
    PROVE  RowsNext
<1>1. selected \in 1 .. Len(rows) /\ Len(rows) \in Nat
  BY RowsOf DEF Shown
<1>2. /\ rows' = Visible(nodes, expanded') /\ Len(rows) <= Len(rows')
      /\ expanded' \subseteq DOMAIN nodes
  BY ExpandShows
<1>3. Len(rows') \in Nat
  BY <1>2, RowsOf
<1> QED BY <1>1, <1>2, <1>3 DEF RowsNext

LEMMA CollapseStays ==
    ASSUME ArenaType, Shown, nodes # <<>>, Collapse(Current)
    PROVE  RowsNext
<1>1. selected \in 1 .. Len(rows) /\ Len(rows) \in Nat
  BY RowsOf DEF Shown
<1>2. /\ rows' = Visible(nodes, expanded') /\ selected <= Len(rows')
      /\ expanded' \subseteq DOMAIN nodes
  BY CollapseShows
<1>3. Len(rows') \in Nat
  BY <1>2, RowsOf
<1> QED BY <1>1, <1>2, <1>3 DEF RowsNext

LEMMA SameStays ==
    ASSUME ArenaType, Shown, nodes # <<>>, UNCHANGED <<expanded, rows>>
    PROVE  RowsNext
<1>1. selected \in 1 .. Len(rows)
  BY RowsOf DEF Shown
<1> QED BY <1>1 DEF RowsNext, Shown

\* A key's step as far as the rows and the selection go.
RowsStep == RowsNext /\ selected' \in 1 .. Len(rows')

\* A key leaves a selected row, and the row names a node.
LEMMA RowsStepShows ==
    ASSUME ArenaType, RowsStep, nodes' = nodes
    PROVE  Shown' /\ (nodes # <<>> => rows'[selected'] \in DOMAIN nodes)
<1>1. rows' \in Seq(DOMAIN nodes) /\ DOMAIN rows' = 1 .. Len(rows') /\ Len(rows') \in Nat
  BY RowsOf DEF RowsStep, RowsNext
<1>2. selected' \in DOMAIN rows' /\ selected' \in Nat \ {0}
  BY <1>1 DEF RowsStep
<1>3. rows'[selected'] \in DOMAIN nodes
  BY <1>1, <1>2
<1> QED BY <1>2, <1>3 DEF RowsStep, RowsNext, Shown

\* The selected row names a node.
LEMMA CurrentIs ==
    ASSUME ArenaType, Shown, nodes # <<>>
    PROVE  Current \in DOMAIN nodes /\ selected \in 1 .. Len(rows)
<1>1. rows \in Seq(DOMAIN nodes) /\ DOMAIN rows = 1 .. Len(rows)
  BY RowsOf DEF Shown
<1> QED BY <1>1 DEF Shown, Current

\* A walk needs a tree to go over.
LEMMA RowsNeedNodes ==
    ASSUME ArenaType, Shown, rows # <<>>
    PROVE  nodes # <<>>
<1> SUFFICES ASSUME nodes = <<>> PROVE FALSE
  OBVIOUS
<1>1. rows \in Seq(DOMAIN nodes)
  BY RowsOf DEF Shown
<1>2. DOMAIN nodes = {}
  OBVIOUS
<1>3. \A k \in DOMAIN rows : rows[k] \in DOMAIN nodes
  BY <1>1
<1>4. DOMAIN rows = {}
  BY <1>2, <1>3
<1> QED BY <1>1, <1>4

-----------------------------------------------------------------------------
\* enter_selection.
LEMMA EnterStays ==
    ASSUME ArenaType, Shown, nodes # <<>>, EnterSelection
    PROVE  RowsStep
<1>1. CASE CurrentKind = "Group"
  <2>1. Expand({Current})
    BY <1>1 DEF EnterSelection
  <2>2. \E i : SelectNode(i)
    BY <1>1 DEF EnterSelection
  <2>3. RowsNext
    <3>1. {Current} \in SUBSET DOMAIN nodes
      BY CurrentIs
    <3> QED BY <2>1, <3>1, ExpandStays
  <2> QED BY <2>2, <2>3, SelectStays DEF RowsStep
<1>2. CASE CurrentKind # "Group"
  <2>1. UNCHANGED <<expanded, rows, selected>>
    BY <1>2 DEF EnterSelection
  <2> QED BY <2>1, SameStays DEF RowsStep, RowsNext
<1> QED BY <1>1, <1>2

\* backspace_selection.
LEMMA BackspaceStays ==
    ASSUME ArenaType, Shown, nodes # <<>>, BackspaceSelection
    PROVE  RowsStep
<1>1. CASE CurrentKind = "Group" /\ Current \in expanded
  <2>1. Collapse(Current) /\ SelectNode(Current)
    BY <1>1 DEF BackspaceSelection
  <2> QED BY <2>1, CollapseStays, SelectStays DEF RowsStep
<1>2. CASE ~(CurrentKind = "Group" /\ Current \in expanded)
  <2>1. UNCHANGED <<expanded, rows>> /\ SelectNode(nodes[Current].parent)
    BY <1>2 DEF BackspaceSelection
  <2> QED BY <2>1, SameStays, SelectStays DEF RowsStep
<1> QED BY <1>1, <1>2

\* A folder opens and closes under the selection.
LEMMA ToggleStays ==
    ASSUME ArenaType, Shown, nodes # <<>>, Expand({Current}) \/ Collapse(Current),
           UNCHANGED selected
    PROVE  RowsStep
<1>1. CASE Expand({Current})
  <2>1. {Current} \in SUBSET DOMAIN nodes
    BY CurrentIs
  <2>2. RowsNext
    BY <1>1, <2>1, ExpandStays
  <2> QED BY <2>2 DEF RowsStep, RowsNext
<1>2. CASE Collapse(Current)
  <2>1. RowsNext
    BY <1>2, CollapseStays
  <2> QED BY <2>1 DEF RowsStep, RowsNext
<1> QED BY <1>1, <1>2

\* The ancestors of a node are nodes.
LEMMA RevealStays ==
    ASSUME ArenaType, Shown, NEW i \in DOMAIN nodes, Reveal(i)
    PROVE  RowsStep
<1>1. nodes # <<>>
  OBVIOUS
<1>2. AncestorsIn(nodes, i) \in SUBSET DOMAIN nodes
  <2>1. PICK r : Ranked(nodes, r)
    BY ArenaFacts
  <2> QED BY <2>1, AncestorsRank
<1>3. Expand(AncestorsIn(nodes, i)) /\ SelectNode(i)
  BY DEF Reveal
<1>4. RowsNext
  BY <1>1, <1>2, <1>3, ExpandStays
<1> QED BY <1>3, <1>4, SelectStays DEF RowsStep

-----------------------------------------------------------------------------
\* A request is made for a node of the arena.
LEMMA EmitOk ==
    ASSUME BrowserTreeAssumption, ArenaType, Wires, Emit, rows'[selected'] \in DOMAIN nodes,
           UNCHANGED answers
    PROVE  Wires' /\ pending' \in 0 .. Len(nodes)
<1> DEFINE now == rows'[selected']
           req == [at |-> now, key |-> Key(nodes[now])]
<1>0. /\ DOMAIN nodes = 1 .. Len(nodes) /\ Len(nodes) \in Nat
      /\ now \in DOMAIN nodes
      /\ \A i \in DOMAIN nodes : Key(nodes[i]) \in Keys
  BY ArenaFacts
<1>1. CASE IsFolder(nodes[now].kind)
  <2>1. pending' = NoNode /\ wanted' = NoRequestMade /\ UNCHANGED asked
    BY <1>1 DEF Emit
  <2> QED BY <1>0, <2>1 DEF Wires, NoNode
<1>2. CASE ~IsFolder(nodes[now].kind)
  <2>1. /\ Len(asked) + Len(answers) < MaxAsked
        /\ pending' = now /\ asked' = Append(asked, req) /\ wanted' = req
    BY <1>2 DEF Emit
  <2>2. req \in Requests
    <3>1. Key(nodes[now]) \in Keys /\ now \in Nat
      BY <1>0
    <3> HIDE DEF now
    <3> QED BY <3>1 DEF Requests
  <2>3. pending' \in 0 .. Len(nodes)
    BY <1>0, <2>1
  <2> HIDE DEF req, now
  <2>4. asked \in Seq(Requests) /\ answers \in Seq(Answers) /\ MaxAsked \in Nat
    BY DEF Wires, BrowserTreeAssumption
  <2>5. asked' \in Seq(Requests) /\ Len(asked') = Len(asked) + 1
    BY <2>1, <2>2, <2>4
  <2>6. Len(asked') <= MaxAsked
    <3>1. Len(answers) \in Nat /\ Len(asked) \in Nat
      BY <2>4
    <3> QED BY <2>1, <2>4, <2>5, <3>1
  <2> QED BY <2>1, <2>2, <2>3, <2>5, <2>6 DEF Wires
<1> QED BY <1>1, <1>2

\* The sections a pane can have.
LEMMA SectionCounts ==
    \A kind : /\ Len(ForNode(kind)) \in 0 .. 3
              /\ ForNode(kind) # <<>> => Len(ForNode(kind)) \in 1 .. 3
              /\ \A invalid : Len(ForNodeDetail(kind, invalid)) \in 0 .. 4
<1> TAKE kind
<1>1. Len(ForNode(kind)) \in 0 .. 3 /\ (ForNode(kind) # <<>> => Len(ForNode(kind)) \in 1 .. 3)
  BY DEF ForNode
<1>2. ASSUME NEW invalid PROVE Len(ForNodeDetail(kind, invalid)) \in 0 .. 4
  <2>1. CASE kind = "Processor" /\ invalid
    <3>1. ForNodeDetail(kind, invalid) =
              InsertAt(<<"Properties", "Connections", "Bulletins">>, 2, "ValidationErrors")
      BY <2>1 DEF ForNodeDetail, ForNode
    <3> QED BY <3>1 DEF InsertAt
  <2>2. CASE kind = "Service" /\ invalid
    <3>1. ForNodeDetail(kind, invalid) =
              InsertAt(<<"Properties", "References", "Bulletins">>, 2, "ValidationErrors")
      BY <2>2 DEF ForNodeDetail, ForNode
    <3> QED BY <3>1 DEF InsertAt
  <2>3. CASE kind = "RemoteGroup" /\ invalid
    <3>1. ForNodeDetail(kind, invalid) = <<"ValidationErrors">> \o <<"InputPorts", "OutputPorts">>
      BY <2>3 DEF ForNodeDetail, ForNode
    <3> QED BY <3>1
  <2>4. CASE ~(kind \in {"Processor", "Service", "RemoteGroup"} /\ invalid)
    <3>1. ForNodeDetail(kind, invalid) = ForNode(kind)
      BY <2>4 DEF ForNodeDetail
    <3> QED BY <1>1, <3>1
  <2> QED BY <2>1, <2>2, <2>3, <2>4
<1> QED BY <1>1, <1>2

\* A key or a jump: the rows and the selection keep up, and the request the
\* handler makes, if it makes one, is for a node of the arena.
LEMMA KeyStep ==
    ASSUME BrowserTreeAssumption, TreeInv, nodes # <<>>,
           UNCHANGED <<status, services, nodes, details, answers>>,
           tab' \in {"browser", "other"}, RowsStep, focus' \in 0 .. 4, Emit \/ NoRequest
    PROVE  TreeInv'
<1>1. ArenaType /\ Wires /\ Panes /\ Sources
  BY DEF TreeInv
<1>2. Shown' /\ rows'[selected'] \in DOMAIN nodes
  BY <1>1, RowsStepShows
<1>3. Wires' /\ pending' \in 0 .. Len(nodes)
  <2>1. CASE Emit
    BY <1>1, <1>2, <2>1, EmitOk
  <2>2. CASE NoRequest
    BY <1>1, <2>2 DEF NoRequest, Wires, Panes
  <2> QED BY <2>1, <2>2
<1>4. Sources' /\ ArenaType' /\ Panes'
  BY <1>1, <1>3 DEF Sources, ArenaType, ArenaOk, Ranked, Key, Panes
<1> QED BY <1>2, <1>3, <1>4 DEF TreeInv

\* What a key in the tree or in a section starts from.
LEMMA KeyStarts ==
    ASSUME TreeInv, rows # <<>>
    PROVE  /\ nodes # <<>> /\ ArenaType /\ Shown
           /\ focus \in 0 .. 4 /\ tab \in {"browser", "other"}
           /\ selected \in 1 .. Len(rows) /\ Len(rows) \in Nat
           /\ UNCHANGED <<expanded, rows>> => RowsNext
<1>1. /\ ArenaType /\ Shown /\ focus \in 0 .. 4 /\ tab \in {"browser", "other"}
  BY DEF TreeInv, Panes, Sources
<1>2. nodes # <<>>
  BY <1>1, RowsNeedNodes
<1>3. selected \in 1 .. Len(rows) /\ Len(rows) \in Nat
  BY <1>1, <1>2, CurrentIs, RowsOf DEF Shown
<1> QED BY <1>1, <1>2, <1>3, SameStays

LEMMA MoveOk ==
    ASSUME BrowserTreeAssumption, TreeInv, Move
    PROVE  TreeInv'
<1>1. rows # <<>> /\ UNCHANGED <<expanded, rows, focus>> /\ Emit /\ KeyDone
  BY DEF Move, InTree
<1>2. /\ nodes # <<>> /\ RowsNext /\ focus \in 0 .. 4 /\ tab \in {"browser", "other"}
      /\ ArenaType /\ Shown
  BY <1>1, KeyStarts
<1>3. selected' \in 1 .. Len(rows')
  <2>1. selected \in 1 .. Len(rows) /\ Len(rows) \in Nat /\ DOMAIN rows = 1 .. Len(rows)
    BY <1>1, <1>2, KeyStarts, RowsOf DEF Shown
  <2>2. selected' \in {1, Len(rows)} \union {k \in DOMAIN rows : k \in {selected - 1, selected + 1}}
    BY DEF Move
  <2>3. selected' \in 1 .. Len(rows)
    BY <2>1, <2>2
  <2> QED BY <1>1, <2>3
<1> QED BY <1>1, <1>2, <1>3, KeyStep DEF KeyDone, RowsStep

LEMMA RightOk ==
    ASSUME BrowserTreeAssumption, TreeInv, Right
    PROVE  TreeInv'
<1>1. rows # <<>> /\ UNCHANGED focus /\ KeyDone
  BY DEF Right, InTree
<1>2. nodes # <<>> /\ ArenaType /\ Shown /\ focus \in 0 .. 4 /\ tab \in {"browser", "other"}
  BY <1>1, KeyStarts
<1>3. RowsStep /\ (Emit \/ NoRequest)
  <2>1. CASE IsFolder(CurrentKind)
    <3>1. Expand({Current}) /\ UNCHANGED selected /\ NoRequest
      BY <2>1 DEF Right
    <3> QED BY <1>2, <3>1, ToggleStays
  <2>2. CASE ~IsFolder(CurrentKind)
    <3>1. EnterSelection /\ Emit
      BY <2>2 DEF Right
    <3> QED BY <1>2, <3>1, EnterStays
  <2> QED BY <2>1, <2>2
<1> QED BY <1>1, <1>2, <1>3, KeyStep DEF KeyDone

LEMMA LeftOk ==
    ASSUME BrowserTreeAssumption, TreeInv, Left
    PROVE  TreeInv'
<1>1. rows # <<>> /\ UNCHANGED focus /\ KeyDone
  BY DEF Left, InTree
<1>2. nodes # <<>> /\ ArenaType /\ Shown /\ focus \in 0 .. 4 /\ tab \in {"browser", "other"}
  BY <1>1, KeyStarts
<1>3. RowsStep /\ (Emit \/ NoRequest)
  <2>1. CASE IsFolder(CurrentKind)
    <3>1. Collapse(Current) /\ UNCHANGED selected /\ NoRequest
      BY <2>1 DEF Left
    <3> QED BY <1>2, <3>1, ToggleStays
  <2>2. CASE ~IsFolder(CurrentKind)
    <3>1. BackspaceSelection /\ Emit
      BY <2>2 DEF Left
    <3> QED BY <1>2, <3>1, BackspaceStays
  <2> QED BY <2>1, <2>2
<1> QED BY <1>1, <1>2, <1>3, KeyStep DEF KeyDone

LEMMA AscendOk ==
    ASSUME BrowserTreeAssumption, TreeInv, Ascend
    PROVE  TreeInv'
<1>1. rows # <<>> /\ UNCHANGED focus /\ KeyDone /\ BackspaceSelection /\ Emit
  BY DEF Ascend, InTree
<1>2. nodes # <<>> /\ ArenaType /\ Shown /\ focus \in 0 .. 4 /\ tab \in {"browser", "other"}
  BY <1>1, KeyStarts
<1>3. RowsStep
  BY <1>1, <1>2, BackspaceStays
<1> QED BY <1>1, <1>2, <1>3, KeyStep DEF KeyDone

LEMMA DescendOk ==
    ASSUME BrowserTreeAssumption, TreeInv, Descend
    PROVE  TreeInv'
<1>1. rows # <<>> /\ KeyDone
  BY DEF Descend, InTree
<1>2. nodes # <<>> /\ ArenaType /\ Shown /\ focus \in 0 .. 4 /\ tab \in {"browser", "other"}
  BY <1>1, KeyStarts
<1>3. RowsStep /\ focus' \in 0 .. 4 /\ (Emit \/ NoRequest)
  <2>1. CASE /\ IF Current \in expanded THEN Collapse(Current) ELSE Expand({Current})
             /\ UNCHANGED <<selected, focus>> /\ NoRequest
    BY <1>2, <2>1, ToggleStays
  <2>2. CASE EnterSelection /\ Emit /\ UNCHANGED focus
    BY <1>2, <2>2, EnterStays
  <2>3. CASE focus' = 1 /\ UNCHANGED <<expanded, rows, selected>> /\ NoRequest
    <3>1. RowsNext
      BY <1>1, <2>3, KeyStarts
    <3> QED BY <2>3, <3>1 DEF RowsStep, RowsNext
  <2> QED BY <2>1, <2>2, <2>3 DEF Descend
<1> QED BY <1>1, <1>2, <1>3, KeyStep DEF KeyDone

LEMMA IntoSectionsOk ==
    ASSUME BrowserTreeAssumption, TreeInv, IntoSections
    PROVE  TreeInv'
<1>1. rows # <<>> /\ KeyDone /\ NoRequest /\ UNCHANGED <<expanded, rows, selected>>
  BY DEF IntoSections, InTree
<1>2. nodes # <<>> /\ RowsNext /\ tab \in {"browser", "other"}
  BY <1>1, KeyStarts
<1>3. RowsStep
  BY <1>1, <1>2 DEF RowsStep, RowsNext
<1>4. focus' \in 0 .. 4
  <2> DEFINE n == Len(ForNode(CurrentKind))
  <2>1. n \in 1 .. 3
    BY SectionCounts DEF IntoSections
  <2>2. focus' \in {1, n}
    BY DEF IntoSections
  <2> HIDE DEF n
  <2> QED BY <2>1, <2>2
<1> QED BY <1>1, <1>2, <1>3, <1>4, KeyStep DEF KeyDone

LEMMA AmongSectionsOk ==
    ASSUME BrowserTreeAssumption, TreeInv, AmongSections
    PROVE  TreeInv'
<1>1. rows # <<>> /\ focus # 0 /\ KeyDone /\ NoRequest /\ UNCHANGED <<expanded, rows, selected>>
  BY DEF AmongSections, InSection
<1>2. nodes # <<>> /\ RowsNext /\ tab \in {"browser", "other"} /\ focus \in 0 .. 4
  BY <1>1, KeyStarts
<1>3. RowsStep
  BY <1>1, <1>2 DEF RowsStep, RowsNext
<1>4. focus' \in 0 .. 4
  <2> DEFINE n == Len(SectionsNow)
  <2>1. n \in 0 .. 4
    BY SectionCounts DEF SectionsNow
  <2>2. \/ focus' = 0
        \/ focus < n /\ focus' = focus + 1
        \/ focus' = focus - 1
    BY DEF AmongSections
  <2> HIDE DEF n
  <2> QED BY <1>1, <1>2, <2>1, <2>2
<1> QED BY <1>1, <1>2, <1>3, <1>4, KeyStep DEF KeyDone

LEMMA DrillOk ==
    ASSUME BrowserTreeAssumption, TreeInv, Drill
    PROVE  TreeInv'
<1>1. rows # <<>> /\ KeyDone /\ Emit /\ focus' = 0 /\ \E i \in DOMAIN nodes : Reveal(i)
  BY DEF Drill, InSection
<1>0. focus' \in 0 .. 4
  BY <1>1
<1>2. nodes # <<>> /\ ArenaType /\ Shown /\ tab \in {"browser", "other"}
  BY <1>1, KeyStarts
<1>3. RowsStep
  BY <1>1, <1>2, RevealStays
<1> QED BY <1>0, <1>1, <1>2, <1>3, KeyStep DEF KeyDone

-----------------------------------------------------------------------------
\* A jump finds the node, or changes the tab alone.
LEMMA JumpOk ==
    ASSUME BrowserTreeAssumption, TreeInv, Jump
    PROVE  TreeInv'
<1>1. tab' = "browser" /\ UNCHANGED <<status, services, nodes, focus, details, answers>>
  BY DEF Jump
<1>2. ArenaType /\ Shown /\ focus \in 0 .. 4
  BY DEF TreeInv, Panes
<1>3. CASE \E i \in DOMAIN nodes : Reveal(i) /\ Emit
  <2>1. PICK i \in DOMAIN nodes : Reveal(i) /\ Emit
    BY <1>3
  <2>2. nodes # <<>>
    OBVIOUS
  <2>3. RowsStep
    BY <1>2, <2>1, RevealStays
  <2> QED BY <1>1, <1>2, <2>1, <2>2, <2>3, KeyStep
<1>4. CASE UNCHANGED <<expanded, rows, selected>> /\ NoRequest
  BY <1>1, <1>4 DEF NoRequest, TreeInv, Sources, ArenaType, ArenaOk, Ranked, Key, Shown,
                    Panes, Wires
<1> QED BY <1>3, <1>4 DEF Jump

\* Polls and tab changes leave the arena alone.
LEMMA OutsideOk ==
    ASSUME BrowserTreeAssumption, TreeInv, PollFlow \/ ShowTab \/ LeaveTab
    PROVE  TreeInv'
<1>1. /\ UNCHANGED <<nodes, expanded, rows, selected, focus, details, pending, answers>>
      /\ Sources'
  BY DEF PollFlow, ShowTab, LeaveTab, tree, TreeInv, Sources
<1>2. Wires'
  <2>1. CASE PollFlow \/ ShowTab
    BY <2>1 DEF PollFlow, ShowTab, TreeInv, Wires
  <2>2. CASE LeaveTab
    <3>1. asked' = <<>> /\ wanted' = NoRequestMade
      BY <2>2 DEF LeaveTab
    <3> QED BY <1>1, <3>1 DEF TreeInv, Wires, BrowserTreeAssumption
  <2> QED BY <2>1, <2>2
<1> QED BY <1>1, <1>2 DEF TreeInv, ArenaType, ArenaOk, Ranked, Key, Shown, Panes

\* An answer echoes the request it answers.
LEMMA WorkerOk ==
    ASSUME BrowserTreeAssumption, TreeInv, Worker
    PROVE  TreeInv'
<1>1. asked # <<>> /\ \E a \in Answers : Answer(a)
  <2>1. asked # <<>>
    BY DEF Worker, AnswerOk, AnswerErr
  <2>2. Head(asked) \in Requests
    BY <2>1 DEF TreeInv, Wires
  <2>3. CASE AnswerOk
    <3>1. PICK invalid \in BOOLEAN :
              Answer([ok |-> TRUE, req |-> Head(asked), invalid |-> invalid])
      BY <2>3 DEF AnswerOk
    <3>2. [ok |-> TRUE, req |-> Head(asked), invalid |-> invalid] \in Answers
      BY <2>2 DEF Answers
    <3> QED BY <2>1, <3>1, <3>2
  <2>4. CASE AnswerErr
    <3>1. [ok |-> FALSE] \in Answers
      BY DEF Answers
    <3> QED BY <2>1, <2>4, <3>1 DEF AnswerErr
  <2> QED BY <2>3, <2>4 DEF Worker
<1>2. PICK a \in Answers : Answer(a)
  BY <1>1
<1>3. /\ Len(answers) < MaxAnswers /\ asked' = Tail(asked) /\ answers' = Append(answers, a)
      /\ UNCHANGED <<status, services, tab, nodes, expanded, rows, selected, focus,
                     details, pending, wanted>>
  BY <1>2 DEF Answer, tree
<1>4. Wires'
  <2>1. asked \in Seq(Requests) /\ Len(asked) <= MaxAsked /\ answers \in Seq(Answers)
        /\ MaxAsked \in Nat /\ MaxAnswers \in Nat /\ wanted \in Requests \union {NoRequestMade}
    BY DEF TreeInv, Wires, BrowserTreeAssumption
  <2>2. asked' \in Seq(Requests) /\ Len(asked') = Len(asked) - 1
    BY <1>1, <1>3, <2>1
  <2>3. answers' \in Seq(Answers) /\ Len(answers') = Len(answers) + 1
    BY <1>3, <2>1
  <2>4. Len(asked) \in Nat /\ Len(answers) \in Nat
    BY <2>1
  <2> QED BY <1>3, <2>1, <2>2, <2>3, <2>4 DEF Wires
<1> QED BY <1>3, <1>4 DEF TreeInv, Sources, ArenaType, ArenaOk, Ranked, Key, Shown, Panes

\* A detail is stored under the index its request was made for.
LEMMA StoredAt ==
    ASSUME TakeAnswer, Head(answers).ok, StillNames(Head(answers).req, nodes)
    PROVE  /\ DOMAIN details' = DOMAIN details \union {Head(answers).req.at}
           /\ pending' = IF pending = Head(answers).req.at THEN NoNode ELSE pending
<1> DEFINE a == Head(answers)
<1>1. details' = [i \in DOMAIN details \union {a.req.at} |->
                     IF i = a.req.at
                     THEN [key |-> a.req.key, invalid |-> a.invalid]
                     ELSE details[i]]
  BY DEF TakeAnswer
<1>2. pending' = IF pending = a.req.at THEN NoNode ELSE pending
  BY DEF TakeAnswer
<1> QED BY <1>1, <1>2

LEMMA TakeAnswerOk ==
    ASSUME BrowserTreeAssumption, TreeInv, TakeAnswer
    PROVE  TreeInv'
<1> DEFINE a == Head(answers)
<1>1. /\ answers # <<>> /\ answers' = Tail(answers)
      /\ UNCHANGED <<status, services, tab, nodes, expanded, rows, selected, focus,
                     asked, wanted>>
  BY DEF TakeAnswer, tree
<1>2. Panes'
  <2>1. CASE a.ok /\ StillNames(a.req, nodes)
    <3>1. /\ DOMAIN details' = DOMAIN details \union {a.req.at}
          /\ pending' = IF pending = a.req.at THEN NoNode ELSE pending
      BY <2>1, StoredAt
    <3>2. a.req.at \in DOMAIN nodes
      BY <2>1 DEF StillNames
    <3> HIDE DEF a
    <3>3. pending' \in {NoNode, pending}
      BY <3>1
    <3>4. Len(nodes) \in Nat
      BY ArenaFacts DEF TreeInv
    <3> QED BY <1>1, <3>1, <3>2, <3>3, <3>4 DEF TreeInv, Panes, NoNode
  <2>2. CASE ~(a.ok /\ StillNames(a.req, nodes))
    <3>1. UNCHANGED <<details, pending>>
      BY <2>2 DEF TakeAnswer
    <3> QED BY <1>1, <3>1 DEF TreeInv, Panes
  <2> QED BY <2>1, <2>2
<1>3. Wires'
  <2>1. answers \in Seq(Answers) /\ MaxAnswers \in Nat /\ Len(answers) <= MaxAnswers
    BY DEF TreeInv, Wires, BrowserTreeAssumption
  <2>2. answers' \in Seq(Answers) /\ Len(answers') <= MaxAnswers
    BY <1>1, <2>1
  <2> QED BY <1>1, <2>2 DEF TreeInv, Wires
<1> QED BY <1>1, <1>2, <1>3 DEF TreeInv, Sources, ArenaType, ArenaOk, Ranked, Key, Shown

\* The first row is the root: nothing is above it.
LEMMA RootShows ==
    ASSUME NEW ns, ArenaOk(ns), NEW open
    PROVE  LET q == Visible(ns, open)
           IN  1 \in DOMAIN q /\ DOMAIN q = 1 .. Len(q) /\ Len(q) \in Nat
<1> DEFINE q == Visible(ns, open)
<1>1. PICK r : Ranked(ns, r)
  BY DEF ArenaOk
<1>2. q \in Seq(DOMAIN ns) /\ ToSet(q) = OpenTree(ns, open)
  BY <1>1, RowsFacts
<1> HIDE DEF q
<1>3. DOMAIN q = 1 .. Len(q) /\ Len(q) \in Nat
  BY <1>2
<1>4. 1 \in DOMAIN ns
  <2>1. ns \in Seq(TreeNodes) /\ ns # <<>>
    BY <1>1 DEF Ranked, ArenaOk
  <2> QED BY <2>1
<1>5. AncestorsIn(ns, 1) = {}
  BY <1>1, <1>4, AncestorsAre DEF ArenaOk
<1>6. 1 \in ToSet(q)
  BY <1>2, <1>4, <1>5 DEF OpenTree
<1>7. DOMAIN q # {}
  BY <1>6 DEF ToSet
<1>8. 1 \in DOMAIN q
  BY <1>3, <1>7
<1> QED BY <1>3, <1>8 DEF q

\* A rebuild: the rows are those of the new arena, and the selection is the
\* row of its node or the first.
LEMMA TakeChangedOk ==
    ASSUME BrowserTreeAssumption, TreeInv, TakeChanged
    PROVE  TreeInv'
<1> DEFINE ns == Arena(status, services)
           held(j) == \E i \in DOMAIN nodes : Key(nodes[i]) = Key(ns[j])
           was(j) == CHOOSE i \in DOMAIN nodes : Key(nodes[i]) = Key(ns[j])
           kept == {k \in DOMAIN rows' :
                       rows # <<>> /\ Key(ns[rows'[k]]) = Key(nodes[Current])}
           open == {j \in DOMAIN ns : held(j) /\ was(j) \in expanded}
           stored == {j \in DOMAIN ns : held(j) /\ was(j) \in DOMAIN details}
<1>1. /\ status # <<>> /\ ApplySnapshot(ns)
      /\ UNCHANGED <<status, services, tab, asked, answers>>
  BY DEF TakeChanged
<1>2. wanted' \in {wanted, NoRequestMade}
  BY DEF TakeChanged
<1>3. nodes' = ns /\ rows' = Visible(ns, expanded') /\ pending' = NoNode /\ Reselect(kept)
  BY <1>1 DEF ApplySnapshot
<1>4. expanded' = open \union (IF nodes = <<>> THEN {1} ELSE {})
  BY <1>1 DEF ApplySnapshot
<1>5. details' = [j \in stored |-> details[was(j)]]
  BY <1>1 DEF ApplySnapshot
<1>6. open \subseteq DOMAIN ns /\ DOMAIN details' \subseteq DOMAIN ns /\ kept \subseteq DOMAIN rows'
  BY <1>5
<1> HIDE DEF ns, held, was, kept, open, stored
<1>7. ArenaOk(ns)
  BY <1>1, ArenaIs DEF TreeInv, Sources, ns
<1>8. 1 \in DOMAIN ns /\ Len(ns) \in Nat
  <2>1. PICK r : Ranked(ns, r)
    BY <1>7 DEF ArenaOk
  <2>2. ns \in Seq(TreeNodes) /\ ns # <<>>
    BY <1>7, <2>1 DEF Ranked, ArenaOk
  <2> QED BY <2>2
<1>9. 1 \in DOMAIN rows' /\ DOMAIN rows' = 1 .. Len(rows')
  BY <1>3, <1>7, RootShows
<1>10. selected' \in DOMAIN rows' /\ focus' \in {0, focus}
  <2>1. CASE kept # {}
    BY <1>3, <1>6, <2>1 DEF Reselect
  <2>2. CASE kept = {}
    BY <1>3, <1>9, <2>2 DEF Reselect
  <2> QED BY <2>1, <2>2
<1>11. Shown'
  <2>1. expanded' \subseteq DOMAIN ns
    BY <1>4, <1>6, <1>8
  <2>2. selected' \in Nat \ {0}
    BY <1>9, <1>10
  <2> QED BY <1>3, <1>10, <2>1, <2>2 DEF Shown
<1>12. Panes'
  <2>1. focus \in 0 .. 4
    BY DEF TreeInv, Panes
  <2> QED BY <1>3, <1>6, <1>8, <1>10, <2>1 DEF Panes, NoNode
<1>13. ArenaType'
  BY <1>3, <1>7 DEF ArenaType, ArenaOk, Ranked, Key
<1>14. Wires' /\ Sources'
  BY <1>1, <1>2 DEF TreeInv, Wires, Sources
<1> QED BY <1>11, <1>12, <1>13, <1>14 DEF TreeInv

\* Of no nodes there are no rows.
LEMMA NoTree == Visible(<<>>, {}) = <<>>
<1> DEFINE q == Visible(<<>>, {})
<1>1. q \in Seq(DOMAIN <<>>)
  BY EmptyRanked, RowsFacts
<1> HIDE DEF q
<1>2. \A k \in DOMAIN q : q[k] \in {}
  BY <1>1
<1>3. q = <<>>
  BY <1>1, <1>2
<1> QED BY <1>3 DEF q

\* BrowserState::new, at the start and at a context switch.
LEMMA NewStateOk ==
    ASSUME nodes = <<>>, expanded = {}, rows = <<>>, selected = 1, focus = 0, details = <<>>,
           pending = NoNode
    PROVE  ArenaType /\ Shown /\ Panes
BY NoTree DEF ArenaType, Shown, Panes, NoNode

LEMMA InitOk ==
    ASSUME BrowserTreeAssumption, TreeInit
    PROVE  TreeInv
<1>1. ArenaType /\ Shown /\ Panes
  BY NewStateOk DEF TreeInit
<1>2. Wires /\ Sources
  BY DEF TreeInit, Wires, Sources, BrowserTreeAssumption
<1> QED BY <1>1, <1>2 DEF TreeInv

LEMMA ContextSwitchedOk ==
    ASSUME BrowserTreeAssumption, TreeInv, ContextSwitched
    PROVE  TreeInv'
<1>1. /\ nodes' = <<>> /\ expanded' = {} /\ rows' = <<>> /\ selected' = 1 /\ focus' = 0
      /\ details' = <<>> /\ pending' = NoNode /\ status' = <<>> /\ services' = <<>>
      /\ asked' = <<>> /\ wanted' = NoRequestMade /\ UNCHANGED <<tab, answers>>
  BY DEF ContextSwitched
<1>2. ArenaType' /\ Shown' /\ Panes'
  BY <1>1, NoTree DEF ArenaType, Shown, Panes, NoNode
<1>3. Wires' /\ Sources'
  BY <1>1 DEF TreeInv, Wires, Sources, BrowserTreeAssumption
<1> QED BY <1>2, <1>3 DEF TreeInv

LEMMA TreeInvariance == TreeSpec => []TreeInv
<1>1. TreeInit => TreeInv
  BY BrowserTreeAssumption, InitOk
<1>2. TreeInv /\ [TreeNext]_treeVars => TreeInv'
  <2> SUFFICES ASSUME TreeInv, [TreeNext]_treeVars PROVE TreeInv'
    OBVIOUS
  <2> USE BrowserTreeAssumption
  <2>1. CASE TakeChanged
    BY <2>1, TakeChangedOk
  <2>2. CASE ContextSwitched
    BY <2>2, ContextSwitchedOk
  <2>3. CASE PollFlow \/ ShowTab \/ LeaveTab
    BY <2>3, OutsideOk
  <2>4. CASE Worker
    BY <2>4, WorkerOk
  <2>5. CASE TakeAnswer
    BY <2>5, TakeAnswerOk
  <2>6. CASE Tree
    BY <2>6, MoveOk, RightOk, LeftOk, AscendOk, DescendOk, IntoSectionsOk DEF Tree
  <2>7. CASE AmongSections
    BY <2>7, AmongSectionsOk
  <2>8. CASE Drill
    BY <2>8, DrillOk
  <2>9. CASE Jump
    BY <2>9, JumpOk
  <2>10. CASE UNCHANGED treeVars
    BY <2>10 DEF treeVars, tree, TreeInv, Sources, ArenaType, ArenaOk, Ranked, Key, Shown,
                 Panes, Wires
  <2> QED BY <2>1, <2>2, <2>3, <2>4, <2>5, <2>6, <2>7, <2>8, <2>9, <2>10 DEF TreeNext
<1> QED BY <1>1, <1>2, PTL DEF TreeSpec

(***************************************************************************)
(* Whatever order polls, answers, keys, jumps, tab changes and context     *)
(* switches come in, the rows are the open tree, each node once and below  *)
(* its parent, and the selection is one of them (rebuild_visible, and      *)
(* every handler that opens or closes a node or moves the selection).      *)
(***************************************************************************)
THEOREM RowsStayOpenTree == TreeSpec => []RowsAreOpenTree
BY TreeInvariance, TreeInvGives, PTL

(***************************************************************************)
(* A rebuild translates what is named by index by key, and keys are not    *)
(* shared: what a node had, the index it is given has.                     *)
(***************************************************************************)
LEMMA RebuildKeepsPlace ==
    ASSUME RowsAreOpenTree, RowsAreOpenTree', TakeChanged,
           NEW i \in DOMAIN nodes, NEW j \in DOMAIN nodes', Key(nodes[i]) = Key(nodes'[j])
    PROVE  /\ i \in expanded <=> j \in expanded'
           /\ i \in DOMAIN details => j \in DOMAIN details' /\ details'[j] = details[i]
           /\ i = Current /\ j \in ToSet(rows') => rows'[selected'] = j /\ focus' = focus
<1> DEFINE ns == Arena(status, services)
           held(k) == \E h \in DOMAIN nodes : Key(nodes[h]) = Key(ns[k])
           was(k) == CHOOSE h \in DOMAIN nodes : Key(nodes[h]) = Key(ns[k])
           kept == {k \in DOMAIN rows' :
                       rows # <<>> /\ Key(ns[rows'[k]]) = Key(nodes[Current])}
<1>1. ApplySnapshot(ns)
  BY DEF TakeChanged
<1>2. /\ nodes' = ns /\ Reselect(kept)
      /\ expanded' = {k \in DOMAIN ns : held(k) /\ was(k) \in expanded}
                        \union (IF nodes = <<>> THEN {1} ELSE {})
      /\ details' = [k \in {k \in DOMAIN ns : held(k) /\ was(k) \in DOMAIN details}
                       |-> details[was(k)]]
  BY <1>1 DEF ApplySnapshot
<1>3. nodes # <<>> /\ selected \in DOMAIN rows
  BY DEF RowsAreOpenTree
<1>4. held(j) /\ was(j) = i
  <2>1. held(j) /\ was(j) \in DOMAIN nodes /\ Key(nodes[was(j)]) = Key(nodes[i])
    BY <1>2
  <2> HIDE DEF was
  <2> QED BY <2>1 DEF RowsAreOpenTree, TreeTypeOK
<1>5. i \in expanded <=> j \in expanded'
  BY <1>2, <1>3, <1>4
<1>6. i \in DOMAIN details => j \in DOMAIN details' /\ details'[j] = details[i]
  BY <1>2, <1>4
<1>7. ASSUME i = Current, j \in ToSet(rows')
      PROVE  rows'[selected'] = j /\ focus' = focus
  <2>1. PICK k \in DOMAIN rows' : rows'[k] = j
    BY <1>7 DEF ToSet
  <2>2. rows # <<>>
    BY <1>3
  <2>3. k \in kept
    BY <1>2, <1>7, <2>1, <2>2
  <2>4. selected' \in kept /\ focus' = focus
    BY <1>2, <2>3 DEF Reselect
  <2>5. rows'[selected'] \in DOMAIN ns /\ Key(ns[rows'[selected']]) = Key(ns[j])
    <3>1. rows'[selected'] \in ToSet(rows')
      BY <2>4 DEF ToSet
    <3>2. rows'[selected'] \in DOMAIN nodes'
      BY <3>1 DEF RowsAreOpenTree
    <3> QED BY <1>2, <1>7, <2>4, <3>2
  <2> QED BY <1>2, <2>4, <2>5 DEF RowsAreOpenTree, TreeTypeOK, Key
<1> QED BY <1>5, <1>6, <1>7

(***************************************************************************)
(* A poll keeps the user's place, whatever the arena becomes               *)
(* (apply_tree_snapshot).                                                  *)
(***************************************************************************)
THEOREM PollsKeepPlace == TreeSpec => PollKeepsPlace
<1> DEFINE Kept(i, j) ==
             /\ i \in expanded <=> j \in expanded'
             /\ i \in DOMAIN details => j \in DOMAIN details' /\ details'[j] = details[i]
             /\ i = Current /\ j \in ToSet(rows') => rows'[selected'] = j /\ focus' = focus
           Kept2 == nodes' # nodes /\ nodes' # <<>> =>
                        \A i \in DOMAIN nodes, j \in DOMAIN nodes' :
                            Key(nodes[i]) = Key(nodes'[j]) => Kept(i, j)
<1>1. RowsAreOpenTree /\ RowsAreOpenTree' /\ [TreeNext]_treeVars => [Kept2]_treeVars
  <2> SUFFICES ASSUME RowsAreOpenTree, RowsAreOpenTree', TreeNext
               PROVE  Kept2
    OBVIOUS
  <2>1. CASE TakeChanged
    BY <2>1, RebuildKeepsPlace
  <2>2. CASE ContextSwitched
    BY <2>2 DEF ContextSwitched
  <2>3. PollFlow \/ Worker \/ TakeAnswer => nodes' = nodes
    BY DEF PollFlow, Worker, AnswerOk, AnswerErr, Answer, TakeAnswer, tree
  <2>4. Tree \/ AmongSections \/ Drill => nodes' = nodes
    BY DEF Tree, Move, Right, Left, Ascend, Descend, IntoSections,
           AmongSections, Drill, KeyDone
  <2>5. Jump \/ ShowTab \/ LeaveTab => nodes' = nodes
    BY DEF Jump, ShowTab, LeaveTab, tree
  <2> QED BY <2>1, <2>2, <2>3, <2>4, <2>5 DEF TreeNext
<1> QED BY <1>1, RowsStayOpenTree, PTL DEF TreeSpec, PollKeepsPlace

-----------------------------------------------------------------------------
(* A request is not lost.                                                  *)

\* The safety half of DetailComes: a request that is owed an answer is at the
\* worker or its answer is in the channel, and its index names its node.
Pending(req) ==
    \/ req.key.id \in MayFail
    \/ \E i \in DOMAIN asked : asked[i] = req
    \/ \E i \in DOMAIN answers : answers[i].ok /\ answers[i].req = req
RequestUnderWay ==
    wanted.at # NoNode =>
        /\ StillNames(wanted, nodes)
        /\ wanted.at \in DOMAIN details \/ Pending(wanted)

LEMMA EmitsUnderWay ==
    ASSUME TreeInv, TreeInv', RequestUnderWay, nodes # <<>>,
           UNCHANGED <<nodes, details, answers>>, Emit \/ NoRequest
    PROVE  RequestUnderWay'
<1>1. CASE NoRequest
  BY <1>1 DEF NoRequest, RequestUnderWay, StillNames, Pending, Key
<1>2. CASE Emit
  <2> DEFINE now == rows'[selected']
             req == [at |-> now, key |-> Key(nodes[now])]
  <2>1. now \in DOMAIN nodes
    <3>1. ArenaType' /\ Shown' /\ nodes' # <<>>
      BY DEF TreeInv
    <3>2. rows' \in Seq(DOMAIN nodes')
      <4>1. ArenaType /\ rows' = Visible(nodes, expanded')
        BY <3>1 DEF TreeInv, Shown
      <4> QED BY <4>1, RowsOf
    <3>3. selected' \in DOMAIN rows'
      BY <3>1 DEF Shown
    <3> QED BY <3>2, <3>3
  <2>2. CASE IsFolder(nodes[now].kind)
    <3>1. wanted' = NoRequestMade
      BY <1>2, <2>2 DEF Emit
    <3> QED BY <3>1 DEF RequestUnderWay, NoRequestMade
  <2>3. CASE ~IsFolder(nodes[now].kind)
    <3>1. asked' = Append(asked, req) /\ wanted' = req
      BY <1>2, <2>3 DEF Emit
    <3>2. req.at = now /\ req.key = Key(nodes[now])
      OBVIOUS
    <3> HIDE DEF req, now
    <3>3. asked \in Seq(Requests)
      BY DEF TreeInv, Wires
    <3>4. Len(asked) + 1 \in DOMAIN asked' /\ asked'[Len(asked) + 1] = req
      BY <3>1, <3>3
    <3>5. StillNames(wanted, nodes)'
      BY <2>1, <3>1, <3>2 DEF StillNames, Key
    <3>6. Pending(wanted)'
      BY <3>1, <3>4 DEF Pending
    <3> QED BY <3>5, <3>6 DEF RequestUnderWay
  <2> QED BY <2>2, <2>3
<1> QED BY <1>1, <1>2

\* The worker takes the first request, and answers or is refused.
LEMMA WorkerUnderWay ==
    ASSUME TreeInv, RequestUnderWay, Worker
    PROVE  RequestUnderWay'
<1> DEFINE r == Head(asked)
<1>1. asked # <<>> /\ asked \in Seq(Requests) /\ answers \in Seq(Answers)
  BY DEF Worker, AnswerOk, AnswerErr, TreeInv, Wires
<1>2. PICK a : Answer(a) /\ ((a.ok /\ a.req = r) \/ r.key.id \in MayFail)
  <2>1. CASE AnswerOk
    <3>1. PICK invalid : Answer([ok |-> TRUE, req |-> r, invalid |-> invalid])
      BY <2>1 DEF AnswerOk
    <3> QED BY <3>1
  <2>2. CASE AnswerErr
    BY <2>2 DEF AnswerErr
  <2> QED BY <2>1, <2>2 DEF Worker
<1>3. /\ asked' = Tail(asked) /\ answers' = Append(answers, a)
      /\ UNCHANGED <<nodes, details, wanted>>
  BY <1>2 DEF Answer, tree
<1>4. ASSUME Pending(wanted) PROVE Pending(wanted)'
  <2>1. CASE wanted.key.id \in MayFail
    BY <1>3, <2>1 DEF Pending
  <2>2. CASE \E i \in DOMAIN asked : asked[i] = wanted
    <3>1. PICK i \in DOMAIN asked : asked[i] = wanted
      BY <2>2
    <3>2. CASE i = 1
      <4>1. r = wanted
        BY <1>1, <3>1, <3>2
      <4> HIDE DEF r
      <4>2. /\ Len(answers) + 1 \in DOMAIN answers' /\ answers'[Len(answers) + 1] = a
        BY <1>1, <1>3
      <4> QED BY <1>2, <1>3, <4>1, <4>2 DEF Pending
    <3>3. CASE i # 1
      <4>1. i - 1 \in DOMAIN asked' /\ asked'[i - 1] = asked[i]
        BY <1>1, <1>3, <3>3
      <4> QED BY <1>3, <3>1, <4>1 DEF Pending
    <3> QED BY <3>2, <3>3
  <2>3. CASE \E i \in DOMAIN answers : answers[i].ok /\ answers[i].req = wanted
    <3>1. PICK i \in DOMAIN answers : answers[i].ok /\ answers[i].req = wanted
      BY <2>3
    <3>2. i \in DOMAIN answers' /\ answers'[i] = answers[i]
      BY <1>1, <1>3
    <3> QED BY <1>3, <3>1, <3>2 DEF Pending
  <2> QED BY <1>4, <2>1, <2>2, <2>3 DEF Pending
<1> QED BY <1>3, <1>4 DEF RequestUnderWay, StillNames, Key

\* The answer to the request is stored, since its index names its node.
LEMMA TakenUnderWay ==
    ASSUME TreeInv, RequestUnderWay, TakeAnswer
    PROVE  RequestUnderWay'
<1> DEFINE a == Head(answers)
<1>1. /\ answers # <<>> /\ answers' = Tail(answers) /\ UNCHANGED <<nodes, asked, wanted>>
  BY DEF TakeAnswer, tree
<1>2. answers \in Seq(Answers)
  BY DEF TreeInv, Wires
<1>3. DOMAIN details \subseteq DOMAIN details'
  <2>1. CASE a.ok /\ StillNames(a.req, nodes)
    <3>1. DOMAIN details' = DOMAIN details \union {a.req.at}
      BY <2>1, StoredAt
    <3> QED BY <3>1
  <2>2. CASE ~(a.ok /\ StillNames(a.req, nodes))
    BY <2>2 DEF TakeAnswer
  <2> QED BY <2>1, <2>2
<1>4. ASSUME wanted.at # NoNode, wanted.at \notin DOMAIN details'
      PROVE  Pending(wanted)'
  <2>1. Pending(wanted) /\ StillNames(wanted, nodes)
    BY <1>3, <1>4 DEF RequestUnderWay
  <2>2. CASE \E i \in DOMAIN answers : answers[i].ok /\ answers[i].req = wanted
    <3>1. PICK i \in DOMAIN answers : answers[i].ok /\ answers[i].req = wanted
      BY <2>2
    <3>2. CASE i = 1
      <4>1. a.ok /\ a.req = wanted
        BY <1>1, <1>2, <3>1, <3>2
      <4>2. DOMAIN details' = DOMAIN details \union {a.req.at}
        BY <2>1, <4>1, StoredAt
      <4> QED BY <1>4, <4>1, <4>2
    <3>3. CASE i # 1
      <4>1. i - 1 \in DOMAIN answers' /\ answers'[i - 1] = answers[i]
        BY <1>1, <1>2, <3>3
      <4> QED BY <1>1, <3>1, <4>1 DEF Pending
    <3> QED BY <3>2, <3>3
  <2>3. CASE wanted.key.id \in MayFail \/ \E i \in DOMAIN asked : asked[i] = wanted
    BY <1>1, <2>3 DEF Pending
  <2> QED BY <2>1, <2>2, <2>3 DEF Pending
<1> QED BY <1>1, <1>4 DEF RequestUnderWay, StillNames, Key

\* A rebuild moves the detail of a node that keeps its index to that index.
LEMMA RebuildUnderWay ==
    ASSUME TreeInv, RequestUnderWay, TakeChanged
    PROVE  RequestUnderWay'
<1> DEFINE ns == Arena(status, services)
           held(j) == \E i \in DOMAIN nodes : Key(nodes[i]) = Key(ns[j])
           was(j) == CHOOSE i \in DOMAIN nodes : Key(nodes[i]) = Key(ns[j])
           at == wanted.at
<1> SUFFICES ASSUME wanted'.at # NoNode PROVE RequestUnderWay'
  BY DEF RequestUnderWay
<1>1. ApplySnapshot(ns) /\ UNCHANGED <<asked, answers>>
  BY DEF TakeChanged
<1>2. wanted' = wanted /\ at # NoNode /\ StillNames(wanted, ns)
  BY DEF TakeChanged, NoRequestMade
<1>3. nodes' = ns
  BY <1>1 DEF ApplySnapshot
<1>4. details' = [j \in {j \in DOMAIN ns : held(j) /\ was(j) \in DOMAIN details}
                    |-> details[was(j)]]
  BY <1>1 DEF ApplySnapshot
<1>5. at \in DOMAIN ns /\ Key(ns[at]) = wanted.key /\ at \in DOMAIN nodes
      /\ Key(nodes[at]) = wanted.key
  BY <1>2 DEF RequestUnderWay, StillNames
<1>6. held(at) /\ was(at) = at
  <2>1. held(at) /\ was(at) \in DOMAIN nodes /\ Key(nodes[was(at)]) = Key(nodes[at])
    BY <1>5
  <2> HIDE DEF was, at
  <2> QED BY <1>5, <2>1, ArenaFacts DEF TreeInv
<1>7. at \in DOMAIN details => at \in DOMAIN details'
  BY <1>4, <1>5, <1>6
<1>8. StillNames(wanted, nodes)'
  BY <1>2, <1>3 DEF StillNames, Key
<1>9. Pending(wanted) => Pending(wanted)'
  BY <1>1, <1>2 DEF Pending
<1> QED BY <1>2, <1>7, <1>8, <1>9 DEF RequestUnderWay

(***************************************************************************)
(* The request a key made is answered or on its way: no other request, no  *)
(* rebuild and no jump loses it (emit_detail_request_for_current_selection,*)
(* apply_tree_snapshot, apply_node_detail).                                *)
(***************************************************************************)
THEOREM RequestsStayUnderWay == TreeSpec => []RequestUnderWay
<1>1. TreeInit => RequestUnderWay
  BY DEF TreeInit, RequestUnderWay, NoRequestMade
<1>2. TreeInv /\ TreeInv' /\ RequestUnderWay /\ [TreeNext]_treeVars => RequestUnderWay'
  <2> SUFFICES ASSUME TreeInv, TreeInv', RequestUnderWay, [TreeNext]_treeVars
               PROVE  RequestUnderWay'
    OBVIOUS
  <2>1. CASE TakeChanged
    BY <2>1, RebuildUnderWay
  <2>2. CASE TakeAnswer
    BY <2>2, TakenUnderWay
  <2>3. CASE Worker
    BY <2>3, WorkerUnderWay
  <2>4. CASE LeaveTab \/ ContextSwitched
    <3>1. wanted'.at = NoNode
      BY <2>4 DEF LeaveTab, ContextSwitched, NoRequestMade
    <3> QED BY <3>1 DEF RequestUnderWay
  <2>5. CASE UNCHANGED <<nodes, details, asked, answers, wanted>>
    BY <2>5 DEF RequestUnderWay, StillNames, Pending, Key
  <2>6. PollFlow \/ ShowTab \/ UNCHANGED treeVars
            => UNCHANGED <<nodes, details, asked, answers, wanted>>
    BY DEF PollFlow, ShowTab, treeVars, tree
  <2>7. CASE Tree \/ AmongSections \/ Drill
    <3>1. UNCHANGED <<nodes, details, answers>> /\ (Emit \/ NoRequest) /\ rows # <<>>
      BY <2>7 DEF Tree, Move, Right, Left, Ascend, Descend, IntoSections, AmongSections, Drill,
                  KeyDone, InTree, InSection
    <3>2. nodes # <<>>
      BY <3>1, RowsNeedNodes DEF TreeInv
    <3> QED BY <3>1, <3>2, EmitsUnderWay
  <2>8. CASE Jump
    <3>1. UNCHANGED <<nodes, details, answers>>
      BY <2>8 DEF Jump
    <3>2. CASE nodes # <<>> /\ Emit
      BY <3>1, <3>2, EmitsUnderWay
    <3>3. CASE NoRequest
      BY <2>5, <3>1, <3>3 DEF NoRequest
    <3> QED BY <2>8, <3>2, <3>3 DEF Jump
  <2> QED BY <2>1, <2>2, <2>3, <2>4, <2>5, <2>6, <2>7, <2>8 DEF TreeNext
<1> QED BY <1>1, <1>2, TreeInvariance, PTL DEF TreeSpec
=============================================================================
