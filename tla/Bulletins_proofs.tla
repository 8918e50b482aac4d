-------------------------- MODULE Bulletins_proofs --------------------------
(***************************************************************************)
(* Proofs about the two modules of the bulletins, BulletinFeed (cursor and *)
(* ring) and BulletinsTab (the list), for any ring, batch and channel, any *)
(* number of bulletins and context switches, any filters.                  *)
(*                                                                         *)
(* BulletinFeed: that the ring has no gap is not inductive by itself; what *)
(* is, is that there is none in the ring and what the store's task still   *)
(* has under way taken together (Kept, NoGap), in the order of the channel *)
(* (InOrder), up to the cursor, from which alone a request is made         *)
(* (AskedAtCursor).  Batches of earlier stores are told from those of this *)
(* one by Stamped and OneAtATime.                                          *)
(*                                                                         *)
(* BulletinsTab: the badge's count is inductive; what the list shows is    *)
(* described once (ListShape), so that a move, a filter and a redraw need  *)
(* only where the selection is put.                                        *)
(***************************************************************************)
EXTENDS BulletinFeed, BulletinsTab, FiniteSetTheorems, SequenceTheorems, TLAPS

OwnDelta(m) == m.kind = "Delta" /\ m.store = store

\* n has been fetched by the store's task and is in the channel at i, or in
\* the message it sends.
InChan(i, n) == OwnDelta(chan[i]) /\ n \in Ids(chan[i].ids)
InUpdate(n)  == update.kind = "Delta" /\ n \in Ids(update.ids)

\* What the store's task has fetched and the ring has not dropped.
Kept == OwnIn(ring) \cup UnderWay

\* Messages are of this store or an earlier one.
Stamped ==
    /\ pc = "send" <=> update # Nothing
    /\ update # Nothing => update.store = store
    /\ \A i \in 1..Len(chan) : chan[i].kind \in {"Delta", "Failed"} => chan[i].store <= store
    /\ \A m \in dying : m.store < store

\* One switch at a time, and a store number left for it.
OneAtATime ==
    /\ switching # NoContext \/ (\E i \in 1..Len(chan) : chan[i].kind = "Switched")
          => store < MaxStores
    /\ \A i \in 1..Len(chan) : chan[i].kind = "Switched" =>
          /\ switching = NoContext
          /\ \A j \in 1..Len(chan) : chan[j].kind = "Switched" => i = j

\* A request is made from where the cursor is.
AskedAtCursor == pc = "asked" => after = cursor

\* Ring, channel and message under way hold ids in the order they were
\* fetched, none beyond the cursor.
InOrder ==
    /\ \A i, j \in 1..Len(ring) :
          i < j /\ Own(ring[i]) /\ Own(ring[j]) => ring[i].id < ring[j].id
    /\ \A i \in 1..Len(ring), j \in 1..Len(chan) : \A n :
          Own(ring[i]) /\ InChan(j, n) => ring[i].id < n
    /\ \A i \in 1..Len(ring) : \A n : Own(ring[i]) /\ InUpdate(n) => ring[i].id < n
    /\ \A i, j \in 1..Len(chan) : \A m, n : i < j /\ InChan(i, m) /\ InChan(j, n) => m < n
    /\ \A i \in 1..Len(chan) : \A m, n : InChan(i, m) /\ InUpdate(n) => m < n
    /\ \A n \in Kept : n <= cursor

\* From the oldest of them up to the cursor nothing is missing.
NoGap == \A n \in Kept : \A m \in n..cursor : m \in Kept \cup cut

FeedInv == TypeOK /\ Stamped /\ OneAtATime /\ AskedAtCursor /\ InOrder /\ NoGap

USE FeedAssumption

-----------------------------------------------------------------------------
(* Messages and batches.                                                   *)

\* The ids and the length of a batch, of a Delta and of a switch report.
LEMMA BatchShape ==
    ASSUME NEW s \in Batches
    PROVE  s \in Seq(1..MaxId) /\ Len(s) \in Nat /\ Ascending(s) /\ Ids(s) \subseteq 1..MaxId
<1>1. PICK n \in 0..MaxId : s \in [1..n -> 1..MaxId] /\ Ascending(s)
    BY DEF Batches
<1>2. s \in Seq(1..MaxId) /\ Len(s) = n
    BY <1>1
<1> QED
    BY <1>1, <1>2 DEF Ids

LEMMA DeltaShape ==
    ASSUME NEW m \in Messages \cup {Nothing}, m.kind = "Delta"
    PROVE  /\ m \in Updates
           /\ m.store \in 1..MaxStores /\ m.ctx \in Contexts /\ m.ids \in Batches
<1>1. m \in {Delta(s, c, ids) : s \in 1..MaxStores, c \in Contexts, ids \in Batches}
    BY DEF Messages, Updates, Nothing, Failed, Changed, Switched
<1>2. PICK s \in 1..MaxStores, c \in Contexts, ids \in Batches : m = Delta(s, c, ids)
    BY <1>1
<1> QED
    BY <1>1, <1>2 DEF Delta, Updates

LEMMA SwitchedShape ==
    ASSUME NEW m \in Messages, m.kind = "Switched"
    PROVE  m.ctx \in Contexts
<1>1. PICK c \in Contexts : m = Switched(c)
    BY DEF Messages, Updates, Delta, Failed, Changed, Switched
<1> QED
    BY <1>1 DEF Switched

\* What the bounded ring makes of the rows before and the rows of a message:
\* the last of them, d dropped.
LEMMA NewestShape ==
    ASSUME NEW s \in Seq(Entries)
    PROVE  /\ Newest(Capacity, s) \in Seq(Entries) /\ Len(Newest(Capacity, s)) <= Capacity
           /\ \E d \in 0..Len(s) :
                 /\ Len(Newest(Capacity, s)) = Len(s) - d
                 /\ \A i \in 1..Len(s) - d : Newest(Capacity, s)[i] = s[i + d]
<1>0. Len(s) \in Nat
    BY LenProperties
<1>1. CASE Len(s) <= Capacity
    <2>1. Newest(Capacity, s) = s
        BY <1>1 DEF Newest
    <2>2. \A i \in 1..Len(s) - 0 : s[i] = s[i + 0]
        BY <1>0
    <2> QED
        BY <2>1, <2>2, <1>0, <1>1
<1>2. CASE Len(s) > Capacity
    <2> DEFINE a == Len(s) - Capacity + 1
    <2>1. Newest(Capacity, s) = SubSeq(s, a, Len(s))
        BY <1>0, <1>2 DEF Newest
    <2>2. a \in Int /\ Len(s) \in Int /\ a <= Len(s) /\ a >= 1
        BY <1>0, <1>2
    <2>3. \A i \in a..Len(s) : s[i] \in Entries
        BY <1>0, <2>2, ElementOfSeq
    <2> HIDE DEF a
    <2>4. /\ SubSeq(s, a, Len(s)) \in Seq(Entries)
          /\ Len(SubSeq(s, a, Len(s))) = Len(s) - a + 1
          /\ \A i \in 1..Len(s) - a + 1 : SubSeq(s, a, Len(s))[i] = s[a + i - 1]
        BY <2>2, <2>3, SubSeqProperties
    <2>5. Len(s) - a + 1 = Capacity
        BY <1>0 DEF a
    <2> DEFINE d == Len(s) - Capacity
    <2>6. d \in 0..Len(s) /\ a = d + 1
        BY <1>0, <1>2 DEF a
    <2>7. \A i \in 1..Len(s) - d : SubSeq(s, a, Len(s))[i] = s[i + d]
        <3> SUFFICES ASSUME NEW i \in 1..Len(s) - d
                     PROVE  SubSeq(s, a, Len(s))[i] = s[i + d]
            OBVIOUS
        <3>1. i \in 1..Len(s) - a + 1 /\ a + i - 1 = i + d
            BY <2>6, <1>0
        <3> QED
            BY <3>1, <2>4
    <2>8. Len(SubSeq(s, a, Len(s))) = Len(s) - d
        BY <1>0, <2>4, <2>6
    <2> HIDE DEF d
    <2> QED
        BY <2>1, <2>4, <2>5, <2>6, <2>7, <2>8
<1> QED
    BY <1>0, <1>1, <1>2

\* Where the rows of the ring after a merge come from: place i of it is place
\* i + d of the ring before, or of what is appended to it.
LEMMA MergeShape ==
    ASSUME ring \in Seq(Entries), NEW m \in Messages, m.kind = "Delta"
    PROVE  /\ Merge(m) \in Seq(Entries) /\ Len(Merge(m)) <= Capacity
           /\ \E d \in 0..Len(ring) + Len(m.ids) :
                 /\ Len(Merge(m)) = Len(ring) + Len(m.ids) - d
                 /\ \A i \in 1..Len(Merge(m)) :
                       /\ i + d <= Len(ring) => Merge(m)[i] = ring[i + d]
                       /\ i + d > Len(ring) =>
                             /\ i + d - Len(ring) \in 1..Len(m.ids)
                             /\ Merge(m)[i].store = m.store
                             /\ Merge(m)[i].id = m.ids[i + d - Len(ring)]
<1>1. m.store \in 1..MaxStores /\ m.ctx \in Contexts /\ m.ids \in Batches
    BY DeltaShape
<1>2. m.ids \in Seq(1..MaxId) /\ Len(m.ids) \in Nat
    BY <1>1, BatchShape
<1>3. \A i \in 1..Len(m.ids) : m.ids[i] \in 1..MaxId
    BY <1>2
<1>4. Tagged(m) \in Seq(Entries) /\ Len(Tagged(m)) = Len(m.ids)
    BY <1>1, <1>2, <1>3 DEF Tagged, Entries
<1>5. \A i \in 1..Len(m.ids) : Tagged(m)[i].store = m.store /\ Tagged(m)[i].id = m.ids[i]
    BY DEF Tagged
<1> DEFINE all == ring \o Tagged(m)
<1>6. /\ all \in Seq(Entries) /\ Len(all) = Len(ring) + Len(m.ids)
      /\ \A i \in 1..Len(ring) + Len(m.ids) :
            all[i] = IF i <= Len(ring) THEN ring[i] ELSE Tagged(m)[i - Len(ring)]
    BY <1>4, ConcatProperties
<1>7. Merge(m) = Newest(Capacity, all)
    BY DEF Merge
<1>8. Len(ring) \in Nat
    BY LenProperties
<1> HIDE DEF all
<1>9. PICK d \in 0..Len(all) :
         /\ Len(Newest(Capacity, all)) = Len(all) - d
         /\ \A i \in 1..Len(all) - d : Newest(Capacity, all)[i] = all[i + d]
    BY <1>6, NewestShape
<1>10. Merge(m) \in Seq(Entries) /\ Len(Merge(m)) <= Capacity
    BY <1>6, <1>7, NewestShape
<1>11. ASSUME NEW i \in 1..Len(Merge(m))
       PROVE  /\ i + d <= Len(ring) => Merge(m)[i] = ring[i + d]
              /\ i + d > Len(ring) =>
                    /\ i + d - Len(ring) \in 1..Len(m.ids)
                    /\ Merge(m)[i].store = m.store
                    /\ Merge(m)[i].id = m.ids[i + d - Len(ring)]
    <2>1. i \in 1..Len(all) - d /\ i + d \in 1..Len(ring) + Len(m.ids)
        BY <1>2, <1>6, <1>7, <1>8, <1>9
    <2>2. Merge(m)[i] = all[i + d]
        BY <2>1, <1>7, <1>9
    <2>3. i + d > Len(ring) => i + d - Len(ring) \in 1..Len(m.ids)
        BY <2>1, <1>2, <1>8
    <2>4. i + d <= Len(ring) => all[i + d] = ring[i + d]
        BY <2>1, <1>6
    <2>5. i + d > Len(ring) => all[i + d] = Tagged(m)[i + d - Len(ring)]
        BY <2>1, <1>6, <1>8
    <2> QED
        BY <2>2, <2>3, <2>4, <2>5, <1>5
<1>12. Len(Merge(m)) = Len(ring) + Len(m.ids) - d /\ d \in 0..Len(ring) + Len(m.ids)
    BY <1>6, <1>7, <1>9
<1> QED
    BY <1>10, <1>11, <1>12

-----------------------------------------------------------------------------
(* What every step of the feed needs: the types, one conjunct at a time.   *)

\* What taking the head leaves.
LEMMA HeadOfChan ==
    ASSUME TypeOK, chan # <<>>
    PROVE  /\ Head(chan) \in Messages /\ Head(chan) = chan[1]
           /\ Tail(chan) \in Seq(Messages) /\ Len(Tail(chan)) = Len(chan) - 1
           /\ Len(chan) \in Nat \ {0}
           /\ \A i \in 1..Len(chan) - 1 : Tail(chan)[i] = chan[i + 1]
<1>1. chan \in Seq(Messages)
    BY DEF TypeOK
<1>2. Head(chan) \in Messages /\ Tail(chan) \in Seq(Messages) /\ Len(Tail(chan)) = Len(chan) - 1
      /\ \A i \in 1..Len(Tail(chan)) : Tail(chan)[i] = chan[i + 1]
    BY <1>1, HeadTailProperties
<1>3. Len(chan) \in Nat \ {0}
    BY <1>1, EmptySeq
<1> QED
    BY <1>1, <1>2, <1>3

LEMMA DeliverType ==
    ASSUME TypeOK, NEW m \in Messages, Deliver(m)
    PROVE  /\ chan' \in Seq(Messages) /\ Len(chan') = Len(chan) + 1 /\ Len(chan) \in Nat
           /\ \A i \in 1..Len(chan) : chan'[i] = chan[i]
           /\ chan'[Len(chan) + 1] = m
BY AppendProperties, LenProperties DEF TypeOK, Deliver

\* A message taken and another put at the end: what is in between moves up.
LEMMA RelayType ==
    ASSUME TypeOK, chan # <<>>, NEW m \in Messages, chan' = Append(Tail(chan), m)
    PROVE  /\ chan' \in Seq(Messages) /\ Len(chan') = Len(chan)
           /\ \A i \in 1..Len(chan) - 1 : chan'[i] = chan[i + 1]
           /\ chan'[Len(chan)] = m
<1>1. /\ Tail(chan) \in Seq(Messages) /\ Len(Tail(chan)) = Len(chan) - 1
      /\ Len(chan) \in Nat \ {0}
      /\ \A i \in 1..Len(chan) - 1 : Tail(chan)[i] = chan[i + 1]
    BY HeadOfChan
<1>2. /\ chan' \in Seq(Messages) /\ Len(chan') = Len(Tail(chan)) + 1
      /\ \A i \in 1..Len(Tail(chan)) : chan'[i] = Tail(chan)[i]
      /\ chan'[Len(Tail(chan)) + 1] = m
    BY <1>1, AppendProperties
<1> QED
    BY <1>1, <1>2

\* Every step keeps the types.
LEMMA FeedTypeStep ==
    ASSUME TypeOK, OneAtATime, Stamped, [Next]_vars
    PROVE  TypeOK'
<1> USE DEF TypeOK
<1>1. ASSUME NEW c \in Contexts, Record(c)
      PROVE  TypeOK'
    BY <1>1 DEF Record, task, shown
<1>2. CASE Ask
    BY <1>2 DEF Ask, nifi, shown
<1>3. CASE AnswerOk
    <2>1. PICK ids \in Answers(client) :
             /\ cursor' = Highest(ids, after)
             /\ update' = Delta(store, client, ids)
             /\ cut' = cut \cup {n \in (after + 1)..Highest(ids, after) : n \notin Ids(ids)}
        BY <1>3 DEF AnswerOk
    <2>2. ids \in Batches
        BY <2>1 DEF Answers
    <2>3. Highest(ids, after) \in 0..MaxId
        BY <2>2, BatchShape, EmptySeq DEF Highest
    <2>4. update' \in Updates
        BY <2>1, <2>2 DEF Updates
    <2>5. cut' \subseteq 1..MaxId
        <3>1. (after + 1)..Highest(ids, after) \subseteq 1..MaxId
            BY <2>3
        <3> QED
            BY <2>1, <3>1
    <2> QED
        BY <1>3, <2>1, <2>3, <2>4, <2>5 DEF AnswerOk, nifi, shown
<1>4. CASE AnswerErr
    <2>1. Failed(store) \in Updates
        BY DEF Updates
    <2> QED
        BY <1>4, <2>1 DEF AnswerErr, nifi, shown
<1>5. CASE Send
    <2>1. update \in Messages
        BY <1>5 DEF Send, Stamped, Messages
    <2> QED
        BY <1>5, <2>1, DeliverType DEF Send, nifi, shown
<1>6. CASE Expire
    <2>1. PICK m \in dying : /\ dying' = dying \ {m}
                             /\ Deliver(m) \/ UNCHANGED chan
                             /\ UNCHANGED <<nifi, switching, task, shown, cut>>
        BY <1>6 DEF Expire
    <2>2. m \in Messages
        BY DEF Messages
    <2>3. chan' \in Seq(Messages)
        BY <2>1, <2>2, DeliverType
    <2> QED
        BY <2>1, <2>3 DEF nifi, task, shown
<1>7. CASE Report
    <2>1. Switched(switching) \in Messages
        BY <1>7 DEF Report, Messages
    <2> QED
        BY <1>7, <2>1, DeliverType DEF Report, nifi, task, shown
<1>8. CASE HandleSwitched
    <2>1. chan # <<>> /\ Head(chan) \in Messages /\ Head(chan) = chan[1]
          /\ Tail(chan) \in Seq(Messages) /\ Len(chan) \in Nat \ {0}
        BY <1>8, HeadOfChan DEF HandleSwitched, Receive
    <2>2. Head(chan).ctx \in Contexts
        BY <1>8, <2>1, SwitchedShape DEF HandleSwitched, Receive
    <2>3. store < MaxStores
        BY <1>8, <2>1 DEF HandleSwitched, Receive, OneAtATime
    <2>4. dying' \subseteq Updates
        BY <1>8 DEF HandleSwitched, Stamped
    <2>5. <<>> \in Seq(Entries) /\ Len(<<>>) = 0
        BY EmptySeq
    <2> QED
        BY <1>8, <2>1, <2>2, <2>3, <2>4, <2>5 DEF HandleSwitched, nifi
<1>9. CASE HandleDelta
    <2>1. chan # <<>> /\ Head(chan).kind = "Delta" /\ Head(chan) \in Messages
        BY <1>9, HeadOfChan DEF HandleDelta, Receive
    <2>2. Merge(Head(chan)) \in Seq(Entries) /\ Len(Merge(Head(chan))) <= Capacity
        BY <2>1, MergeShape
    <2>3. Changed \in Messages
        BY DEF Messages
    <2>4. chan' \in Seq(Messages)
        BY <1>9, <2>1, <2>3, RelayType DEF HandleDelta
    <2> QED
        BY <1>9, <2>2, <2>4 DEF HandleDelta, nifi, task
<1>10. CASE HandleFailed
    <2>1. Changed \in Messages
        BY DEF Messages
    <2>2. chan' \in Seq(Messages)
        BY <1>10, <2>1, RelayType DEF HandleFailed, Receive
    <2> QED
        BY <1>10, <2>2 DEF HandleFailed, nifi, task, shown
<1>11. CASE HandleChanged
    <2>1. chan' \in Seq(Messages)
        BY <1>11, HeadOfChan DEF HandleChanged, Receive
    <2> QED
        BY <1>11, <2>1 DEF HandleChanged, nifi, task
<1>12. ASSUME NEW c \in Contexts, SwapClient(c)
       PROVE  TypeOK'
    BY <1>12 DEF SwapClient, task, shown
<1>13. CASE UNCHANGED vars
    BY <1>13 DEF vars, nifi, task, shown
<1> QED
    BY <1>1, <1>2, <1>3, <1>4, <1>5, <1>6, <1>7, <1>8, <1>9, <1>10, <1>11, <1>12, <1>13
       DEF Next, Fetching, UiStep

-----------------------------------------------------------------------------
(* Stores, switches and the cursor.                                        *)

LEMMA KindsApart ==
    /\ Nothing.kind = "Nothing" /\ Changed.kind = "Changed"
    /\ \A s : Failed(s).kind = "Failed" /\ Failed(s).store = s
    /\ \A s, c, ids : /\ Delta(s, c, ids).kind = "Delta" /\ Delta(s, c, ids).store = s
                      /\ Delta(s, c, ids).ids = ids
    /\ \A c : Switched(c).kind = "Switched"
    /\ \A m \in Updates : m.kind \in {"Delta", "Failed"} /\ m # Nothing
BY DEF Nothing, Changed, Failed, Delta, Switched, Updates

LEMMA FetchedHasStore ==
    ASSUME NEW m \in Messages, m.kind \in {"Delta", "Failed"}
    PROVE  m.store \in 1..MaxStores
<1>1. CASE m.kind = "Delta"
    BY <1>1, DeltaShape
<1>2. CASE m.kind = "Failed"
    <2>1. m \in {Failed(s) : s \in 1..MaxStores}
        BY <1>2 DEF Messages, Updates, Delta, Changed, Switched
    <2> QED
        BY <2>1 DEF Failed
<1> QED
    BY <1>1, <1>2

LEMMA InChanIsMessage ==
    ASSUME TypeOK
    PROVE  \A i \in 1..Len(chan) : chan[i] \in Messages
BY ElementOfSeq DEF TypeOK

\* A task stamps what it sends with its own store.
LEMMA StampedStep ==
    ASSUME TypeOK, Stamped, [Next]_vars, TypeOK'
    PROVE  Stamped'
<1>0. Len(chan) \in Nat
    BY LenProperties DEF TypeOK
<1>1. ASSUME NEW c \in Contexts, Record(c) \/ SwapClient(c)
      PROVE  Stamped'
    BY <1>1 DEF Record, SwapClient, task, shown, Stamped
<1>2. CASE Ask
    BY <1>2 DEF Ask, shown, Stamped
<1>3. CASE AnswerOk \/ AnswerErr
    <2>1. update' \in {Failed(store)} \cup {Delta(store, client, ids) : ids \in Answers(client)}
        BY <1>3 DEF AnswerOk, AnswerErr
    <2>2. update' # Nothing /\ update'.store = store
        BY <2>1, KindsApart DEF Nothing, Failed, Delta
    <2>3. pc' = "send" /\ UNCHANGED <<chan, dying, store>>
        BY <1>3 DEF AnswerOk, AnswerErr, shown
    <2> QED
        BY <2>2, <2>3 DEF Stamped
<1>4. CASE Send
    <2>1. update \in Updates /\ update \in Messages /\ update.store = store
        BY <1>4 DEF Send, Stamped, TypeOK, Messages
    <2>2. /\ Len(chan') = Len(chan) + 1 /\ chan'[Len(chan) + 1] = update
          /\ \A i \in 1..Len(chan) : chan'[i] = chan[i]
        BY <1>4, <2>1, DeliverType DEF Send
    <2>3. store \in Nat /\ UNCHANGED <<dying, store>> /\ pc' = "idle" /\ update' = Nothing
        BY <1>4 DEF Send, TypeOK, shown
    <2>4. \A i \in 1..Len(chan') : i \in 1..Len(chan) \/ i = Len(chan) + 1
        BY <1>0, <2>2
    <2> QED
        BY <2>1, <2>2, <2>3, <2>4 DEF Stamped
<1>5. CASE Expire
    <2>1. PICK m \in dying : /\ dying' = dying \ {m}
                             /\ Deliver(m) \/ UNCHANGED chan
                             /\ UNCHANGED <<nifi, switching, task, shown, cut>>
        BY <1>5 DEF Expire
    <2>2. m \in Messages /\ m.store < store
        BY DEF Messages, TypeOK, Stamped
    <2>3. UNCHANGED <<pc, update, store>>
        BY <2>1 DEF task, shown
    <2>4. m.store <= store
        <3>1. m.kind \in {"Delta", "Failed"}
            BY KindsApart DEF TypeOK
        <3>2. m.store \in 1..MaxStores
            BY <2>2, <3>1, FetchedHasStore
        <3>3. store \in 1..MaxStores
            BY DEF TypeOK
        <3> QED
            BY <3>2, <3>3, <2>2
    <2>5. CASE Deliver(m)
        <3>1. /\ Len(chan') = Len(chan) + 1 /\ chan'[Len(chan) + 1] = m
              /\ \A i \in 1..Len(chan) : chan'[i] = chan[i]
            BY <2>2, <2>5, DeliverType
        <3>2. \A i \in 1..Len(chan') : i \in 1..Len(chan) \/ i = Len(chan) + 1
            BY <1>0, <3>1
        <3> QED
            BY <2>1, <2>3, <2>4, <3>1, <3>2 DEF Stamped
    <2>6. CASE UNCHANGED chan
        BY <2>1, <2>3, <2>6 DEF Stamped
    <2> QED
        BY <2>1, <2>5, <2>6
<1>6. CASE Report
    <2>1. Switched(switching) \in Messages /\ Switched(switching).kind = "Switched"
        BY <1>6, KindsApart DEF Report, Messages, TypeOK
    <2>2. /\ Len(chan') = Len(chan) + 1 /\ chan'[Len(chan) + 1] = Switched(switching)
          /\ \A i \in 1..Len(chan) : chan'[i] = chan[i]
        BY <1>6, <2>1, DeliverType DEF Report
    <2>3. \A i \in 1..Len(chan') : i \in 1..Len(chan) \/ i = Len(chan) + 1
        BY <1>0, <2>2
    <2>4. UNCHANGED <<pc, update, store, dying>>
        BY <1>6 DEF Report, task, shown
    <2> QED
        BY <2>1, <2>2, <2>3, <2>4 DEF Stamped
<1>7. CASE HandleSwitched
    <2>1. /\ chan' = Tail(chan) /\ Len(Tail(chan)) = Len(chan) - 1
          /\ \A i \in 1..Len(chan) - 1 : Tail(chan)[i] = chan[i + 1]
        BY <1>7, HeadOfChan DEF HandleSwitched, Receive
    <2>2. store' = store + 1 /\ store \in Nat /\ pc' = "idle" /\ update' = Nothing
        BY <1>7 DEF HandleSwitched, TypeOK
    <2>3. \A m \in dying' : m.store \in Nat /\ m.store <= store
        <3> SUFFICES ASSUME NEW m \in dying' PROVE m.store \in Nat /\ m.store <= store
            OBVIOUS
        <3>1. m \in Updates
            BY DEF TypeOK
        <3>2. m.store \in Nat
            BY <3>1 DEF Updates, Failed, Delta
        <3>3. m \in dying \/ (m = update /\ pc = "send")
            BY <1>7 DEF HandleSwitched
        <3> QED
            BY <3>2, <3>3, <2>2 DEF Stamped
    <2>4. \A i \in 1..Len(chan') : chan'[i].kind \in {"Delta", "Failed"} => chan'[i].store < store'
        <3> SUFFICES ASSUME NEW i \in 1..Len(chan'), chan'[i].kind \in {"Delta", "Failed"}
                     PROVE  chan'[i].store < store'
            OBVIOUS
        <3>1. chan'[i] = chan[i + 1] /\ i + 1 \in 1..Len(chan)
            BY <1>0, <2>1
        <3>2. chan[i + 1].store <= store
            BY <3>1 DEF Stamped
        <3>4. chan[i + 1].store \in 1..MaxStores
            BY <3>1, InChanIsMessage, FetchedHasStore
        <3> QED
            BY <3>1, <3>2, <3>4, <2>2
    <2>5. \A i \in 1..Len(chan') : chan'[i].kind \in {"Delta", "Failed"} => chan'[i].store <= store'
        <3> SUFFICES ASSUME NEW i \in 1..Len(chan'), chan'[i].kind \in {"Delta", "Failed"}
                     PROVE  chan'[i].store <= store'
            OBVIOUS
        <3>1. chan'[i] = chan[i + 1] /\ i + 1 \in 1..Len(chan)
            BY <1>0, <2>1
        <3>2. chan'[i].store \in 1..MaxStores
            BY <3>1, InChanIsMessage, FetchedHasStore
        <3> QED
            BY <2>2, <2>4, <3>2
    <2> QED
        BY <2>2, <2>3, <2>5 DEF Stamped
<1>8. CASE HandleDelta \/ HandleFailed
    <2>1. Changed \in Messages /\ chan # <<>> /\ chan' = Append(Tail(chan), Changed)
        BY <1>8 DEF HandleDelta, HandleFailed, Receive, Messages
    <2>2. /\ Len(chan') = Len(chan) /\ chan'[Len(chan)] = Changed
          /\ \A i \in 1..Len(chan) - 1 : chan'[i] = chan[i + 1]
        BY <2>1, RelayType
    <2>3. \A i \in 1..Len(chan') : (i \in 1..Len(chan) - 1 /\ i + 1 \in 1..Len(chan)) \/ i = Len(chan)
        BY <1>0, <2>2
    <2>4. UNCHANGED <<pc, update, store, dying>>
        BY <1>8 DEF HandleDelta, HandleFailed, task, shown
    <2> QED
        BY <2>2, <2>3, <2>4, KindsApart DEF Stamped
<1>9. CASE HandleChanged
    <2>1. /\ chan' = Tail(chan) /\ Len(Tail(chan)) = Len(chan) - 1
          /\ \A i \in 1..Len(chan) - 1 : Tail(chan)[i] = chan[i + 1]
        BY <1>9, HeadOfChan DEF HandleChanged, Receive
    <2>2. \A i \in 1..Len(chan') : i \in 1..Len(chan) - 1 /\ i + 1 \in 1..Len(chan)
        BY <1>0, <2>1
    <2>3. UNCHANGED <<pc, update, store, dying>>
        BY <1>9 DEF HandleChanged, task
    <2> QED
        BY <2>1, <2>2, <2>3 DEF Stamped
<1>10. CASE UNCHANGED vars
    BY <1>10 DEF vars, task, shown, Stamped
<1> QED
    BY <1>1, <1>2, <1>3, <1>4, <1>5, <1>6, <1>7, <1>8, <1>9, <1>10
       DEF Next, Fetching, UiStep

\* A channel one message shorter or longer, or relayed, has a context-switch
\* report where the channel before had one.
LEMMA OneAtATimeStep ==
    ASSUME TypeOK, Stamped, OneAtATime, [Next]_vars
    PROVE  OneAtATime'
<1>0. Len(chan) \in Nat /\ NoContext \notin Contexts
    BY LenProperties DEF TypeOK
<1>1. CASE UNCHANGED <<chan, switching, store>>
    BY <1>1 DEF OneAtATime
<1>2. Ask \/ AnswerOk \/ AnswerErr \/ UNCHANGED vars \/ (\E c \in Contexts : Record(c))
         => UNCHANGED <<chan, switching, store>>
    BY DEF Ask, AnswerOk, AnswerErr, Record, vars, shown
<1>3. ASSUME NEW m \in Updates, Deliver(m), UNCHANGED <<switching, store>>
      PROVE  OneAtATime'
    <2>1. m \in Messages /\ m.kind # "Switched"
        BY KindsApart DEF Messages
    <2>2. /\ Len(chan') = Len(chan) + 1 /\ chan'[Len(chan) + 1] = m
          /\ \A i \in 1..Len(chan) : chan'[i] = chan[i]
        BY <1>3, <2>1, DeliverType
    <2>3. \A i \in 1..Len(chan') : chan'[i].kind = "Switched" => i \in 1..Len(chan)
        BY <1>0, <2>1, <2>2
    <2> QED
        BY <1>3, <2>2, <2>3 DEF OneAtATime
<1>4. CASE Send
    <2>1. update \in Updates /\ Deliver(update) /\ UNCHANGED <<switching, store>>
        BY <1>4 DEF Send, Stamped, TypeOK, shown
    <2> QED
        BY <1>3, <2>1
<1>5. CASE Expire
    <2>1. PICK m \in dying : Deliver(m) \/ UNCHANGED chan
        BY <1>5 DEF Expire
    <2>2. UNCHANGED <<switching, store>> /\ m \in Updates
        BY <1>5 DEF Expire, shown, TypeOK
    <2> QED
        BY <1>1, <1>3, <2>1, <2>2
<1>6. CASE Report
    <2>1. /\ switching # NoContext /\ switching' = NoContext
          /\ Deliver(Switched(switching)) /\ UNCHANGED store
        BY <1>6 DEF Report, shown
    <2>2. Switched(switching) \in Messages
        BY <2>1 DEF Messages, TypeOK
    <2>3. /\ Len(chan') = Len(chan) + 1
          /\ \A i \in 1..Len(chan) : chan'[i] = chan[i]
        BY <2>1, <2>2, DeliverType
    <2>4. \A i \in 1..Len(chan) : chan[i].kind # "Switched"
        BY <2>1 DEF OneAtATime
    <2>5. \A i \in 1..Len(chan') : chan'[i].kind = "Switched" => i = Len(chan) + 1
        BY <1>0, <2>3, <2>4
    <2>6. store < MaxStores
        BY <2>1 DEF OneAtATime
    <2> QED
        BY <2>1, <2>5, <2>6 DEF OneAtATime
<1>7. CASE HandleSwitched
    <2>1. /\ Len(Tail(chan)) = Len(chan) - 1 /\ chan[1].kind = "Switched"
          /\ \A i \in 1..Len(chan) - 1 : Tail(chan)[i] = chan[i + 1]
          /\ Len(chan) \in Nat \ {0}
        BY <1>7, HeadOfChan DEF HandleSwitched, Receive
    <2>2. switching = NoContext /\ \A j \in 1..Len(chan) : chan[j].kind = "Switched" => j = 1
        BY <2>1 DEF OneAtATime
    <2>3. chan' = Tail(chan) /\ switching' = switching
        BY <1>7 DEF HandleSwitched
    <2>4. \A i \in 1..Len(chan') : chan'[i].kind # "Switched"
        <3> SUFFICES ASSUME NEW i \in 1..Len(chan') PROVE chan'[i].kind # "Switched"
            OBVIOUS
        <3>1. i + 1 \in 1..Len(chan) /\ i + 1 # 1 /\ chan'[i] = chan[i + 1]
            BY <2>1, <2>3
        <3> QED
            BY <2>2, <3>1
    <2> QED
        BY <2>2, <2>3, <2>4 DEF OneAtATime
<1>8. ASSUME chan # <<>>, Len(chan') \in {Len(chan) - 1, Len(chan)},
             \A i \in 1..Len(chan) - 1 : chan'[i] = chan[i + 1],
             Len(chan') = Len(chan) => chan'[Len(chan)] = Changed,
             UNCHANGED <<switching, store>>
      PROVE  OneAtATime'
    <2>1. Changed.kind # "Switched"
        BY KindsApart
    <2>2. \A i \in 1..Len(chan') : chan'[i].kind = "Switched" =>
             i + 1 \in 1..Len(chan) /\ chan[i + 1].kind = "Switched"
        BY <1>0, <1>8, <2>1
    <2> QED
        BY <1>8, <2>2 DEF OneAtATime
<1>9. CASE HandleDelta \/ HandleFailed
    <2>1. Changed \in Messages /\ chan # <<>> /\ chan' = Append(Tail(chan), Changed)
        BY <1>9 DEF HandleDelta, HandleFailed, Receive, Messages
    <2>2. UNCHANGED <<switching, store>>
        BY <1>9 DEF HandleDelta, HandleFailed, shown
    <2> QED
        BY <1>8, <2>1, <2>2, RelayType
<1>10. CASE HandleChanged
    <2>1. chan # <<>> /\ chan' = Tail(chan) /\ UNCHANGED <<switching, store>>
        BY <1>10 DEF HandleChanged, Receive
    <2>2. /\ Len(Tail(chan)) = Len(chan) - 1
          /\ \A i \in 1..Len(chan) - 1 : Tail(chan)[i] = chan[i + 1]
        BY <2>1, HeadOfChan
    <2>3. Len(chan') = Len(chan) - 1 /\ Len(chan') # Len(chan)
        <3>1. Len(chan') = Len(chan) - 1
            BY <2>1, <2>2
        <3> QED
            BY <1>0, <3>1
    <2> QED
        BY <1>8, <2>1, <2>2, <2>3
<1>11. ASSUME NEW c \in Contexts, SwapClient(c)
       PROVE  OneAtATime'
    <2>1. /\ store < MaxStores /\ UNCHANGED <<chan, store>>
          /\ \A i \in 1..Len(chan) : chan[i].kind # "Switched"
        BY <1>11 DEF SwapClient, Settled, shown
    <2> QED
        BY <2>1 DEF OneAtATime
<1> QED
    BY <1>1, <1>2, <1>4, <1>5, <1>6, <1>7, <1>9, <1>10, <1>11
       DEF Next, Fetching, UiStep

\* The cursor moves only when no request is out.
LEMMA AskedAtCursorStep ==
    ASSUME TypeOK, AskedAtCursor, [Next]_vars
    PROVE  AskedAtCursor'
<1>1. CASE UNCHANGED <<pc, after, cursor>>
    BY <1>1 DEF AskedAtCursor
<1>2. CASE pc' # "asked"
    BY <1>2 DEF AskedAtCursor
<1>3. CASE Ask
    BY <1>3 DEF Ask, AskedAtCursor
<1>4. CASE AnswerOk \/ AnswerErr \/ Send \/ HandleSwitched
    BY <1>2, <1>4 DEF AnswerOk, AnswerErr, Send, HandleSwitched
<1>5. CASE Expire \/ Report \/ HandleDelta \/ HandleFailed \/ HandleChanged
    BY <1>1, <1>5 DEF Expire, Report, HandleDelta, HandleFailed, HandleChanged, task
<1>6. CASE \E c \in Contexts : Record(c) \/ SwapClient(c)
    BY <1>1, <1>6 DEF Record, SwapClient, task
<1>7. CASE UNCHANGED vars
    BY <1>1, <1>7 DEF vars, task
<1> QED
    BY <1>3, <1>4, <1>5, <1>6, <1>7 DEF Next, Fetching, UiStep

-----------------------------------------------------------------------------
(* Order and gaps.                                                         *)

InRing(i, n) == Own(ring[i]) /\ ring[i].id = n

Places ==
    \A n : n \in Kept <=> \/ \E i \in 1..Len(ring) : InRing(i, n)
                          \/ \E i \in 1..Len(chan) : InChan(i, n)
                          \/ InUpdate(n)

LEMMA KeptIs == Places
<1> SUFFICES ASSUME NEW n
             PROVE  n \in Kept <=> \/ \E i \in 1..Len(ring) : InRing(i, n)
                                   \/ \E i \in 1..Len(chan) : InChan(i, n)
                                   \/ InUpdate(n)
    BY DEF Places
<1>1. n \in OwnIn(ring) <=> \E i \in 1..Len(ring) : InRing(i, n)
    BY DEF OwnIn, InRing
<1>2. n \in UnderWay <=> (\E i \in 1..Len(chan) : InChan(i, n)) \/ InUpdate(n)
    <2> DEFINE own == {Ids(chan[i].ids) : i \in {j \in 1..Len(chan) :
                          chan[j].kind = "Delta" /\ chan[j].store = store}}
               mine == IF update.kind = "Delta" THEN Ids(update.ids) ELSE {}
    <2>1. UnderWay = UNION (own \cup {mine})
        BY DEF UnderWay
    <2>2. n \in UNION (own \cup {mine}) <=> n \in UNION own \/ n \in mine
        OBVIOUS
    <2>3. n \in UNION own <=> \E i \in 1..Len(chan) : InChan(i, n)
        BY DEF InChan, OwnDelta
    <2>4. n \in mine <=> InUpdate(n)
        BY DEF InUpdate
    <2> QED
        BY <2>1, <2>2, <2>3, <2>4
<1> QED
    BY <1>1, <1>2 DEF Kept

\* Fetched ids are bulletins' ids.
LEMMA KeptType ==
    ASSUME TypeOK
    PROVE  /\ \A i \in 1..Len(chan) : \A n : InChan(i, n) => n \in 1..MaxId
           /\ \A n : InUpdate(n) => n \in 1..MaxId
           /\ \A i \in 1..Len(ring) : \A n : InRing(i, n) => n \in 1..MaxId
           /\ \A n \in Kept : n \in 1..MaxId
<1>1. ASSUME NEW i \in 1..Len(chan), NEW n, InChan(i, n)
      PROVE  n \in 1..MaxId
    <2>1. chan[i] \in Messages /\ chan[i].kind = "Delta" /\ n \in Ids(chan[i].ids)
        BY <1>1, InChanIsMessage DEF InChan, OwnDelta
    <2>2. chan[i].ids \in Batches
        BY <2>1, DeltaShape
    <2> QED
        BY <2>1, <2>2, BatchShape
<1>2. ASSUME NEW n, InUpdate(n)
      PROVE  n \in 1..MaxId
    <2>1. update \in Messages \cup {Nothing} /\ update.kind = "Delta" /\ n \in Ids(update.ids)
        BY <1>2 DEF InUpdate, TypeOK, Messages
    <2>2. update.ids \in Batches
        BY <2>1, DeltaShape
    <2> QED
        BY <2>1, <2>2, BatchShape
<1>3. ASSUME NEW i \in 1..Len(ring), NEW n, InRing(i, n)
      PROVE  n \in 1..MaxId
    <2>1. ring[i] \in Entries
        BY ElementOfSeq DEF TypeOK
    <2> QED
        BY <1>3, <2>1 DEF InRing, Entries
<1> QED
    BY <1>1, <1>2, <1>3, KeptIs DEF Places

\* Nothing is missing as long as the cursor stays, and what leaves the ring is
\* older than all that is left.
LEMMA NoGapKeeps ==
    ASSUME TypeOK, NoGap, UNCHANGED <<cursor, cut>>,
           Kept' \subseteq Kept,
           \A n \in Kept', m \in Kept : n <= m => m \in Kept'
    PROVE  NoGap'
<1> SUFFICES ASSUME NEW n \in Kept', NEW m \in n..cursor
             PROVE  m \in Kept' \cup cut
    BY DEF NoGap
<1>1. n \in Kept /\ n \in 1..MaxId
    BY KeptType
<1>2. m \in Kept \cup cut /\ n <= m
    BY <1>1 DEF NoGap
<1> QED
    BY <1>2

\* The messages of the store's task are what they were, k places ahead.
LEMMA ShiftKeeps ==
    ASSUME TypeOK, InOrder, NoGap,
           UNCHANGED <<ring, store, cursor, cut>>,
           \A n : InUpdate(n)' <=> InUpdate(n),
           NEW k \in {0, 1},
           \A j \in 1..Len(chan)' : \A n :
               InChan(j, n)' => j + k \in 1..Len(chan) /\ InChan(j + k, n),
           \A j \in 1..Len(chan) : \A n :
               InChan(j, n) => j - k \in 1..Len(chan)' /\ InChan(j - k, n)'
    PROVE  InOrder' /\ NoGap'
<1>1. \A i : Own(ring[i])' <=> Own(ring[i])
    BY DEF Own
<1>2. \A i, n : InRing(i, n)' <=> InRing(i, n)
    BY <1>1 DEF InRing
<1>3. Kept' = Kept
    <2>1. Places /\ Places'
        BY KeptIs, PTL
    <2>2. \A n : (\E j \in 1..Len(chan)' : InChan(j, n)') <=> (\E j \in 1..Len(chan) : InChan(j, n))
        OBVIOUS
    <2>3. \A n : (\E i \in 1..Len(ring)' : InRing(i, n)') <=> (\E i \in 1..Len(ring) : InRing(i, n))
        BY <1>2
    <2>4. \A n : n \in Kept' <=> n \in Kept
        BY <2>1, <2>2, <2>3 DEF Places
    <2> QED
        BY <2>4
<1>4. NoGap'
    BY <1>3, NoGapKeeps
<1>5. \A i \in 1..Len(ring), j \in 1..Len(chan)' : \A n :
          Own(ring[i]) /\ InChan(j, n)' => ring[i].id < n
    BY DEF InOrder
<1>6. \A i, j \in 1..Len(chan)' : \A m, n : i < j /\ InChan(i, m)' /\ InChan(j, n)' => m < n
    <2> SUFFICES ASSUME NEW i \in 1..Len(chan)', NEW j \in 1..Len(chan)', NEW m, NEW n,
                        i < j, InChan(i, m)', InChan(j, n)'
                 PROVE  m < n
        OBVIOUS
    <2>1. i + k \in 1..Len(chan) /\ j + k \in 1..Len(chan) /\ i + k < j + k
        OBVIOUS
    <2> QED
        BY <2>1 DEF InOrder
<1>7. \A i \in 1..Len(chan)' : \A m, n : InChan(i, m)' /\ InUpdate(n)' => m < n
    BY DEF InOrder
<1>8. InOrder'
    BY <1>1, <1>3, <1>5, <1>6, <1>7 DEF InOrder
<1> QED
    BY <1>4, <1>8

\* A step that only touches other things.
LEMMA QuietKeeps ==
    ASSUME TypeOK, InOrder, NoGap, UNCHANGED <<ring, store, cursor, cut, chan, update>>
    PROVE  InOrder' /\ NoGap'
<1>1. \A n : InUpdate(n)' <=> InUpdate(n)
    BY DEF InUpdate
<1>2. \A j : \A n : InChan(j, n)' <=> InChan(j, n)
    BY DEF InChan, OwnDelta
<1>3. \A j \in 1..Len(chan) : j + 0 \in 1..Len(chan) /\ j - 0 \in 1..Len(chan) /\ j + 0 = j /\ j - 0 = j
    BY LenProperties DEF TypeOK
<1> QED
    BY <1>1, <1>2, <1>3, ShiftKeeps

\* A message of another store, or none of a task's, goes to the end.
LEMMA DeliverKeeps ==
    ASSUME TypeOK, InOrder, NoGap, NEW m \in Messages, Deliver(m), ~OwnDelta(m),
           UNCHANGED <<ring, store, cursor, cut, update>>
    PROVE  InOrder' /\ NoGap'
<1>0. Len(chan) \in Nat
    BY LenProperties DEF TypeOK
<1>1. \A n : InUpdate(n)' <=> InUpdate(n)
    BY DEF InUpdate
<1>2. /\ Len(chan') = Len(chan) + 1 /\ chan'[Len(chan) + 1] = m
      /\ \A i \in 1..Len(chan) : chan'[i] = chan[i]
    BY DeliverType
<1>3. \A j \in 1..Len(chan) : \A n : InChan(j, n)' <=> InChan(j, n)
    BY <1>2 DEF InChan, OwnDelta
<1>4. \A j, n : j = Len(chan) + 1 => ~InChan(j, n)'
    BY <1>2 DEF InChan, OwnDelta
<1>5. \A j \in 1..Len(chan') : j \in 1..Len(chan) \/ j = Len(chan) + 1
    BY <1>0, <1>2
<1>6. \A j \in 1..Len(chan)' : \A n : InChan(j, n)' => j + 0 \in 1..Len(chan) /\ InChan(j + 0, n)
    BY <1>0, <1>3, <1>4, <1>5
<1>7. \A j \in 1..Len(chan) : \A n : InChan(j, n) => j - 0 \in 1..Len(chan)' /\ InChan(j - 0, n)'
    BY <1>0, <1>2, <1>3
<1> QED
    BY <1>1, <1>6, <1>7, ShiftKeeps

\* The head is taken, and was none of the store's batches.
LEMMA TakeKeeps ==
    ASSUME TypeOK, InOrder, NoGap, chan # <<>>, ~OwnDelta(chan[1]),
           chan' = Tail(chan) \/ chan' = Append(Tail(chan), Changed),
           UNCHANGED <<ring, store, cursor, cut, update>>
    PROVE  InOrder' /\ NoGap'
<1>0. Len(chan) \in Nat \ {0}
    BY HeadOfChan
<1>1. \A n : InUpdate(n)' <=> InUpdate(n)
    BY DEF InUpdate
<1>2. /\ \A i \in 1..Len(chan) - 1 : chan'[i] = chan[i + 1]
      /\ \/ Len(chan') = Len(chan) - 1
         \/ Len(chan') = Len(chan) /\ chan'[Len(chan)] = Changed
    <2>1. Changed \in Messages
        BY DEF Messages
    <2> QED
        BY <2>1, HeadOfChan, RelayType
<1>3. \A j \in 1..Len(chan) - 1 : \A n : InChan(j, n)' <=> InChan(j + 1, n)
    BY <1>2 DEF InChan, OwnDelta
<1>4. Len(chan') = Len(chan) => \A n : ~InChan(Len(chan), n)'
    BY <1>0, <1>2, KindsApart DEF InChan, OwnDelta
<1>5. \A j \in 1..Len(chan') : j \in 1..Len(chan) - 1 \/ (j = Len(chan) /\ Len(chan') = Len(chan))
    BY <1>0, <1>2
<1>6. \A j \in 1..Len(chan)' : \A n : InChan(j, n)' => j + 1 \in 1..Len(chan) /\ InChan(j + 1, n)
    BY <1>0, <1>3, <1>4, <1>5
<1>7. ASSUME NEW j \in 1..Len(chan), NEW n, InChan(j, n)
      PROVE  j - 1 \in 1..Len(chan)' /\ InChan(j - 1, n)'
    <2>1. j # 1
        BY <1>7 DEF InChan
    <2>2. j - 1 \in 1..Len(chan) - 1 /\ (j - 1) + 1 = j
        BY <1>0, <2>1
    <2>3. j - 1 \in 1..Len(chan)'
        BY <1>0, <1>2, <2>2
    <2>4. InChan(j - 1, n)' <=> InChan((j - 1) + 1, n)
        BY <1>3, <2>2
    <2> QED
        BY <1>7, <2>2, <2>3, <2>4
<1> QED
    BY <1>1, <1>6, <1>7, ShiftKeeps

\* The task's message becomes the last of the channel.
LEMMA SendKeeps ==
    ASSUME TypeOK, Stamped, InOrder, NoGap, Send
    PROVE  InOrder' /\ NoGap'
<1>0. Len(chan) \in Nat
    BY LenProperties DEF TypeOK
<1>1. update \in Messages /\ (update.kind = "Delta" => OwnDelta(update))
    BY DEF Send, Stamped, TypeOK, Messages, OwnDelta
<1>2. /\ Len(chan') = Len(chan) + 1 /\ chan'[Len(chan) + 1] = update
      /\ \A i \in 1..Len(chan) : chan'[i] = chan[i]
    BY <1>1, DeliverType DEF Send
<1>3. UNCHANGED <<ring, store, cursor, cut>> /\ update' = Nothing
    BY DEF Send, shown
<1>4. \A j \in 1..Len(chan) : \A n : InChan(j, n)' <=> InChan(j, n)
    BY <1>2, <1>3 DEF InChan, OwnDelta
<1>5. \A j, n : j = Len(chan) + 1 => (InChan(j, n)' <=> InUpdate(n))
    BY <1>1, <1>2, <1>3 DEF InChan, OwnDelta, InUpdate
<1>6. \A n : ~InUpdate(n)'
    BY <1>3, KindsApart DEF InUpdate
<1>7. \A j \in 1..Len(chan)' : (j \in 1..Len(chan) /\ j < Len(chan) + 1) \/ j = Len(chan) + 1
    BY <1>0, <1>2
<1>8. 1..Len(chan) \subseteq 1..Len(chan)' /\ Len(chan) + 1 \in 1..Len(chan)'
    BY <1>0, <1>2
<1>9. \A i, n : InRing(i, n)' <=> InRing(i, n)
    BY <1>3 DEF InRing, Own
<1>10. Kept' = Kept
    <2>1. Places /\ Places'
        BY KeptIs, PTL
    <2>2. \A n : (\E j \in 1..Len(chan)' : InChan(j, n)')
                   <=> (\E j \in 1..Len(chan) : InChan(j, n)) \/ InUpdate(n)
        BY <1>4, <1>5, <1>7, <1>8
    <2>3. \A n : (\E i \in 1..Len(ring)' : InRing(i, n)') <=> (\E i \in 1..Len(ring) : InRing(i, n))
        BY <1>3, <1>9
    <2>4. \A n : n \in Kept' <=> n \in Kept
        BY <1>6, <2>1, <2>2, <2>3 DEF Places
    <2> QED
        BY <2>4
<1>11. NoGap'
    BY <1>3, <1>10, NoGapKeeps
<1>12. \A i \in 1..Len(ring), j \in 1..Len(chan)' : \A n :
           Own(ring[i]) /\ InChan(j, n)' => ring[i].id < n
    BY <1>4, <1>5, <1>7 DEF InOrder
<1>13. \A i, j \in 1..Len(chan)' : \A m, n : i < j /\ InChan(i, m)' /\ InChan(j, n)' => m < n
    <2> SUFFICES ASSUME NEW i \in 1..Len(chan)', NEW j \in 1..Len(chan)', NEW m, NEW n,
                        i < j, InChan(i, m)', InChan(j, n)'
                 PROVE  m < n
        OBVIOUS
    <2>1. i \in 1..Len(chan) /\ InChan(i, m)
        BY <1>0, <1>2, <1>4
    <2>2. CASE j \in 1..Len(chan)
        BY <1>4, <2>1, <2>2 DEF InOrder
    <2>3. CASE j = Len(chan) + 1
        BY <1>5, <2>1, <2>3 DEF InOrder
    <2> QED
        BY <1>7, <2>2, <2>3
<1>14. \A i : Own(ring[i])' <=> Own(ring[i])
    BY <1>3 DEF Own
<1>15. InOrder'
    BY <1>3, <1>6, <1>10, <1>12, <1>13, <1>14 DEF InOrder
<1> QED
    BY <1>11, <1>15

\* The answer's bulletins come after the cursor, and the cursor goes to the
\* last of them; what the answer left out is in cut.
LEMMA AnswerKeeps ==
    ASSUME TypeOK, Stamped, AskedAtCursor, InOrder, NoGap, AnswerOk
    PROVE  InOrder' /\ NoGap'
<1>1. PICK ids \in Answers(client) :
         /\ cursor' = Highest(ids, cursor)
         /\ update' = Delta(store, client, ids)
         /\ cut' = cut \cup {n \in (cursor + 1)..Highest(ids, cursor) : n \notin Ids(ids)}
    BY DEF AnswerOk, AskedAtCursor
<1>2. UNCHANGED <<ring, store, chan>> /\ after = cursor /\ cursor \in Nat
    BY DEF AnswerOk, shown, AskedAtCursor, TypeOK
<1>3. /\ ids \in Seq(1..MaxId) /\ Len(ids) \in Nat /\ Ascending(ids) /\ Ids(ids) \subseteq 1..MaxId
      /\ Ids(ids) \subseteq (cursor + 1)..recorded[client]
    BY <1>1, <1>2, BatchShape DEF Answers, Due
<1>4. \A n \in Ids(ids) : n \in Nat /\ cursor < n
    <2>1. recorded[client] \in Nat
        BY DEF TypeOK
    <2> QED
        BY <1>2, <1>3, <2>1
<1>5. cursor' \in Nat /\ cursor <= cursor' /\ \A n \in Ids(ids) : n <= cursor'
    <2>1. CASE Len(ids) = 0
        <3>1. ids = <<>> /\ Ids(ids) = {}
            BY <1>3, <2>1, EmptySeq DEF Ids
        <3> QED
            BY <1>1, <1>2, <3>1 DEF Highest
    <2>2. CASE Len(ids) # 0
        <3>1. Len(ids) \in 1..Len(ids) /\ ids # <<>>
            BY <1>3, <2>2
        <3>2. ids[Len(ids)] \in Ids(ids)
            BY <3>1 DEF Ids
        <3>3. cursor' = ids[Len(ids)]
            BY <1>1, <1>2, <1>4, <3>1, <3>2 DEF Highest
        <3>4. \A i \in 1..Len(ids) : i = Len(ids) \/ ids[i] < ids[Len(ids)]
            BY <1>3, <3>1 DEF Ascending
        <3>5. \A n \in Ids(ids) : n <= ids[Len(ids)]
            <4> SUFFICES ASSUME NEW i \in 1..Len(ids)
                         PROVE  ids[i] <= ids[Len(ids)]
                BY DEF Ids
            <4>1. ids[i] \in Nat /\ ids[Len(ids)] \in Nat
                BY <1>4, <3>1 DEF Ids
            <4> QED
                BY <3>4, <4>1
        <3> QED
            BY <1>2, <1>4, <3>2, <3>3, <3>5
    <2> QED
        BY <2>1, <2>2
<1>6. update = Nothing /\ \A n : ~InUpdate(n)
    BY KindsApart DEF AnswerOk, Stamped, InUpdate
<1>7. \A n : InUpdate(n)' <=> n \in Ids(ids)
    BY <1>1 DEF InUpdate, Delta
<1>8. \A j, n : InChan(j, n)' <=> InChan(j, n)
    BY <1>2 DEF InChan, OwnDelta
<1>9. \A i, n : InRing(i, n)' <=> InRing(i, n)
    BY <1>2 DEF InRing, Own
<1>10. Kept' = Kept \cup Ids(ids)
    <2>1. Places /\ Places'
        BY KeptIs, PTL
    <2>2. \A n : n \in Kept' <=> n \in Kept \/ n \in Ids(ids)
        BY <1>2, <1>6, <1>7, <1>8, <1>9, <2>1 DEF Places
    <2> QED
        BY <2>2
<1>11. \A n \in Kept : n \in Nat /\ n <= cursor
    BY KeptType DEF InOrder
<1>12. InOrder'
    <2>1. \A i : Own(ring[i])' <=> Own(ring[i])
        BY <1>2 DEF Own
    <2>2. \A i \in 1..Len(ring) : \A n : Own(ring[i]) /\ n \in Ids(ids) => ring[i].id < n
        <3> SUFFICES ASSUME NEW i \in 1..Len(ring), NEW n \in Ids(ids), Own(ring[i])
                     PROVE  ring[i].id < n
            OBVIOUS
        <3>1. ring[i].id \in Kept
            BY KeptIs DEF Places, InRing
        <3> QED
            BY <1>2, <1>4, <1>11, <3>1
    <2>3. \A i \in 1..Len(chan) : \A m, n : InChan(i, m) /\ n \in Ids(ids) => m < n
        <3> SUFFICES ASSUME NEW i \in 1..Len(chan), NEW m, NEW n \in Ids(ids), InChan(i, m)
                     PROVE  m < n
            OBVIOUS
        <3>1. m \in Kept
            BY KeptIs DEF Places
        <3> QED
            BY <1>2, <1>4, <1>11, <3>1
    <2>4. \A n \in Kept' : n <= cursor'
        BY <1>2, <1>5, <1>10, <1>11
    <2> QED
        BY <1>2, <1>7, <1>8, <2>1, <2>2, <2>3, <2>4 DEF InOrder
<1>13. NoGap'
    <2> SUFFICES ASSUME NEW n \in Kept', NEW m \in n..cursor'
                 PROVE  m \in Kept' \cup cut'
        BY DEF NoGap
    <2>1. n \in Nat /\ m \in Nat /\ n <= m /\ m <= cursor'
        BY <1>4, <1>5, <1>10, <1>11
    <2>2. CASE m <= cursor
        <3>1. n \in Kept
            BY <1>2, <1>4, <1>10, <2>1, <2>2
        <3>2. m \in n..cursor
            BY <1>2, <2>1, <2>2
        <3> QED
            BY <1>1, <1>10, <3>1, <3>2 DEF NoGap
    <2>3. CASE m > cursor
        <3>1. m \in (cursor + 1)..cursor'
            BY <1>2, <1>5, <2>1, <2>3
        <3> QED
            BY <1>1, <1>10, <3>1
    <2> QED
        BY <1>2, <2>1, <2>2, <2>3
<1> QED
    BY <1>12, <1>13

\* A new store has fetched nothing.
LEMMA SwitchedKeeps ==
    ASSUME TypeOK, Stamped, HandleSwitched
    PROVE  InOrder' /\ NoGap'
<1>1. /\ chan' = Tail(chan) /\ Len(Tail(chan)) = Len(chan) - 1
      /\ \A i \in 1..Len(chan) - 1 : Tail(chan)[i] = chan[i + 1]
      /\ Len(chan) \in Nat \ {0}
    BY HeadOfChan DEF HandleSwitched, Receive
<1>2. store' = store + 1 /\ store \in Nat /\ update' = Nothing /\ ring' = <<>>
    BY DEF HandleSwitched, TypeOK
<1>3. \A n : ~InUpdate(n)'
    BY <1>2, KindsApart DEF InUpdate
<1>4. \A j \in 1..Len(chan)' : \A n : ~InChan(j, n)'
    <2> SUFFICES ASSUME NEW j \in 1..Len(chan)', OwnDelta(chan[j])'
                 PROVE  FALSE
        BY DEF InChan
    <2>1. chan'[j] = chan[j + 1] /\ j + 1 \in 1..Len(chan)
        BY <1>1
    <2>2. chan[j + 1].kind = "Delta" /\ chan[j + 1].store = store + 1
        BY <1>2, <2>1 DEF OwnDelta
    <2>3. chan[j + 1].store <= store
        BY <2>1, <2>2 DEF Stamped
    <2> QED
        BY <1>2, <2>2, <2>3
<1>5. 1..Len(ring)' = {}
    BY <1>2
<1>6. Kept' = {}
    <2>1. Places'
        BY KeptIs, PTL
    <2> QED
        BY <1>3, <1>4, <1>5, <2>1 DEF Places
<1> QED
    BY <1>3, <1>4, <1>5, <1>6 DEF InOrder, NoGap

\* A batch is merged: what the ring keeps is the newest of what was kept.
LEMMA MergeKeeps ==
    ASSUME TypeOK, InOrder, NoGap, HandleDelta
    PROVE  InOrder' /\ NoGap'
<1>1. chan # <<>> /\ chan[1] \in Messages /\ chan[1].kind = "Delta" /\ ring' = Merge(chan[1])
    BY HeadOfChan DEF HandleDelta, Receive
<1>2. chan' = Append(Tail(chan), Changed) /\ Changed \in Messages
      /\ UNCHANGED <<store, cursor, cut, update>>
    BY DEF HandleDelta, Receive, Messages, task
<1>3. /\ Len(chan') = Len(chan) /\ chan'[Len(chan)] = Changed
      /\ \A i \in 1..Len(chan) - 1 : chan'[i] = chan[i + 1]
      /\ Len(chan) \in Nat \ {0}
    BY <1>1, <1>2, RelayType, HeadOfChan
<1> DEFINE new == chan[1].ids
           L == Len(ring)
<1>4. new \in Batches
    BY <1>1, DeltaShape
<1>5. /\ Len(new) \in Nat /\ L \in Nat /\ Ascending(new)
      /\ \A k \in 1..Len(new) : new[k] \in 1..MaxId
    <2>1. ring \in Seq(Entries)
        BY DEF TypeOK
    <2>2. new \in Seq(1..MaxId) /\ Ascending(new) /\ Len(new) \in Nat
        BY <1>4, BatchShape
    <2> QED
        BY <2>1, <2>2, LenProperties
<1>6. PICK d \in 0..L + Len(new) :
         /\ Len(ring') = L + Len(new) - d
         /\ \A i \in 1..Len(ring') :
               /\ i + d <= L => ring'[i] = ring[i + d]
               /\ i + d > L =>
                     /\ i + d - L \in 1..Len(new)
                     /\ ring'[i].store = chan[1].store
                     /\ ring'[i].id = new[i + d - L]
    <2>1. ring \in Seq(Entries)
        BY DEF TypeOK
    <2> QED
        BY <1>1, <2>1, MergeShape
<1>7. \A k \in 1..Len(new) : OwnDelta(chan[1]) => InChan(1, new[k])
    BY DEF InChan, Ids
<1>8. \A i \in 1..L : Own(ring[i]) => InRing(i, ring[i].id) /\ ring[i].id \in 1..MaxId
    BY KeptType DEF InRing
<1> HIDE DEF new, L
<1>9. 1 \in 1..Len(chan)
    BY <1>3
\* An own row of the ring is one of the rows before, or one of the batch.
<1>10. ASSUME NEW i \in 1..Len(ring'), Own(ring[i])'
       PROVE  \/ /\ i + d \in 1..L /\ Own(ring[i + d])
                 /\ ring'[i] = ring[i + d]
              \/ /\ i + d - L \in 1..Len(new) /\ i + d > L /\ OwnDelta(chan[1])
                 /\ ring'[i].id = new[i + d - L]
    <2>1. CASE i + d <= L
        <3>1. ring'[i] = ring[i + d] /\ i + d \in 1..L
            BY <1>5, <1>6, <2>1
        <3> QED
            BY <1>2, <1>10, <3>1 DEF Own
    <2>2. CASE i + d > L
        BY <1>1, <1>2, <1>6, <1>10, <2>2 DEF Own, OwnDelta
    <2>3. i + d \in Nat
        BY <1>5, <1>6
    <2> QED
        BY <1>5, <2>1, <2>2, <2>3
<1>11. \A j \in 1..Len(chan)' : \A n : InChan(j, n)' => j + 1 \in 1..Len(chan) /\ InChan(j + 1, n)
    <2> SUFFICES ASSUME NEW j \in 1..Len(chan)', NEW n, InChan(j, n)'
                 PROVE  j + 1 \in 1..Len(chan) /\ InChan(j + 1, n)
        OBVIOUS
    <2>1. j # Len(chan)
        BY <1>3, KindsApart DEF InChan, OwnDelta
    <2>2. j \in 1..Len(chan) - 1 /\ j + 1 \in 1..Len(chan)
        BY <1>3, <2>1
    <2> QED
        BY <1>2, <1>3, <2>2 DEF InChan, OwnDelta
<1>12. \A n : InUpdate(n)' <=> InUpdate(n)
    BY <1>2 DEF InUpdate
<1>13. ASSUME NEW i \in 1..Len(ring'), NEW j \in 1..Len(ring'), i < j, Own(ring[i])', Own(ring[j])'
       PROVE  ring'[i].id < ring'[j].id
    <2>1. CASE i + d \in 1..L /\ Own(ring[i + d]) /\ ring'[i] = ring[i + d]
        <3>1. CASE j + d \in 1..L /\ Own(ring[j + d]) /\ ring'[j] = ring[j + d]
            <4>1. i + d < j + d
                BY <1>13, <1>6, <1>5
            <4> QED
                BY <2>1, <3>1, <4>1 DEF InOrder, L
        <3>2. CASE j + d - L \in 1..Len(new) /\ OwnDelta(chan[1]) /\ ring'[j].id = new[j + d - L]
            <4>1. InChan(1, ring'[j].id)
                BY <1>7, <3>2
            <4> QED
                BY <1>9, <2>1, <4>1 DEF InOrder, L
        <3> QED
            BY <1>10, <1>13, <3>1, <3>2
    <2>2. CASE i + d - L \in 1..Len(new) /\ i + d > L /\ ring'[i].id = new[i + d - L]
        <3>1. ~(j + d \in 1..L)
            BY <1>5, <1>6, <1>13, <2>2
        <3>2. j + d - L \in 1..Len(new) /\ ring'[j].id = new[j + d - L]
            BY <1>10, <1>13, <3>1
        <3>3. i + d - L < j + d - L
            BY <1>5, <1>6, <1>13
        <3> QED
            BY <1>5, <2>2, <3>2, <3>3 DEF Ascending
    <2> QED
        BY <1>10, <1>13, <2>1, <2>2
<1>14. ASSUME NEW i \in 1..Len(ring'), NEW j \in 1..Len(chan)', NEW n,
              Own(ring[i])', InChan(j, n)'
       PROVE  ring'[i].id < n
    <2>1. j + 1 \in 1..Len(chan) /\ InChan(j + 1, n) /\ 1 < j + 1
        BY <1>11, <1>14
    <2>2. CASE i + d \in 1..L /\ Own(ring[i + d]) /\ ring'[i] = ring[i + d]
        BY <2>1, <2>2 DEF InOrder, L
    <2>3. CASE i + d - L \in 1..Len(new) /\ OwnDelta(chan[1]) /\ ring'[i].id = new[i + d - L]
        BY <1>7, <1>9, <2>1, <2>3 DEF InOrder
    <2> QED
        BY <1>10, <1>14, <2>2, <2>3
<1>15. ASSUME NEW i \in 1..Len(ring'), NEW n, Own(ring[i])', InUpdate(n)
       PROVE  ring'[i].id < n
    <2>2. CASE i + d \in 1..L /\ Own(ring[i + d]) /\ ring'[i] = ring[i + d]
        BY <1>15, <2>2 DEF InOrder, L
    <2>3. CASE i + d - L \in 1..Len(new) /\ OwnDelta(chan[1]) /\ ring'[i].id = new[i + d - L]
        BY <1>7, <1>9, <1>15, <2>3 DEF InOrder
    <2> QED
        BY <1>10, <1>15, <2>2, <2>3
<1>16. \A i, j \in 1..Len(chan)' : \A m, n : i < j /\ InChan(i, m)' /\ InChan(j, n)' => m < n
    <2> SUFFICES ASSUME NEW i \in 1..Len(chan)', NEW j \in 1..Len(chan)', NEW m, NEW n,
                        i < j, InChan(i, m)', InChan(j, n)'
                 PROVE  m < n
        OBVIOUS
    <2>1. /\ i + 1 \in 1..Len(chan) /\ InChan(i + 1, m)
          /\ j + 1 \in 1..Len(chan) /\ InChan(j + 1, n) /\ i + 1 < j + 1
        BY <1>11
    <2> QED
        BY <2>1 DEF InOrder
<1>17. \A i \in 1..Len(chan)' : \A m, n : InChan(i, m)' /\ InUpdate(n)' => m < n
    BY <1>11, <1>12 DEF InOrder
<1>18. Places /\ Places'
    BY KeptIs, PTL
<1>19. Kept' \subseteq Kept
    <2> SUFFICES ASSUME NEW n \in Kept'
                 PROVE  n \in Kept
        OBVIOUS
    <2>1. CASE \E i \in 1..Len(ring)' : InRing(i, n)'
        <3>1. PICK i \in 1..Len(ring') : Own(ring[i])' /\ ring'[i].id = n
            BY <2>1 DEF InRing
        <3>2. CASE i + d \in 1..L /\ Own(ring[i + d]) /\ ring'[i] = ring[i + d]
            BY <1>18, <3>1, <3>2 DEF Places, InRing, L
        <3>3. CASE i + d - L \in 1..Len(new) /\ OwnDelta(chan[1]) /\ ring'[i].id = new[i + d - L]
            BY <1>7, <1>9, <1>18, <3>1, <3>3 DEF Places
        <3> QED
            BY <1>10, <3>1, <3>2, <3>3
    <2>2. CASE \E j \in 1..Len(chan)' : InChan(j, n)'
        BY <1>11, <1>18, <2>2 DEF Places
    <2>3. CASE InUpdate(n)'
        BY <1>12, <1>18, <2>3 DEF Places
    <2> QED
        BY <1>18, <2>1, <2>2, <2>3 DEF Places
<1>20. InOrder'
    BY <1>2, <1>12, <1>13, <1>14, <1>15, <1>16, <1>17, <1>19 DEF InOrder
\* What of the ring and of the batch is kept, and where it is.
<1>21. ASSUME NEW k \in 1..L, k > d, Own(ring[k]), NEW n, n = ring[k].id
       PROVE  n \in Kept'
    <2>0. Len(ring') = L + Len(new) - d /\ L \in Nat /\ Len(new) \in Nat /\ d \in Nat
        BY <1>5, <1>6
    <2>1. PICK i \in 1..Len(ring') : i = k - d /\ i + d = k
        <3>1. k - d \in 1..Len(ring') /\ (k - d) + d = k
            BY <2>0, <1>21
        <3> QED
            BY <3>1
    <2>2. ring'[i] = ring[k]
        BY <1>5, <1>6, <2>1
    <2>3. InRing(i, n)'
        BY <1>2, <1>21, <2>2 DEF InRing, Own
    <2> QED
        BY <1>18, <2>3 DEF Places
<1>22. ASSUME NEW k \in 1..Len(new), L + k > d, OwnDelta(chan[1]), NEW n, n = new[k]
       PROVE  n \in Kept'
    <2>0. Len(ring') = L + Len(new) - d /\ L \in Nat /\ Len(new) \in Nat /\ d \in Nat
        BY <1>5, <1>6
    <2>1. PICK i \in 1..Len(ring') : i = L + k - d /\ i + d > L /\ i + d - L = k
        <3> DEFINE at == L + k - d
        <3>1. at \in 1..Len(ring') /\ at + d > L /\ at + d - L = k
            BY <2>0, <1>22
        <3> QED
            BY <3>1
    <2>2. ring'[i].store = store /\ ring'[i].id = n
        BY <1>6, <1>22, <2>1 DEF OwnDelta
    <2>3. InRing(i, n)'
        BY <1>2, <2>2 DEF InRing, Own
    <2> QED
        BY <1>18, <2>3 DEF Places
<1>23. ASSUME NEW j \in 1..Len(chan), NEW n, j # 1, InChan(j, n)
       PROVE  n \in Kept'
    <2>1. PICK i \in 1..Len(chan)' : i = j - 1 /\ chan'[i] = chan[j]
        <3>0. Len(chan) \in Nat /\ j \in 1..Len(chan) /\ j # 1
            BY <1>3, <1>23
        <3>1. j - 1 \in 1..Len(chan) - 1 /\ (j - 1) + 1 = j
            BY <3>0
        <3>2. j - 1 \in 1..Len(chan)' /\ chan'[j - 1] = chan[(j - 1) + 1]
            BY <1>3, <3>1
        <3> QED
            BY <3>1, <3>2
    <2>2. InChan(i, n)'
        BY <1>2, <1>23, <2>1 DEF InChan, OwnDelta
    <2> QED
        BY <1>18, <2>2 DEF Places
<1>24. \A n \in Kept : n \in Nat
    BY KeptType
\* So what is dropped is older than all that is kept.
<1>25. ASSUME NEW n \in Kept', NEW m \in Kept, n <= m
       PROVE  m \in Kept'
    <2>1. CASE InUpdate(m)
        BY <1>12, <1>18, <2>1 DEF Places
    <2>2. ASSUME NEW j \in 1..Len(chan), InChan(j, m)
          PROVE  m \in Kept'
        <3>1. CASE j # 1
            BY <1>23, <2>2, <3>1
        <3>2. CASE j = 1
            <4>1. OwnDelta(chan[1]) /\ m \in Ids(new)
                BY <2>2, <3>2 DEF InChan, new
            <4>2. PICK k \in 1..Len(new) : new[k] = m
                BY <4>1 DEF Ids
            <4>3. CASE L + k > d
                BY <1>22, <4>1, <4>2, <4>3
            <4>4. CASE ~(L + k > d)
                <5>1. m < n
                    <6>1. ASSUME NEW i \in 1..Len(ring'), Own(ring[i])', ring'[i].id = n
                          PROVE  m < n
                        <7>1. i + d > L /\ i + d - L > k
                            BY <1>5, <1>6, <4>4
                        <7>2. i + d - L \in 1..Len(new) /\ n = new[i + d - L]
                            BY <1>6, <6>1, <7>1
                        <7> QED
                            BY <1>5, <4>2, <7>1, <7>2 DEF Ascending
                    <6>2. ASSUME NEW i \in 1..Len(chan)', InChan(i, n)'
                          PROVE  m < n
                        <7>1. i + 1 \in 1..Len(chan) /\ InChan(i + 1, n) /\ 1 < i + 1
                            BY <1>11, <6>2
                        <7> QED
                            BY <1>9, <2>2, <3>2, <7>1 DEF InOrder
                    <6>3. CASE InUpdate(n)'
                        BY <1>9, <1>12, <2>2, <3>2, <6>3 DEF InOrder
                    <6> QED
                        BY <1>18, <6>1, <6>2, <6>3 DEF Places, InRing
                <5>2. n \in Nat /\ m \in Nat
                    BY <1>19, <1>24
                <5> QED
                    BY <1>25, <5>1, <5>2
            <4> QED
                BY <4>3, <4>4
        <3> QED
            BY <3>1, <3>2
    <2>3. ASSUME NEW k \in 1..L, InRing(k, m)
          PROVE  m \in Kept'
        <3>1. CASE k > d
            BY <1>21, <2>3, <3>1 DEF InRing
        <3>2. CASE ~(k > d)
            <4>1. Own(ring[k]) /\ ring[k].id = m /\ k \in 1..Len(ring)
                BY <2>3 DEF InRing, L
            <4>2. m < n
                <5>1. ASSUME NEW i \in 1..Len(ring'), Own(ring[i])', ring'[i].id = n
                      PROVE  m < n
                    <6>1. CASE i + d \in 1..L /\ Own(ring[i + d]) /\ ring'[i] = ring[i + d]
                        <7>1. k < i + d
                            BY <1>5, <1>6, <3>2
                        <7> QED
                            BY <4>1, <5>1, <6>1, <7>1 DEF InOrder, L
                    <6>2. CASE i + d - L \in 1..Len(new) /\ OwnDelta(chan[1])
                               /\ ring'[i].id = new[i + d - L]
                        <7>1. InChan(1, n)
                            BY <1>7, <5>1, <6>2
                        <7> QED
                            BY <1>9, <4>1, <7>1 DEF InOrder
                    <6> QED
                        BY <1>10, <5>1, <6>1, <6>2
                <5>2. ASSUME NEW i \in 1..Len(chan)', InChan(i, n)'
                      PROVE  m < n
                    BY <1>11, <4>1, <5>2 DEF InOrder
                <5>3. CASE InUpdate(n)'
                    BY <1>12, <4>1, <5>3 DEF InOrder
                <5> QED
                    BY <1>18, <5>1, <5>2, <5>3 DEF Places, InRing
            <4>3. n \in Nat /\ m \in Nat
                BY <1>19, <1>24
            <4> QED
                BY <1>25, <4>2, <4>3
        <3> QED
            BY <3>1, <3>2
    <2> QED
        BY <1>18, <2>1, <2>2, <2>3 DEF Places, L
<1>26. NoGap'
    BY <1>2, <1>19, <1>25, NoGapKeeps
<1> QED
    BY <1>20, <1>26

LEMMA FeedInit == Init => FeedInv
<1> SUFFICES ASSUME Init PROVE FeedInv
    OBVIOUS
<1>1. First \in Contexts /\ 0 \in 0..MaxId /\ 1 \in 1..MaxStores /\ MaxStores \in Nat \ {0}
    BY DEF FeedAssumption
<1>2. TypeOK
    BY <1>1, EmptySeq DEF TypeOK, Init
<1>3. \A n : ~InUpdate(n)
    BY KindsApart DEF Init, InUpdate
<1>4. 1..Len(chan) = {} /\ 1..Len(ring) = {}
    BY DEF Init
<1>5. Kept = {}
    BY <1>3, <1>4, KeptIs DEF Places
<1>6. Stamped /\ OneAtATime /\ AskedAtCursor
    BY <1>4 DEF Init, Stamped, OneAtATime, AskedAtCursor
<1>7. InOrder /\ NoGap
    BY <1>3, <1>4, <1>5 DEF InOrder, NoGap
<1> QED
    BY <1>2, <1>6, <1>7 DEF FeedInv

\* Each step is one of those above, or merges a batch.
LEMMA FeedStep == FeedInv /\ [Next]_vars => FeedInv'
<1> SUFFICES ASSUME FeedInv, [Next]_vars PROVE FeedInv'
    OBVIOUS
<1>1. TypeOK /\ Stamped /\ OneAtATime /\ AskedAtCursor /\ InOrder /\ NoGap
    BY DEF FeedInv
<1>2. TypeOK'
    BY <1>1, FeedTypeStep
<1>3. Stamped' /\ OneAtATime' /\ AskedAtCursor'
    BY <1>1, <1>2, StampedStep, OneAtATimeStep, AskedAtCursorStep
<1>4. InOrder' /\ NoGap'
    <2>1. CASE Ask \/ UNCHANGED vars \/ \E c \in Contexts : Record(c) \/ SwapClient(c)
        <3>1. UNCHANGED <<ring, store, cursor, cut, chan, update>>
            BY <2>1 DEF Ask, Record, SwapClient, vars, task, shown
        <3> QED
            BY <1>1, <3>1, QuietKeeps
    <2>2. CASE AnswerOk
        BY <1>1, <2>2, AnswerKeeps
    <2>3. CASE AnswerErr
        <3>1. UNCHANGED <<ring, store, cursor, cut, chan>>
              /\ update = Nothing /\ update' = Failed(store)
            BY <1>1, <2>3 DEF AnswerErr, shown, Stamped
        <3>2. \A n : ~InUpdate(n) /\ ~InUpdate(n)'
            BY <3>1, KindsApart DEF InUpdate
        <3>3. \A j, n : InChan(j, n)' <=> InChan(j, n)
            BY <3>1 DEF InChan, OwnDelta
        <3>4. \A j \in 1..Len(chan) : j + 0 = j /\ j - 0 = j
            BY <1>1, LenProperties DEF TypeOK
        <3> QED
            BY <1>1, <3>1, <3>2, <3>3, <3>4, ShiftKeeps
    <2>4. CASE Send
        BY <1>1, <2>4, SendKeeps
    <2>5. CASE Expire
        <3>1. PICK m \in dying : Deliver(m) \/ UNCHANGED chan
            BY <2>5 DEF Expire
        <3>2. UNCHANGED <<ring, store, cursor, cut, update>>
            BY <2>5 DEF Expire, task, shown
        <3>3. m \in Messages /\ m.store < store
            BY <1>1 DEF TypeOK, Messages, Stamped
        <3>4. store \in 1..MaxStores
            BY <1>1 DEF TypeOK
        <3>5. ~OwnDelta(m)
            BY <3>3, <3>4 DEF OwnDelta
        <3> QED
            BY <1>1, <3>1, <3>2, <3>3, <3>5, QuietKeeps, DeliverKeeps
    <2>6. CASE Report
        <3>1. /\ UNCHANGED <<ring, store, cursor, cut, update>>
              /\ Deliver(Switched(switching)) /\ Switched(switching) \in Messages
            BY <1>1, <2>6 DEF Report, task, shown, Messages, TypeOK
        <3>2. ~OwnDelta(Switched(switching))
            BY DEF Switched, OwnDelta
        <3> QED
            BY <1>1, <3>1, <3>2, DeliverKeeps
    <2>7. CASE HandleSwitched
        BY <1>1, <2>7, SwitchedKeeps
    <2>8. CASE HandleDelta
        BY <1>1, <2>8, MergeKeeps
    <2>9. CASE HandleFailed \/ HandleChanged
        <3>1. /\ chan # <<>> /\ UNCHANGED <<ring, store, cursor, cut, update>>
              /\ chan' = Tail(chan) \/ chan' = Append(Tail(chan), Changed)
              /\ Head(chan).kind # "Delta"
            BY <2>9 DEF HandleFailed, HandleChanged, Receive, task, shown
        <3>2. ~OwnDelta(chan[1])
            BY <1>1, <3>1, HeadOfChan DEF OwnDelta
        <3> QED
            BY <1>1, <3>1, <3>2, TakeKeeps
    <2> QED
        BY <2>1, <2>2, <2>3, <2>4, <2>5, <2>6, <2>7, <2>8, <2>9 DEF Next, Fetching, UiStep
<1> QED
    BY <1>2, <1>3, <1>4 DEF FeedInv

\* The invariant, of every state the feed gets to.
THEOREM FeedInvariant == Spec => []FeedInv
<1>1. Init => FeedInv
    BY FeedInit
<1>2. FeedInv /\ [Next]_vars => FeedInv'
    BY FeedStep
<1> QED
    BY <1>1, <1>2, PTL DEF Spec

\* Whatever the limits, the answers, the failures and the switches, the ring
\* is the tail of what its store fetched, in order and without a gap.
THEOREM RingStaysTail == Spec => []RingIsTail
<1>1. FeedInv => RingIsTail
    <2> SUFFICES ASSUME FeedInv
                 PROVE  RingIsTail
        OBVIOUS
    <2>1. TypeOK /\ InOrder /\ NoGap
        BY DEF FeedInv
    <2>2. \A n \in OwnIn(ring) : \A m \in n..cursor : m \in OwnIn(ring) \cup UnderWay \cup cut
        BY <2>1 DEF NoGap, Kept
    <2> QED
        BY <2>1, <2>2 DEF RingIsTail, InOrder
<1> QED
    BY <1>1, FeedInvariant, PTL

-----------------------------------------------------------------------------
(* The tab.                                                                *)

\* A set of naturals has a least element and, if bounded, a greatest.
LEMMA LeastExists ==
    ASSUME NEW S \in SUBSET Nat, S # {}
    PROVE  \E n \in S : \A k \in S : n <= k
<1> DEFINE R == OpToRel(<, Nat)
<1>1. IsWellFoundedOn(R, Nat)
    BY NatLessThanWellFounded
<1>2. R = {p \in Nat \X Nat : p[1] < p[2]}
    BY DEF OpToRel
<1> HIDE DEF R
<1>3. PICK n \in S : \A k \in S : ~(<<k, n>> \in R)
    BY <1>1, WFMin
<1>4. ASSUME NEW k \in S PROVE n <= k
    <2>1. n \in Nat /\ k \in Nat
        OBVIOUS
    <2>2. <<k, n>> \in R <=> k < n
        BY <1>2, <2>1
    <2>3. ~(k < n)
        BY <1>3, <2>2
    <2> QED
        BY <2>1, <2>3
<1> QED
    BY <1>4

LEMMA GreatestExists ==
    ASSUME NEW S \in SUBSET Nat, S # {}, NEW m \in Nat, \A k \in S : k <= m
    PROVE  \E n \in S : \A k \in S : k <= n
<1> DEFINE D == {m - k : k \in S}
<1>1. D \in SUBSET Nat /\ D # {}
    <2>1. \A k \in S : m - k \in Nat
        OBVIOUS
    <2> QED
        BY <2>1
<1>2. PICK d \in D : \A e \in D : d <= e
    <2> HIDE DEF D
    <2> QED
        BY <1>1, LeastExists
<1>3. PICK n \in S : d = m - n
    BY <1>2
<1>4. \A k \in S : m - n <= m - k
    BY <1>2, <1>3
<1> QED
    BY <1>3, <1>4

\* Leftmost chooses the least.
LEMMA LeftmostIs ==
    ASSUME NEW S \in SUBSET Nat, S # {}
    PROVE  Leftmost(S) \in S
<1>1. \E n \in S : \A k \in S : n <= k
    BY LeastExists
<1> QED
    BY <1>1 DEF Leftmost

\* What is in the window fits the ring.
LEMMA WindowSize ==
    ASSUME NEW n \in Nat
    PROVE  /\ Window(n) \subseteq 1..n /\ IsFiniteSet(Window(n))
           /\ Cardinality(Window(n)) <= RingSize
<1>1. RingSize \in Nat \ {0}
    BY TabAssumption
<1> DEFINE I == (n - RingSize + 1)..n
<1>2. Window(n) \subseteq 1..n /\ Window(n) \subseteq I
    BY <1>1 DEF Window
<1>3. IsFiniteSet(I) /\ Cardinality(I) = RingSize
    <2>1. n - RingSize + 1 \in Int /\ n \in Int /\ ~(n - RingSize + 1 > n)
          /\ n - (n - RingSize + 1) + 1 = RingSize
        BY <1>1
    <2> QED
        BY <2>1, FS_Interval
<1> HIDE DEF I
<1> QED
    BY <1>2, <1>3, FS_Subset

Modes == {"SourceAndMessage", "Source", "Off"}

\* What the list is like, whatever the filters: within the ring's size, and
\* every row in one group.
ListShape ==
    /\ Rows \subseteq 1..seen /\ IsFiniteSet(Rows) /\ Cardinality(Rows) <= RingSize
    /\ Groups \subseteq Rows
    /\ \A g : Position(g) \in 0..RingSize
    /\ Bottom \in 0..RingSize
    /\ Groups # {} => Bottom < RingSize
    /\ \A g \in Groups : Latest(g) \in Rows
    /\ \A b \in Rows : Covering(b) # {}

Listed == seen \in 0..MaxBulletins /\ mode \in Modes => ListShape

LEMMA ListHasShape == Listed
<1> SUFFICES ASSUME seen \in 0..MaxBulletins, mode \in Modes
             PROVE  ListShape
    BY DEF Listed
<1>1. RingSize \in Nat \ {0} /\ seen \in Nat
    BY TabAssumption
<1>2. Rows \subseteq 1..seen /\ IsFiniteSet(Rows) /\ Cardinality(Rows) <= RingSize
      /\ Cardinality(Rows) \in Nat
    <2>1. Rows \subseteq Window(seen)
        BY DEF Rows
    <2>2. /\ Window(seen) \subseteq 1..seen /\ IsFiniteSet(Window(seen))
          /\ Cardinality(Window(seen)) <= RingSize
        BY <1>1, WindowSize
    <2>3. IsFiniteSet(Rows) /\ Cardinality(Rows) <= Cardinality(Window(seen))
        BY <2>1, <2>2, FS_Subset
    <2>4. Cardinality(Rows) \in Nat /\ Cardinality(Window(seen)) \in Nat
        BY <2>2, <2>3, FS_CardinalityType
    <2> QED
        BY <1>1, <2>1, <2>2, <2>3, <2>4
<1>3. ASSUME NEW S \in SUBSET Rows
      PROVE  Cardinality(S) \in 0..RingSize
    <2>1. IsFiniteSet(S) /\ Cardinality(S) <= Cardinality(Rows)
        BY <1>2, FS_Subset
    <2>2. Cardinality(S) \in Nat
        BY <2>1, FS_CardinalityType
    <2> QED
        BY <1>1, <1>2, <2>1, <2>2
<1>4. Groups \subseteq Rows
    BY DEF Groups
<1>5. \A g : Position(g) \in 0..RingSize
    <2> TAKE g
    <2>1. {h \in Groups : h < g} \in SUBSET Rows
        BY <1>4
    <2> QED
        BY <1>3, <2>1 DEF Position
<1>6. Bottom \in 0..RingSize /\ (Groups # {} => Bottom < RingSize)
    <2>1. Cardinality(Groups) \in 0..RingSize
        BY <1>3, <1>4
    <2>2. Groups # {} => Cardinality(Groups) # 0
        <3>1. IsFiniteSet(Groups)
            BY <1>2, <1>4, FS_Subset
        <3> QED
            BY <3>1, FS_EmptySet
    <2> QED
        BY <1>1, <2>1, <2>2 DEF Bottom
<1>7. ASSUME NEW b \in Rows
      PROVE  /\ Latest(b) \in Rows /\ \A a \in Rows : SameGroup(a, b) => a <= Latest(b)
             /\ \E g \in Groups : SameGroup(g, b) /\ g <= b
    <2> DEFINE S == {a \in Rows : SameGroup(a, b)}
    <2>1. S \in SUBSET Nat /\ S # {} /\ \A k \in S : k <= seen
        <3>1. b \in S
            BY DEF SameGroup, Modes
        <3>2. \A k \in S : k \in Nat /\ k <= seen
            BY <1>1, <1>2
        <3> QED
            BY <3>1, <3>2
    <2>2. \E a \in S : \A k \in S : k <= a
        <3> HIDE DEF S
        <3> QED
            BY <1>1, <2>1, GreatestExists
    <2>3. Latest(b) \in Rows /\ \A a \in Rows : SameGroup(a, b) => a <= Latest(b)
        <3>1. \E a \in Rows : SameGroup(a, b) /\ \A k \in Rows : SameGroup(k, b) => k <= a
            BY <2>2
        <3> QED
            BY <3>1 DEF Latest
    <2>4. PICK g \in S : \A k \in S : g <= k
        <3> HIDE DEF S
        <3> QED
            BY <2>1, LeastExists
    <2>5. \A a \in Rows : SameGroup(a, g) => SameGroup(a, b)
        BY <2>4 DEF SameGroup, Modes
    <2>6. g \in Groups
        BY <2>4, <2>5 DEF Groups
    <2>7. g <= b
        BY <2>4 DEF SameGroup, Modes
    <2> QED
        BY <2>3, <2>4, <2>6, <2>7
<1>8. ASSUME NEW b \in Rows
      PROVE  Covering(b) # {}
    <2>1. PICK g \in Groups : SameGroup(g, b) /\ g <= b
        BY <1>7
    <2>2. SameGroup(b, g)
        BY <2>1 DEF SameGroup, Modes
    <2>3. b <= Latest(g)
        BY <1>4, <1>7, <2>1, <2>2
    <2> QED
        BY <2>1, <2>3 DEF Covering
<1> QED
    BY <1>2, <1>4, <1>5, <1>6, <1>7, <1>8 DEF ListShape

\* The selected row, if there is one, is listed.
LEMMA SelectedRowIs ==
    ASSUME TabTypeOK
    PROVE  /\ SelectedRow \in 0..seen /\ SelectedRow \in 0..MaxBulletins
           /\ SelectedRow # 0 => SelectedRow \in Rows /\ SelectedRow \in Numbers
<1>1. seen \in 0..MaxBulletins /\ mode \in Modes /\ MaxBulletins \in Nat
    BY TabAssumption DEF TabTypeOK, Modes
<1>2. ListShape
    BY <1>1, ListHasShape DEF Listed
<1>3. CASE SelectedGroups = {}
    <2>1. SelectedRow = 0
        BY <1>3 DEF SelectedRow
    <2> QED
        BY <1>1, <2>1
<1>4. CASE SelectedGroups # {}
    <2>1. PICK g \in SelectedGroups : SelectedRow = Latest(g)
        BY <1>4 DEF SelectedRow
    <2>2. SelectedRow \in Rows
        BY <1>2, <2>1 DEF ListShape, SelectedGroups
    <2>3. SelectedRow \in 1..seen
        BY <1>2, <2>2 DEF ListShape
    <2> QED
        BY <1>1, <2>2, <2>3 DEF Numbers
<1> QED
    BY <1>3, <1>4

\* Where the selection is put after a change of what is listed.
LEMMA ReconcileType ==
    ASSUME TabTypeOK, Reconcile, seen' = seen, mode' \in Modes
    PROVE  selected' \in 0..RingSize
<1>1. ListShape'
    <2>1. Listed'
        BY ListHasShape, PTL
    <2>2. last \in 0..MaxBulletins /\ seen \in 0..last /\ MaxBulletins \in Nat
        BY TabAssumption DEF TabTypeOK
    <2>3. seen' \in 0..MaxBulletins
        BY <2>2
    <2> QED
        BY <2>1, <2>3 DEF Listed
<1>2. PICK prev \in {SelectedRow} : selected' = Reconciled(prev)'
    BY DEF Reconcile
<1>3. (Bottom \in 0..RingSize)' /\ \A g : (Position(g) \in 0..RingSize)'
    BY <1>1 DEF ListShape
<1>4. 0 \in 0..RingSize
    BY TabAssumption
<1>5. (Reconciled(prev) \in 0..RingSize)'
    BY <1>3, <1>4 DEF Reconciled
<1> QED
    BY <1>2, <1>5

FilterStates == [show : SUBSET Severities, pin : Sources \cup {Any},
                 mutes : SUBSET Sources, type : Types \cup {Any}, word : Words]

LEMMA RefilterStep ==
    ASSUME BadgeCountsNew, NEW f \in FilterStates, Refilter(f), input' \in Words \cup {"off"}
    PROVE  BadgeCountsNew'
<1>1. UNCHANGED <<last, seen, mode, auto, badge, pausedAt, detail, search>>
      /\ filters' = f /\ Reconcile
    BY DEF Refilter, tail, modal
<1>2. TabTypeOK /\ mode' \in Modes
    BY <1>1 DEF BadgeCountsNew, TabTypeOK, Modes
<1>3. selected' \in 0..RingSize
    BY <1>1, <1>2, ReconcileType
<1>4. TabTypeOK'
    BY <1>1, <1>2, <1>3 DEF TabTypeOK, FilterStates
<1> QED
    BY <1>1, <1>4 DEF BadgeCountsNew

\* The steps of the tab keep the badge's count.
LEMMA FeedingStep ==
    ASSUME BadgeCountsNew, Feed
    PROVE  BadgeCountsNew'
<1>0. TabTypeOK /\ MaxBulletins \in Nat /\ RingSize \in Nat \ {0}
    BY TabAssumption DEF BadgeCountsNew
<1>1. CASE Grow
    <2>1. last' \in last + 1 .. MaxBulletins
          /\ UNCHANGED <<seen, filters, input, mode, selected, auto, badge, pausedAt, detail, search>>
        BY <1>1 DEF Grow, view, tail, modal
    <2>2. last' \in 0..MaxBulletins /\ seen' \in 0..last'
        <3>1. last \in 0..MaxBulletins /\ seen \in 0..last
            BY <1>0 DEF TabTypeOK
        <3> QED
            BY <1>0, <2>1, <3>1
    <2>3. TabTypeOK'
        BY <1>0, <2>1, <2>2 DEF TabTypeOK
    <2> QED
        BY <2>1, <2>3 DEF BadgeCountsNew
<1>2. CASE Redraw
    <2>1. seen' = last /\ UNCHANGED <<last, filters, mode, input, auto, pausedAt, detail, search>>
        BY <1>2 DEF Redraw, modal
    <2>2. last \in 0..MaxBulletins /\ seen \in 0..last /\ seen' \in 0..MaxBulletins /\ mode' \in Modes
        BY <1>0, <2>1 DEF TabTypeOK, Modes
    <2>3. ListShape'
        <3>1. Listed'
            BY ListHasShape, PTL
        <3> QED
            BY <2>2, <3>1 DEF Listed
    <2>4. selected' \in 0..RingSize
        <3>1. (Bottom \in 0..RingSize)' /\ \A g : (Position(g) \in 0..RingSize)'
            BY <2>3 DEF ListShape
        <3>2. CASE auto
            BY <1>2, <3>1, <3>2 DEF Redraw
        <3>3. CASE ~auto
            <4>1. PICK key \in {IF SelectedRow = 0 THEN <<>> ELSE KeyOf(SelectedRow)} :
                     IF WithKey(key)' = {} THEN UNCHANGED selected
                     ELSE selected' = Position(Leftmost(WithKey(key)))'
                BY <1>2, <3>3 DEF Redraw
            <4>2. (Position(Leftmost(WithKey(key))) \in 0..RingSize)'
                BY <3>1
            <4>3. selected \in 0..RingSize
                BY <1>0 DEF TabTypeOK
            <4> QED
                BY <4>1, <4>2, <4>3
        <3> QED
            BY <3>2, <3>3
    <2>5. Cardinality(NewRows) \in 0..(last - seen)
        <3>1. NewRows \subseteq (seen + 1)..last
            <4> SUFFICES ASSUME NEW b \in NewRows
                         PROVE  b \in (seen + 1)..last
                OBVIOUS
            <4>1. b \in 1..last /\ b + RingSize > last /\ ~(b \in 1..seen /\ b + RingSize > seen)
                BY DEF NewRows, Window
            <4> QED
                BY <1>0, <2>2, <4>1
        <3>2. IsFiniteSet((seen + 1)..last) /\ Cardinality((seen + 1)..last) = last - seen
            <4>1. seen + 1 \in Int /\ last \in Int
                BY <2>2
            <4>2. IF seen + 1 > last THEN 0 = last - seen ELSE last - (seen + 1) + 1 = last - seen
                BY <2>2
            <4> QED
                BY <4>1, <4>2, FS_Interval
        <3>3. IsFiniteSet(NewRows) /\ Cardinality(NewRows) <= last - seen
            BY <3>1, <3>2, FS_Subset
        <3>4. Cardinality(NewRows) \in Nat
            BY <3>3, FS_CardinalityType
        <3> QED
            BY <2>2, <3>3, <3>4
    <2>6. CASE auto
        <3>1. badge' = 0 /\ auto'
            BY <1>2, <2>1, <2>6 DEF Redraw
        <3>2. TabTypeOK'
            BY <1>0, <2>1, <2>2, <2>4, <3>1 DEF TabTypeOK
        <3> QED
            BY <3>1, <3>2 DEF BadgeCountsNew
    <2>7. CASE ~auto
        <3>1. badge' = badge + Cardinality(NewRows) /\ ~auto'
            BY <1>2, <2>1, <2>7 DEF Redraw
        <3>2. badge \in Nat /\ pausedAt \in 0..MaxBulletins /\ badge <= seen - pausedAt
            BY <1>0, <2>7 DEF BadgeCountsNew, TabTypeOK
        <3>3. badge' <= seen' - pausedAt' /\ badge' \in 0..MaxBulletins
            <4> DEFINE c == Cardinality(NewRows)
            <4>1. c \in 0..(last - seen) /\ badge' = badge + c /\ seen' = last /\ pausedAt' = pausedAt
                BY <2>1, <2>5, <3>1
            <4> HIDE DEF c
            <4> QED
                BY <1>0, <2>2, <3>2, <4>1
        <3>4. TabTypeOK'
            BY <1>0, <2>1, <2>2, <2>4, <3>3 DEF TabTypeOK
        <3> QED
            BY <3>1, <3>3, <3>4 DEF BadgeCountsNew
    <2>8. auto \in BOOLEAN
        BY <1>0 DEF TabTypeOK
    <2> QED
        BY <2>6, <2>7, <2>8
<1> QED
    BY <1>1, <1>2 DEF Feed

LEMMA MovingStep ==
    ASSUME BadgeCountsNew, Moves
    PROVE  BadgeCountsNew'
<1>0. TabTypeOK /\ MaxBulletins \in Nat /\ RingSize \in Nat \ {0}
    BY TabAssumption DEF BadgeCountsNew
<1>1. UNCHANGED <<last, seen, filters, mode, input, detail, search>>
    BY DEF Moves, MoveUp, MoveDown, GotoOldest, GotoNewest, TogglePause, Steady, modal
<1>2. ListShape
    <2>1. seen \in 0..MaxBulletins /\ mode \in Modes
        <3>1. last \in 0..MaxBulletins /\ seen \in 0..last
            BY <1>0 DEF TabTypeOK
        <3> QED
            BY <1>0, <3>1 DEF TabTypeOK, Modes
    <2> QED
        BY <2>1, ListHasShape DEF Listed
<1>3. /\ selected \in 0..RingSize /\ 0 \in 0..RingSize /\ Bottom \in 0..RingSize
      /\ Groups # {} => Bottom < RingSize
    BY <1>0, <1>2 DEF ListShape, TabTypeOK
<1>4. (Bottom' = Bottom) /\ (Groups' = Groups)
    BY <1>1 DEF Bottom, Groups, Rows, Matches, SameGroup
<1>5. selected' \in 0..RingSize
    <2>1. CASE MoveUp
        BY <1>0, <1>3, <2>1 DEF MoveUp
    <2>2. CASE MoveDown
        BY <1>0, <1>3, <2>2 DEF MoveDown
    <2>3. CASE GotoOldest \/ GotoNewest \/ TogglePause
        BY <1>3, <2>3 DEF GotoOldest, GotoNewest, TogglePause, Pause, Follow
    <2> QED
        BY <2>1, <2>2, <2>3 DEF Moves
<1>6. Pause \/ Follow \/ UNCHANGED tail
    BY DEF Moves, MoveUp, MoveDown, GotoOldest, GotoNewest, TogglePause
<1>7. /\ last \in 0..MaxBulletins /\ seen \in 0..last /\ auto \in BOOLEAN
      /\ badge \in 0..MaxBulletins /\ pausedAt \in 0..MaxBulletins
    BY <1>0 DEF TabTypeOK
<1>8. CASE Pause
    <2>1. CASE auto
        <3>1. badge' = 0 /\ auto' = FALSE /\ pausedAt' = seen /\ seen \in 0..MaxBulletins /\ 0 <= seen - seen
            BY <1>0, <1>7, <1>8, <2>1 DEF Pause, BadgeCountsNew
        <3>2. badge' \in 0..MaxBulletins /\ pausedAt' \in 0..MaxBulletins
            BY <1>0, <3>1
        <3>3. TabTypeOK'
            BY <1>0, <1>1, <1>5, <3>1, <3>2 DEF TabTypeOK
        <3> QED
            BY <1>1, <3>1, <3>3 DEF BadgeCountsNew
    <2>2. CASE ~auto
        <3>1. UNCHANGED <<auto, badge, pausedAt>>
            BY <1>7, <1>8, <2>2 DEF Pause
        <3>2. TabTypeOK'
            BY <1>0, <1>1, <1>5, <3>1 DEF TabTypeOK
        <3> QED
            BY <1>1, <3>1, <3>2 DEF BadgeCountsNew
    <2> QED
        BY <2>1, <2>2
<1>9. CASE Follow
    <2>1. auto' = TRUE /\ badge' = 0 /\ pausedAt' = pausedAt
        BY <1>9 DEF Follow
    <2>2. TabTypeOK'
        BY <1>0, <1>1, <1>5, <2>1 DEF TabTypeOK
    <2> QED
        BY <2>1, <2>2 DEF BadgeCountsNew
<1>10. CASE UNCHANGED tail
    <2>1. UNCHANGED <<auto, badge, pausedAt>>
        BY <1>10 DEF tail
    <2>2. TabTypeOK'
        BY <1>0, <1>1, <1>5, <2>1 DEF TabTypeOK
    <2> QED
        BY <1>1, <2>1, <2>2 DEF BadgeCountsNew
<1> QED
    BY <1>6, <1>8, <1>9, <1>10

LEMMA FilteringStep ==
    ASSUME BadgeCountsNew, Filtering \/ Editing \/ Arriving
    PROVE  BadgeCountsNew'
<1>0. TabTypeOK /\ MaxBulletins \in Nat /\ RingSize \in Nat \ {0}
    BY TabAssumption DEF BadgeCountsNew
<1>1. filters \in FilterStates /\ input \in Words \cup {"off"}
    BY <1>0 DEF TabTypeOK, FilterStates
<1>2. ASSUME NEW s \in Severities, ToggleSeverity(s)
      PROVE  BadgeCountsNew'
    <2>1. [filters EXCEPT !.show = Toggled(@, s)] \in FilterStates
        BY <1>1 DEF FilterStates, Toggled
    <2> QED
        BY <1>1, <1>2, <2>1, RefilterStep DEF ToggleSeverity
<1>3. CASE CycleType
    <2>1. filters.type \in Types \cup {Any} /\ Any \notin Types
        BY <1>1, TabAssumption DEF FilterStates
    <2>2. NextType(filters.type) \in Types \cup {Any}
        BY <2>1 DEF NextType, Types
    <2>3. [filters EXCEPT !.type = NextType(@)] \in FilterStates
        BY <1>1, <2>2 DEF FilterStates
    <2> QED
        BY <1>1, <1>3, <2>3, RefilterStep DEF CycleType
<1>4. CASE ClearFilters
    <2>1. NoFilters \in FilterStates
        BY TabAssumption DEF NoFilters, FilterStates
    <2> QED
        BY <1>1, <1>4, <2>1, RefilterStep DEF ClearFilters
<1>5. CASE MuteSource
    <2>1. SelectedRow \in Numbers
        BY <1>0, <1>5, SelectedRowIs DEF MuteSource
    <2>2. SourceOf[SelectedRow] \in Sources
        BY <2>1, TabAssumption
    <2>3. [filters EXCEPT !.mutes = Toggled(@, SourceOf[SelectedRow])] \in FilterStates
        BY <1>1, <2>2 DEF FilterStates, Toggled
    <2> QED
        BY <1>1, <1>5, <2>3, RefilterStep DEF MuteSource
<1>6. CASE CycleGroupMode
    <2>1. /\ mode' = NextMode(mode)
          /\ UNCHANGED <<last, seen, filters, input, auto, badge, pausedAt, detail, search>>
          /\ Reconcile
        BY <1>6 DEF CycleGroupMode, tail, modal
    <2>2. mode' \in Modes
        BY <1>0, <2>1 DEF TabTypeOK, Modes, NextMode
    <2>3. selected' \in 0..RingSize
        BY <1>0, <2>1, <2>2, ReconcileType
    <2>4. TabTypeOK'
        BY <1>0, <2>1, <2>2, <2>3 DEF TabTypeOK, Modes
    <2> QED
        BY <2>1, <2>4 DEF BadgeCountsNew
<1>7. CASE OpenSearch
    <2>1. /\ input' \in Words
          /\ UNCHANGED <<last, seen, filters, mode, selected, auto, badge, pausedAt, detail, search>>
        BY <1>1, <1>7 DEF OpenSearch, view, tail, modal, FilterStates
    <2>2. TabTypeOK'
        BY <1>0, <2>1 DEF TabTypeOK
    <2> QED
        BY <2>1, <2>2 DEF BadgeCountsNew
<1>8. ASSUME NEW w \in Words, Type(w)
      PROVE  BadgeCountsNew'
    <2>1. [filters EXCEPT !.word = w] \in FilterStates
        BY <1>1 DEF FilterStates
    <2> QED
        BY <1>1, <1>8, <2>1, RefilterStep DEF Type
<1>9. CASE Commit
    <2>1. Trim[filters.word] \in Words
        BY <1>1, TabAssumption DEF FilterStates
    <2>2. [filters EXCEPT !.word = Trim[@]] \in FilterStates
        BY <1>1, <2>1 DEF FilterStates
    <2> QED
        BY <1>9, <2>2, RefilterStep DEF Commit
<1>10. CASE Cancel
    <2>1. [filters EXCEPT !.word = input] \in FilterStates
        BY <1>1, <1>10 DEF FilterStates, Cancel
    <2> QED
        BY <1>10, <2>1, RefilterStep DEF Cancel
<1>11. ASSUME NEW s \in Sources, Land(s)
       PROVE  BadgeCountsNew'
    <2>1. [filters EXCEPT !.pin = s] \in FilterStates
        BY <1>1 DEF FilterStates
    <2> QED
        BY <1>1, <1>11, <2>1, RefilterStep DEF Land
<1>12. ASSUME NEW n \in 0..RingSize, RestoreAnchor(n)
       PROVE  BadgeCountsNew'
    <2>1. UNCHANGED <<last, seen, filters, mode, input, auto, badge, pausedAt, detail, search>>
        BY <1>12 DEF RestoreAnchor, tail, modal
    <2>2. seen \in 0..MaxBulletins /\ mode \in Modes
        <3>1. last \in 0..MaxBulletins /\ seen \in 0..last
            BY <1>0 DEF TabTypeOK
        <3> QED
            BY <1>0, <3>1 DEF TabTypeOK, Modes
    <2>3. Cardinality(Rows) \in Nat /\ Cardinality(Rows) <= RingSize
          /\ (Rows # {} => Cardinality(Rows) # 0)
        <3>1. IsFiniteSet(Rows) /\ Cardinality(Rows) <= RingSize
            BY <2>2, ListHasShape DEF Listed, ListShape
        <3> QED
            BY <3>1, FS_CardinalityType, FS_EmptySet
    <2>4. selected' \in 0..RingSize
        BY <1>0, <1>12, <2>3 DEF RestoreAnchor
    <2>5. TabTypeOK'
        BY <1>0, <2>1, <2>4 DEF TabTypeOK
    <2> QED
        BY <2>1, <2>5 DEF BadgeCountsNew
<1> QED
    BY <1>2, <1>3, <1>4, <1>5, <1>6, <1>7, <1>8, <1>9, <1>10, <1>11, <1>12
       DEF Filtering, Editing, Arriving

LEMMA InspectingStep ==
    ASSUME BadgeCountsNew, Inspecting
    PROVE  BadgeCountsNew'
<1>0. TabTypeOK /\ MaxHits \in Nat
    BY TabAssumption DEF BadgeCountsNew
<1>1. UNCHANGED <<last, seen, filters, mode, selected, input, auto, badge, pausedAt>>
    BY DEF Inspecting, OpenDetail, CloseDetail, FindOpen, FindType, FindCommit, FindCancel,
           FindNext, FindPrev, Reading, view, tail
<1>2. detail' \in 0..MaxBulletins
    <2>1. CASE OpenDetail
        BY <1>0, <2>1, SelectedRowIs DEF OpenDetail
    <2>2. CASE detail' = 0 \/ detail' = detail
        BY <1>0, <2>2, TabAssumption DEF TabTypeOK
    <2> QED
        BY <2>1, <2>2 DEF Inspecting, CloseDetail, FindOpen, FindType, FindCommit,
                          FindCancel, FindNext, FindPrev, Reading
<1> DEFINE Searches == [mode : {"off", "typing", "committed"}, empty : BOOLEAN,
                        hits : 0..MaxHits, at : 0..MaxHits]
           Sound(s) == s \in Searches /\ (s.hits > 0 => s.at < s.hits)
<1>3. Sound(search)
    BY <1>0 DEF TabTypeOK
<1>4. Sound(NoSearch)
    BY <1>0 DEF NoSearch
<1>5. Sound(search')
    <2>1. CASE OpenDetail \/ CloseDetail \/ FindCancel
        BY <1>4, <2>1 DEF OpenDetail, CloseDetail, FindCancel
    <2>2. CASE FindOpen
        <3>1. search' = [mode |-> "typing", empty |-> TRUE, hits |-> 0, at |-> 0]
            BY <2>2 DEF FindOpen, NoSearch
        <3> QED
            BY <1>0, <3>1
    <2>3. CASE FindType
        BY <1>0, <2>3 DEF FindType
    <2>4. CASE FindCommit
        BY <1>3, <1>4, <2>4 DEF FindCommit
    <2>5. CASE FindNext
        <3>1. search.hits \in Nat \ {0} /\ search.at \in Nat /\ search.hits <= MaxHits
            BY <1>0, <1>3, <2>5 DEF FindNext
        <3>2. (search.at + 1) % search.hits \in 0..(search.hits - 1)
            BY <3>1
        <3>3. (search.at + 1) % search.hits \in 0..MaxHits
              /\ (search.at + 1) % search.hits < search.hits
            BY <1>0, <3>1, <3>2
        <3>4. search' = [search EXCEPT !.at = (search.at + 1) % search.hits]
            BY <2>5 DEF FindNext
        <3> QED
            BY <1>3, <3>3, <3>4
    <2>6. CASE FindPrev
        <3> DEFINE n == IF search.at = 0 THEN search.hits - 1 ELSE search.at - 1
        <3>1. search.hits \in Nat \ {0} /\ search.at \in Nat /\ search.hits <= MaxHits
              /\ search.at < search.hits
            BY <1>0, <1>3, <2>6 DEF FindPrev
        <3>2. n \in 0..MaxHits /\ n < search.hits
            BY <1>0, <3>1
        <3>3. search' = [search EXCEPT !.at = n]
            BY <2>6 DEF FindPrev
        <3> HIDE DEF n
        <3> QED
            BY <1>3, <3>2, <3>3
    <2> QED
        BY <2>1, <2>2, <2>3, <2>4, <2>5, <2>6 DEF Inspecting
<1>6. TabTypeOK'
    BY <1>0, <1>1, <1>2, <1>5 DEF TabTypeOK
<1> QED
    BY <1>1, <1>6 DEF BadgeCountsNew

\* The badge counts new bulletins only, each once, whatever the list of rows,
\* the filters and the moves.
THEOREM BadgeAlwaysCountsNew == TabSpec => []BadgeCountsNew
<1>1. TabInit => BadgeCountsNew
    <2> SUFFICES ASSUME TabInit
                 PROVE  BadgeCountsNew
        OBVIOUS
    <2>1. NoFilters \in FilterStates /\ MaxBulletins \in Nat /\ RingSize \in Nat /\ MaxHits \in Nat
        BY TabAssumption DEF NoFilters, FilterStates
    <2>2. TabTypeOK
        BY <2>1 DEF TabInit, TabTypeOK, FilterStates, NoSearch
    <2> QED
        BY <2>2 DEF TabInit, BadgeCountsNew
<1>2. BadgeCountsNew /\ [TabNext]_tabVars => BadgeCountsNew'
    <2> SUFFICES ASSUME BadgeCountsNew, [TabNext]_tabVars
                 PROVE  BadgeCountsNew'
        OBVIOUS
    <2>1. CASE UNCHANGED tabVars
        BY <2>1 DEF tabVars, view, tail, modal, BadgeCountsNew, TabTypeOK
    <2> QED
        BY <2>1, FeedingStep, MovingStep, FilteringStep, InspectingStep DEF TabNext
<1> QED
    BY <1>1, <1>2, PTL DEF TabSpec

\* With the tail paused, a redraw leaves the cursor on its group while one row
\* of it is left.
THEOREM PauseAlwaysHoldsGroup == TabSpec => PauseHoldsGroup
<1>1. BadgeCountsNew /\ [TabNext]_tabVars =>
        [~auto /\ seen' # seen /\ mode # "Off" /\ SelectedRow # 0
         => \E key \in {KeyOf(SelectedRow)} :
               WithKey(key)' # {} => SelectedGroups' \cap WithKey(key)' # {}]_tabVars
    <2> SUFFICES ASSUME BadgeCountsNew, TabNext, ~auto, seen' # seen, SelectedRow # 0,
                        NEW key, key = KeyOf(SelectedRow), WithKey(key)' # {}
                 PROVE  SelectedGroups' \cap WithKey(key)' # {}
        OBVIOUS
    <2>1. Redraw
        BY DEF TabNext, Feed, Moves, Filtering, Editing, Arriving, Inspecting, Grow,
               MoveUp, MoveDown, GotoOldest, GotoNewest, TogglePause, Steady,
               CycleType, ClearFilters, MuteSource, CycleGroupMode, ToggleSeverity,
               OpenSearch, Commit, Cancel, Type, Land, RestoreAnchor, Refilter,
               OpenDetail, CloseDetail, FindOpen, FindType, FindCommit, FindCancel,
               FindNext, FindPrev, Reading
    <2>2. selected' = Position(Leftmost(WithKey(key)))'
        BY <2>1 DEF Redraw
    <2>3. ListShape'
        <3>1. BadgeCountsNew'
            BY FeedingStep, <2>1 DEF Feed
        <3>2. Listed'
            BY ListHasShape, PTL
        <3>3. (last \in 0..MaxBulletins /\ seen \in 0..last /\ mode \in Modes)'
            BY <3>1 DEF BadgeCountsNew, TabTypeOK, Modes
        <3>4. seen' \in 0..MaxBulletins
            BY <3>3, TabAssumption
        <3> QED
            BY <3>2, <3>3, <3>4 DEF Listed
    <2>4. WithKey(key)' \in SUBSET Nat /\ WithKey(key)' \subseteq Groups'
        <3>1. seen' \in Nat /\ Groups' \subseteq Rows' /\ Rows' \subseteq 1..seen'
            BY <2>1, <2>3, TabAssumption DEF ListShape, Redraw, BadgeCountsNew, TabTypeOK
        <3>2. WithKey(key)' \subseteq Groups'
            BY DEF WithKey
        <3>3. 1..seen' \subseteq Nat
            BY <3>1
        <3>4. Groups' \subseteq Nat
            BY <3>1, <3>3
        <3> QED
            BY <3>2, <3>4, Zenon
    <2>5. Leftmost(WithKey(key)') \in WithKey(key)'
        BY <2>4, LeftmostIs
    <2>6. Leftmost(WithKey(key)') \in SelectedGroups'
        BY <2>2, <2>4, <2>5 DEF SelectedGroups
    <2> QED
        BY <2>5, <2>6
<1> QED
    BY <1>1, BadgeAlwaysCountsNew, PTL DEF TabSpec, PauseHoldsGroup

\* Whatever changes the filters or the grouping leaves the cursor on a group
\* around its row, if the row is still listed.
THEOREM FilterAlwaysHoldsPlace == TabSpec => FilterHoldsPlace
<1>1. BadgeCountsNew /\ BadgeCountsNew' /\ [TabNext]_tabVars =>
        [(filters' # filters \/ mode' # mode) /\ SelectedRow # 0
         => \E row \in {SelectedRow} :
               row \in Rows' => (SelectedGroups \cap Covering(row))' # {}]_tabVars
    <2> SUFFICES ASSUME BadgeCountsNew, BadgeCountsNew', TabNext,
                        filters' # filters \/ mode' # mode, SelectedRow # 0,
                        NEW row, row = SelectedRow, row \in Rows'
                 PROVE  (SelectedGroups \cap Covering(row))' # {}
        OBVIOUS
    <2>1. Reconcile
        BY DEF TabNext, Feed, Moves, Filtering, Editing, Arriving, Inspecting, Grow, Redraw,
               MoveUp, MoveDown, GotoOldest, GotoNewest, TogglePause, Steady, view,
               CycleType, ClearFilters, MuteSource, CycleGroupMode, ToggleSeverity,
               OpenSearch, Commit, Cancel, Type, Land, RestoreAnchor, Refilter,
               OpenDetail, CloseDetail, FindOpen, FindType, FindCommit, FindCancel,
               FindNext, FindPrev, Reading
    <2>2. selected' = Reconciled(row)'
        BY <2>1 DEF Reconcile
    <2>3. (last \in 0..MaxBulletins /\ seen \in 0..last /\ mode \in Modes)'
        BY DEF BadgeCountsNew, TabTypeOK, Modes
    <2>4. seen' \in 0..MaxBulletins
        BY <2>3, TabAssumption
    <2>5. ListShape'
        <3>1. Listed'
            BY ListHasShape, PTL
        <3> QED
            BY <2>3, <2>4, <3>1 DEF Listed
    <2>6. Covering(row)' # {} /\ Groups' # {} /\ row # 0
        BY <2>5 DEF ListShape, Covering
    <2>7. selected' = Position(Leftmost(Covering(row)))'
        BY <2>2, <2>6 DEF Reconciled
    <2>8. Covering(row)' \in SUBSET Nat /\ Covering(row)' \subseteq Groups'
        <3>1. Groups' \subseteq Rows' /\ Rows' \subseteq 1..seen' /\ seen' \in Nat
            BY <2>4, <2>5, TabAssumption DEF ListShape
        <3>2. Covering(row)' \subseteq Groups'
            BY DEF Covering
        <3>3. 1..seen' \subseteq Nat
            BY <3>1
        <3>4. Groups' \subseteq Nat
            BY <3>1, <3>3
        <3> QED
            BY <3>2, <3>4, Zenon
    <2>9. Leftmost(Covering(row)') \in Covering(row)'
        BY <2>6, <2>8, LeftmostIs
    <2>10. Leftmost(Covering(row)') \in SelectedGroups'
        BY <2>7, <2>8, <2>9 DEF SelectedGroups
    <2> QED
        BY <2>9, <2>10
<1> QED
    BY <1>1, BadgeAlwaysCountsNew, PTL DEF TabSpec, FilterHoldsPlace
=============================================================================
