------------------------- MODULE ClusterStore_proofs -------------------------
(***************************************************************************)
(* Proofs about ClusterStore, for any set of endpoints, any finite set of  *)
(* views and any subscription table.                                       *)
(***************************************************************************)
EXTENDS ClusterStore, FiniteSetTheorems, TLAPS

\* The state of the subscription tables half-way through a transition.
Subscribed(e) ==
    (IF e \in leaving THEN {outgoing} ELSE {})
      \cup (IF active # NoView /\ e \in Reads[active] /\ e \notin entering
            THEN {active} ELSE {})

TransitionInv ==
    /\ \A e \in Endpoints : sets[e] = Subscribed(e)
    /\ leaving # {} => /\ outgoing \in Views
                       /\ outgoing # active
                       /\ active \in Views
                       /\ entering = Reads[active]
    /\ entering # {} => active \in Views /\ entering \subseteq Reads[active]
    /\ waking # {} => leaving = {}
    /\ \A e, f \in waking : e = f

\* What a task is registered for.
ResultInv ==
    \A e \in Endpoints :
        /\ pc[e] = "fetch" => cycle[e] \in 1..MaxCycle
        /\ pc[e] = "send" => outcome[e] \in Results

CountInv == CountersMirrorSets /\ \A e \in Endpoints : IsFiniteSet(sets[e])

\* A task is registered with its Notify only while it awaits it.
WaiterInv ==
    \A e \in Endpoints : waiter[e] # "none" => pc[e] \in {"park", "doze"}

IInv == TypeOK /\ TransitionInv /\ ResultInv /\ CountInv /\ WaiterInv

-----------------------------------------------------------------------------
(* Which groups of variables a process leaves alone. *)

LEMMA UiStepFrame ==
    ASSUME UiStep
    PROVE  UNCHANGED loopVars
  BY DEF UiStep, Ensure, Unsubscribe, Subscribe, NotifySubscribed, ForceRefresh, ApplyUpdate

LEMMA FetchStepFrame ==
    ASSUME NEW e \in Endpoints, FetchStep(e)
    PROVE  UNCHANGED <<uiVars, regVars>>
  BY DEF FetchStep, Gate, Arm, Unpark, Fetch, Send, Sleep, WakeByForce, WakeByTimer

LEMMA FeedFrame ==
    ASSUME NEW e \in Endpoints, ApplyUpdate(e)
    PROVE  \/ UNCHANGED <<notifVars, due>>
           \/ \E f \in Endpoints : NotifyOne(f) /\ due' = due \cup {f}
  BY ClusterAssumption DEF ApplyUpdate, Feed

-----------------------------------------------------------------------------
(* Types *)

LEMMA NotifyOneType ==
    ASSUME NotifyType, NEW e \in Endpoints, NotifyOne(e)
    PROVE  NotifyType'
  BY DEF NotifyType, NotifyOne, Grants

LEMMA PollType ==
    ASSUME NotifyType, LoopType, NEW e \in Endpoints,
           NEW woken \in PCs, NEW waiting \in PCs, PollNotified(e, woken, waiting)
    PROVE  NotifyType' /\ pc' \in [Endpoints -> PCs]
  BY DEF NotifyType, LoopType, PollNotified, Grants

LEMMA UiTypeStep ==
    ASSUME UiType, UiStep
    PROVE  UiType'
<1> USE DEF UiType
<1>1. ASSUME NEW view \in Views, Ensure(view) PROVE UiType'
  BY <1>1, ClusterAssumption DEF Ensure
<1>2. ASSUME NEW e \in Endpoints, Unsubscribe(e) PROVE UiType'
  BY <1>2 DEF Unsubscribe
<1>3. ASSUME NEW e \in Endpoints, Subscribe(e) PROVE UiType'
  BY <1>3 DEF Subscribe
<1>4. ASSUME NEW e \in Endpoints, NotifySubscribed(e) PROVE UiType'
  BY <1>4 DEF NotifySubscribed
<1>5. ASSUME NEW e \in Endpoints, ForceRefresh(e) \/ ApplyUpdate(e) PROVE UiType'
  BY <1>5 DEF ForceRefresh, ApplyUpdate, uiVars
<1> QED BY <1>1, <1>2, <1>3, <1>4, <1>5 DEF UiStep

LEMMA RegistryTypeStep ==
    ASSUME UiType, RegistryType, CountInv, TransitionInv, UiStep
    PROVE  RegistryType'
<1>1. ASSUME NEW e \in Endpoints, Unsubscribe(e) PROVE RegistryType'
  <2>1. outgoing \in sets[e] => counters[e] # 0
    BY FS_EmptySet DEF CountInv, CountersMirrorSets
  <2> QED BY <1>1, <2>1 DEF Unsubscribe, RegistryType
<1>2. ASSUME NEW e \in Endpoints, Subscribe(e) PROVE RegistryType'
  <2>1. active \in Views
    BY <1>2 DEF Subscribe, TransitionInv
  <2> QED BY <1>2, <2>1 DEF Subscribe, RegistryType
<1>3. ASSUME \/ \E view \in Views : Ensure(view)
             \/ \E e \in Endpoints : NotifySubscribed(e) \/ ForceRefresh(e) \/ ApplyUpdate(e)
      PROVE  RegistryType'
  BY <1>3 DEF Ensure, NotifySubscribed, ForceRefresh, ApplyUpdate, regVars, RegistryType
<1> QED BY <1>1, <1>2, <1>3 DEF UiStep

LEMMA NotifyTypeStep ==
    ASSUME NotifyType, UiStep
    PROVE  NotifyType'
<1>1. ASSUME NEW e \in Endpoints, NotifySubscribed(e) \/ ForceRefresh(e) PROVE NotifyType'
  BY <1>1, NotifyOneType DEF NotifySubscribed, ForceRefresh
<1>2. ASSUME \/ \E view \in Views : Ensure(view)
             \/ \E e \in Endpoints : Unsubscribe(e) \/ Subscribe(e)
      PROVE  NotifyType'
  BY <1>2 DEF Ensure, Unsubscribe, Subscribe, notifVars, NotifyType
<1>3. ASSUME NEW e \in Endpoints, ApplyUpdate(e) PROVE NotifyType'
  BY <1>3, FeedFrame, NotifyOneType DEF notifVars, NotifyType
<1> QED BY <1>1, <1>2, <1>3 DEF UiStep

LEMMA ApplyType ==
    ASSUME NEW c \in Cells, NEW r \in Results
    PROVE  Apply(c, r) \in Cells
  BY ClusterAssumption DEF Apply, Cells, Results

LEMMA DataTypeStep ==
    ASSUME DataType, UiStep
    PROVE  DataType'
<1>1. ASSUME NEW e \in Endpoints, ApplyUpdate(e) PROVE DataType'
  <2>1. /\ Head(inbox[e]) \in Results
        /\ Tail(inbox[e]) \in Seq(Results)
    BY <1>1 DEF ApplyUpdate, DataType
  <2>2. Apply(cell[e], Head(inbox[e])) \in Cells
    BY <2>1, ApplyType DEF DataType
  <2>3. due' \subseteq Endpoints
    BY <1>1, FeedFrame DEF DataType
  <2> QED BY <1>1, <2>1, <2>2, <2>3 DEF ApplyUpdate, DataType
<1>2. ASSUME NEW e \in Endpoints, Subscribe(e) \/ ForceRefresh(e) PROVE DataType'
  BY <1>2 DEF Subscribe, ForceRefresh, dataVars, DataType
<1>3. ASSUME \/ \E view \in Views : Ensure(view)
             \/ \E e \in Endpoints : Unsubscribe(e) \/ NotifySubscribed(e)
      PROVE  DataType'
  BY <1>3 DEF Ensure, Unsubscribe, NotifySubscribed, dataVars, DataType
<1> QED BY <1>1, <1>2, <1>3 DEF UiStep

LEMMA FetchStepType ==
    ASSUME NotifyType, LoopType, DataType, ResultInv, NEW e \in Endpoints, FetchStep(e)
    PROVE  NotifyType' /\ LoopType' /\ DataType'
<1>1. CASE Gate(e)
  <2>1. (IF cycle[e] < MaxCycle THEN cycle[e] + 1 ELSE cycle[e]) \in 0..MaxCycle
    BY ClusterAssumption DEF LoopType
  <2>2. LoopType'
    BY <1>1, <2>1 DEF Gate, LoopType, PCs
  <2> QED BY <1>1, <2>2 DEF Gate, notifVars, dataVars, NotifyType, DataType
<1>2. CASE Arm(e) \/ Sleep(e)
  <2>1. NotifyType' /\ pc' \in [Endpoints -> PCs]
    <3>1. {"gate", "park", "doze"} \subseteq PCs BY DEF PCs
    <3> QED BY <1>2, <3>1, PollType DEF Arm, Sleep
  <2> QED BY <1>2, <2>1 DEF Arm, Sleep, dataVars, LoopType, DataType
<1>3. CASE Unpark(e) \/ WakeByForce(e) \/ WakeByTimer(e)
  <2>1. NotifyType'
    BY <1>3 DEF Unpark, WakeByForce, WakeByTimer, NotifyType, Grants
  <2>2. pc' \in [Endpoints -> PCs]
    BY <1>3 DEF Unpark, WakeByForce, WakeByTimer, LoopType, PCs
  <2> QED BY <1>3, <2>1, <2>2
          DEF Unpark, WakeByForce, WakeByTimer, dataVars, LoopType, DataType
<1>4. CASE Fetch(e)
  <2>1. ASSUME NEW status \in {"Ok", "Err"} PROVE [n |-> cycle[e], status |-> status] \in Results
    BY <1>4 DEF Fetch, ResultInv, Results
  <2>2. LoopType'
    BY <1>4, <2>1 DEF Fetch, LoopType, PCs
  <2> QED BY <1>4, <2>2 DEF Fetch, notifVars, dataVars, NotifyType, DataType
<1>5. CASE Send(e)
  <2>1. Append(inbox[e], outcome[e]) \in Seq(Results)
    BY <1>5 DEF Send, ResultInv, DataType
  <2>2. DataType'
    BY <1>5, <2>1 DEF Send, DataType
  <2> QED BY <1>5, <2>2 DEF Send, notifVars, NotifyType, LoopType, PCs
<1> QED BY <1>1, <1>2, <1>3, <1>4, <1>5 DEF FetchStep

LEMMA TypeStep ==
    ASSUME TypeOK, TransitionInv, ResultInv, CountInv, [Next]_vars
    PROVE  TypeOK'
<1>1. CASE UiStep
  <2>1. LoopType' BY <1>1, UiStepFrame DEF TypeOK, LoopType, loopVars
  <2> QED BY <1>1, <2>1, UiTypeStep, RegistryTypeStep, NotifyTypeStep, DataTypeStep DEF TypeOK
<1>2. ASSUME NEW e \in Endpoints, FetchStep(e) PROVE TypeOK'
  <2>1. UiType' /\ RegistryType'
    BY <1>2, FetchStepFrame DEF TypeOK, UiType, RegistryType, uiVars, regVars
  <2> QED BY <1>2, <2>1, FetchStepType DEF TypeOK
<1>3. CASE UNCHANGED vars
  BY <1>3 DEF vars, uiVars, regVars, notifVars, loopVars, dataVars,
              TypeOK, UiType, RegistryType, NotifyType, LoopType, DataType
<1> QED BY <1>1, <1>2, <1>3 DEF Next

-----------------------------------------------------------------------------
(* The counters mirror the sets, and the sets follow the transition. *)

LEMMA CountStep ==
    ASSUME TypeOK, CountInv, [Next]_vars
    PROVE  CountInv'
<1> USE DEF CountInv, CountersMirrorSets, TypeOK, RegistryType
<1>1. ASSUME NEW e \in Endpoints, Unsubscribe(e) PROVE CountInv'
  <2>1. ASSUME NEW f \in Endpoints, f # e
        PROVE  IsFiniteSet(sets'[f]) /\ counters'[f] = Cardinality(sets'[f])
    BY <1>1, <2>1 DEF Unsubscribe
  <2>2. IsFiniteSet(sets'[e]) /\ counters'[e] = Cardinality(sets'[e])
    <3>1. sets'[e] = sets[e] \ {outgoing}
      BY <1>1 DEF Unsubscribe
    <3>2. /\ IsFiniteSet(sets[e] \ {outgoing})
          /\ Cardinality(sets[e] \ {outgoing}) =
               IF outgoing \in sets[e] THEN Cardinality(sets[e]) - 1
                                       ELSE Cardinality(sets[e])
      BY FS_RemoveElement
    <3> QED BY <1>1, <3>1, <3>2 DEF Unsubscribe
  <2> QED BY <2>1, <2>2
<1>2. ASSUME NEW e \in Endpoints, Subscribe(e) PROVE CountInv'
  <2>1. ASSUME NEW f \in Endpoints, f # e
        PROVE  IsFiniteSet(sets'[f]) /\ counters'[f] = Cardinality(sets'[f])
    BY <1>2, <2>1 DEF Subscribe
  <2>2. IsFiniteSet(sets'[e]) /\ counters'[e] = Cardinality(sets'[e])
    <3>1. sets'[e] = sets[e] \cup {active}
      BY <1>2 DEF Subscribe
    <3>2. /\ IsFiniteSet(sets[e] \cup {active})
          /\ Cardinality(sets[e] \cup {active}) =
               IF active \in sets[e] THEN Cardinality(sets[e])
                                     ELSE Cardinality(sets[e]) + 1
      BY FS_AddElement
    <3> QED BY <1>2, <3>1, <3>2 DEF Subscribe
  <2> QED BY <2>1, <2>2
<1>3. ASSUME \/ \E view \in Views : Ensure(view)
             \/ \E e \in Endpoints : \/ NotifySubscribed(e)
                                     \/ ForceRefresh(e) \/ ApplyUpdate(e)
      PROVE  CountInv'
  BY <1>3 DEF Ensure, NotifySubscribed, ForceRefresh, ApplyUpdate, regVars
<1>4. ASSUME NEW e \in Endpoints, FetchStep(e) PROVE CountInv'
  BY <1>4, FetchStepFrame DEF regVars
<1>5. CASE UNCHANGED vars
  BY <1>5 DEF vars, regVars
<1> QED BY <1>1, <1>2, <1>3, <1>4, <1>5 DEF Next, UiStep

LEMMA TransitionStep ==
    ASSUME TypeOK, TransitionInv, [Next]_vars
    PROVE  TransitionInv'
<1> USE DEF TransitionInv, Subscribed, TypeOK, UiType, RegistryType
<1>1. ASSUME NEW view \in Views, Ensure(view) PROVE TransitionInv'
  BY <1>1, ClusterAssumption DEF Ensure, UiIdle, regVars
<1>2. ASSUME NEW e \in Endpoints, Unsubscribe(e) PROVE TransitionInv'
  <2>1. ASSUME NEW f \in Endpoints PROVE sets'[f] = Subscribed(f)'
    BY <1>2, <2>1 DEF Unsubscribe
  <2> QED BY <1>2, <2>1 DEF Unsubscribe
<1>3. ASSUME NEW e \in Endpoints, Subscribe(e) PROVE TransitionInv'
  <2>1. ASSUME NEW f \in Endpoints PROVE sets'[f] = Subscribed(f)'
    BY <1>3, <2>1, ClusterAssumption DEF Subscribe
  <2> QED BY <1>3, <2>1 DEF Subscribe
<1>4. ASSUME NEW e \in Endpoints, NotifySubscribed(e) PROVE TransitionInv'
  BY <1>4 DEF NotifySubscribed, regVars
<1>5. ASSUME NEW e \in Endpoints, ForceRefresh(e) \/ ApplyUpdate(e) PROVE TransitionInv'
  BY <1>5 DEF ForceRefresh, ApplyUpdate, uiVars, regVars
<1>6. ASSUME NEW e \in Endpoints, FetchStep(e) PROVE TransitionInv'
  BY <1>6, FetchStepFrame DEF uiVars, regVars
<1>7. CASE UNCHANGED vars
  BY <1>7 DEF vars, uiVars, regVars
<1> QED BY <1>1, <1>2, <1>3, <1>4, <1>5, <1>6, <1>7 DEF Next, UiStep

LEMMA ResultStep ==
    ASSUME TypeOK, ResultInv, [Next]_vars
    PROVE  ResultInv'
<1> USE DEF ResultInv, TypeOK, LoopType
<1>1. CASE UiStep
  BY <1>1, UiStepFrame DEF loopVars
<1>2. ASSUME NEW e \in Endpoints, FetchStep(e) PROVE ResultInv'
  <2>1. CASE Gate(e)
    <3>1. (IF cycle[e] < MaxCycle THEN cycle[e] + 1 ELSE cycle[e]) \in 1..MaxCycle
      BY ClusterAssumption
    <3> QED BY <2>1, <3>1 DEF Gate
  <2>2. CASE Arm(e) \/ Sleep(e)
    BY <2>2 DEF Arm, Sleep, PollNotified
  <2>3. CASE Unpark(e) \/ WakeByForce(e) \/ WakeByTimer(e)
    BY <2>3 DEF Unpark, WakeByForce, WakeByTimer
  <2>4. CASE Fetch(e)
    <3>1. ASSUME NEW status \in {"Ok", "Err"}
          PROVE  [n |-> cycle[e], status |-> status] \in Results
      BY <2>4 DEF Fetch, Results
    <3> QED BY <2>4, <3>1 DEF Fetch
  <2>5. CASE Send(e)
    BY <2>5 DEF Send
  <2> QED BY <1>2, <2>1, <2>2, <2>3, <2>4, <2>5 DEF FetchStep
<1>3. CASE UNCHANGED vars
  BY <1>3 DEF vars, loopVars
<1> QED BY <1>1, <1>2, <1>3 DEF Next

LEMMA WaiterStep ==
    ASSUME TypeOK, WaiterInv, [Next]_vars
    PROVE  WaiterInv'
<1> USE DEF WaiterInv, TypeOK, NotifyType, LoopType
<1>1. CASE UiStep
  <2>1. pc' = pc
    BY <1>1, UiStepFrame DEF loopVars
  <2>2. ASSUME NEW e \in Endpoints, NotifyOne(e)
        PROVE  \A f \in Endpoints : waiter[f] = "none" => waiter'[f] = "none"
    BY <2>2 DEF NotifyOne
  <2>3. ASSUME NEW e \in Endpoints, NotifySubscribed(e) \/ ForceRefresh(e)
        PROVE  WaiterInv'
    BY <2>1, <2>2, <2>3 DEF NotifySubscribed, ForceRefresh
  <2>4. ASSUME \/ \E view \in Views : Ensure(view)
               \/ \E e \in Endpoints : Unsubscribe(e) \/ Subscribe(e)
        PROVE  WaiterInv'
    BY <2>1, <2>4 DEF Ensure, Unsubscribe, Subscribe, notifVars
  <2>5. ASSUME NEW e \in Endpoints, ApplyUpdate(e) PROVE WaiterInv'
    BY <2>1, <2>2, <2>5, FeedFrame DEF notifVars
  <2> QED BY <1>1, <2>3, <2>4, <2>5 DEF UiStep
<1>2. ASSUME NEW e \in Endpoints, FetchStep(e) PROVE WaiterInv'
  <2>1. CASE Arm(e) \/ Sleep(e)
    BY <2>1 DEF Arm, Sleep, PollNotified
  <2>2. CASE Unpark(e) \/ WakeByForce(e) \/ WakeByTimer(e)
    BY <2>2 DEF Unpark, WakeByForce, WakeByTimer
  <2>3. CASE Gate(e) \/ Fetch(e) \/ Send(e)
    BY <2>3 DEF Gate, Fetch, Send, notifVars
  <2> QED BY <1>2, <2>1, <2>2, <2>3 DEF FetchStep
<1>3. CASE UNCHANGED vars
  BY <1>3 DEF vars, notifVars, loopVars
<1> QED BY <1>1, <1>2, <1>3 DEF Next

-----------------------------------------------------------------------------
LEMMA InitIInv == Init => IInv
<1> SUFFICES ASSUME Init PROVE IInv
  OBVIOUS
<1>1. TypeOK
  BY ClusterAssumption DEF Init, Loading, TypeOK, UiType, RegistryType, NotifyType, LoopType,
     DataType, Cells, Grants, PCs
<1>2. TransitionInv
  BY DEF Init, TransitionInv, Subscribed
<1>3. ResultInv
  BY DEF Init, ResultInv
<1>4. CountInv
  BY FS_EmptySet DEF Init, CountInv, CountersMirrorSets
<1>5. WaiterInv
  BY DEF Init, WaiterInv
<1> QED BY <1>1, <1>2, <1>3, <1>4, <1>5 DEF IInv

LEMMA NextIInv == IInv /\ [Next]_vars => IInv'
  BY TypeStep, TransitionStep, ResultStep, CountStep, WaiterStep DEF IInv

\* The store's bookkeeping (subscriber.rs, worker.rs ensure) is inductive.
THEOREM Invariance == Spec => []IInv
  BY InitIInv, NextIInv, PTL DEF Spec

\* Types, for any endpoints and views.
THEOREM TypeCorrect == Spec => []TypeOK
  BY Invariance, PTL DEF IInv

\* The lock-free counter always equals the size of the UI task's set.
THEOREM CountersCorrect == Spec => []CountersMirrorSets
  BY Invariance, PTL DEF IInv, CountInv

\* Between two events, exactly the active view's subscriptions are held.
THEOREM SubscriptionsCorrect == Spec => []SubscriptionsMatchView
<1>1. IInv => SubscriptionsMatchView
  BY DEF IInv, TransitionInv, Subscribed, SubscriptionsMatchView, UiIdle
<1> QED BY <1>1, Invariance, PTL

-----------------------------------------------------------------------------
(* Wake-ups *)

\* A notification for e is stored, granted, or about to be made.
Signalled(e) == e \in permits \/ waiter[e] = "notified" \/ e \in waking

LEMMA NotifyOneSignals ==
    ASSUME TypeOK, NEW e \in Endpoints, NotifyOne(e)
    PROVE  /\ e \in permits' \/ waiter'[e] = "notified"
           /\ permits \subseteq permits'
           /\ \A f \in Endpoints : waiter[f] = "notified" => waiter'[f] = "notified"
  BY DEF NotifyOne, TypeOK, NotifyType

\* The UI task never withdraws a signal, and gives one with every subscriber.
LEMMA UiKeepsSignals ==
    ASSUME IInv, UiStep, NEW f \in Endpoints
    PROVE  /\ Signalled(f) => Signalled(f)'
           /\ counters'[f] > counters[f] => Signalled(f)'
           /\ f \in due' => f \in due \/ Signalled(f)'
<1> USE DEF Signalled
<1>1. ASSUME NEW e \in Endpoints, NotifySubscribed(e) PROVE waking = {e}
  BY <1>1 DEF NotifySubscribed, IInv, TransitionInv
<1>2. ASSUME NEW e \in Endpoints, NotifySubscribed(e) \/ ForceRefresh(e) PROVE NotifyOne(e)
  BY <1>2 DEF NotifySubscribed, ForceRefresh
<1>3. ASSUME NEW e \in Endpoints, NotifySubscribed(e)
      PROVE  (Signalled(f) => Signalled(f)') /\ UNCHANGED <<counters, due>>
  <2>1. NotifyOne(e) BY <1>2, <1>3
  <2> QED BY <1>1, <1>3, <2>1, NotifyOneSignals DEF NotifySubscribed, regVars, IInv
<1>4. ASSUME NEW e \in Endpoints, ForceRefresh(e)
      PROVE  /\ Signalled(f) => Signalled(f)'
             /\ UNCHANGED counters
             /\ f \in due' => f \in due \/ Signalled(f)'
  <2>1. NotifyOne(e) BY <1>2, <1>4
  <2> QED BY <1>4, <2>1, NotifyOneSignals DEF ForceRefresh, uiVars, regVars, IInv
<1>5. ASSUME NEW e \in Endpoints, Subscribe(e)
      PROVE  /\ Signalled(f) => Signalled(f)'
             /\ counters'[f] > counters[f] => Signalled(f)'
             /\ f \in due' => f \in due \/ Signalled(f)'
  BY <1>5 DEF Subscribe, notifVars, IInv, TypeOK, RegistryType
<1>6. ASSUME NEW e \in Endpoints, Unsubscribe(e)
      PROVE  (Signalled(f) => Signalled(f)') /\ ~(counters'[f] > counters[f]) /\ UNCHANGED due
  BY <1>6 DEF Unsubscribe, notifVars, IInv, TypeOK, RegistryType
<1>7. ASSUME NEW view \in Views, Ensure(view)
      PROVE  (Signalled(f) => Signalled(f)') /\ UNCHANGED <<counters, due>>
  BY <1>7 DEF Ensure, notifVars, regVars
<1>8. counters[f] \in Nat
  BY DEF IInv, TypeOK, RegistryType
<1>9. ASSUME NEW e \in Endpoints, ApplyUpdate(e)
      PROVE  /\ Signalled(f) => Signalled(f)'
             /\ UNCHANGED counters
             /\ f \in due' => f \in due \/ Signalled(f)'
  <2>1. UNCHANGED <<counters, waking>>
    BY <1>9 DEF ApplyUpdate, uiVars, regVars
  <2>2. CASE UNCHANGED <<notifVars, due>>
    BY <2>1, <2>2 DEF notifVars
  <2>3. ASSUME NEW g \in Endpoints, NotifyOne(g), due' = due \cup {g}
        PROVE  /\ Signalled(f) => Signalled(f)'
               /\ f \in due' => f \in due \/ Signalled(f)'
    BY <2>1, <2>3, NotifyOneSignals DEF IInv
  <2> QED BY <1>9, <2>1, <2>2, <2>3, FeedFrame
<1> QED BY <1>3, <1>4, <1>5, <1>6, <1>7, <1>8, <1>9 DEF UiStep

\* What a fetch task does to its signals: it uses one up only by going back
\* to the top of its loop, and parks only having read a zero counter or
\* with nothing signalled.
LEMMA FetchKeepsSignals ==
    ASSUME IInv, NEW e \in Endpoints, FetchStep(e), NEW f \in Endpoints
    PROVE  /\ Signalled(f) => Signalled(f)' \/ pc'[f] = "gate"
           /\ pc'[f] \in {"arm", "park"} => \/ pc[f] \in {"arm", "park"}
                                           \/ ~Open(f)
           /\ pc[f] = "gate" => pc'[f] = "gate" \/ ~Open(f) \/ f \notin due'
           /\ due' \subseteq due
<1> USE DEF Signalled, IInv, TypeOK, LoopType, NotifyType, WaiterInv
<1>1. CASE Gate(e)
  BY <1>1 DEF Gate, notifVars, uiVars
<1>2. CASE Arm(e)
  BY <1>2 DEF Arm, PollNotified, uiVars
<1>3. CASE Sleep(e)
  BY <1>3 DEF Sleep, PollNotified, uiVars
<1>4. CASE Unpark(e) \/ WakeByForce(e)
  BY <1>4 DEF Unpark, WakeByForce, uiVars
<1>5. CASE WakeByTimer(e)
  BY <1>5 DEF WakeByTimer, uiVars
<1>6. CASE Fetch(e) \/ Send(e)
  BY <1>6 DEF Fetch, Send, notifVars, uiVars
<1> QED BY <1>1, <1>2, <1>3, <1>4, <1>5, <1>6 DEF FetchStep

WakeInv == NoLostWakeup /\ DemandRemembered

LEMMA WakeStep ==
    ASSUME IInv, WakeInv, [Next]_vars
    PROVE  WakeInv'
<1> USE DEF WakeInv, NoLostWakeup, DemandRemembered, Signalled
<1>0. \A f \in Endpoints : counters[f] \in Nat /\ counters'[f] \in Nat
  BY NextIInv DEF IInv, TypeOK, RegistryType
<1>1. CASE UiStep
  <2> SUFFICES ASSUME NEW f \in Endpoints
               PROVE  /\ pc'[f] \in {"arm", "park"} /\ counters'[f] > 0 => Signalled(f)'
                      /\ f \in due' /\ Open(f)' => pc'[f] = "gate" \/ Signalled(f)'
    OBVIOUS
  <2>1. pc' = pc
    BY <1>1, UiStepFrame DEF loopVars
  <2>2. /\ Signalled(f) => Signalled(f)'
        /\ counters'[f] > counters[f] => Signalled(f)'
        /\ f \in due' => f \in due \/ Signalled(f)'
    BY <1>1, UiKeepsSignals
  <2>3. ~(counters'[f] > counters[f]) => (counters'[f] > 0 => counters[f] > 0)
    BY <1>0
  <2> QED BY <2>1, <2>2, <2>3 DEF Open
<1>2. ASSUME NEW e \in Endpoints, FetchStep(e) PROVE WakeInv'
  <2> SUFFICES ASSUME NEW f \in Endpoints
               PROVE  /\ pc'[f] \in {"arm", "park"} /\ counters'[f] > 0 => Signalled(f)'
                      /\ f \in due' /\ Open(f)' => pc'[f] = "gate" \/ Signalled(f)'
    OBVIOUS
  <2>1. counters' = counters
    BY <1>2, FetchStepFrame DEF regVars
  <2>2. /\ Signalled(f) => Signalled(f)' \/ pc'[f] = "gate"
        /\ pc'[f] \in {"arm", "park"} => pc[f] \in {"arm", "park"} \/ ~Open(f)
        /\ pc[f] = "gate" => pc'[f] = "gate" \/ ~Open(f) \/ f \notin due'
        /\ due' \subseteq due
    BY <1>2, FetchKeepsSignals
  <2> QED BY <1>0, <2>1, <2>2 DEF Open
<1>3. CASE UNCHANGED vars
  BY <1>3 DEF vars, uiVars, regVars, notifVars, loopVars, Open
<1> QED BY <1>1, <1>2, <1>3 DEF Next

LEMMA WakeInvariance == Spec => []WakeInv
<1>1. Init => WakeInv
  BY DEF Init, WakeInv, NoLostWakeup, DemandRemembered
<1>2. IInv /\ WakeInv /\ [Next]_vars => WakeInv'
  BY WakeStep
<1> QED BY <1>1, <1>2, Invariance, PTL DEF Spec

\* No subscription is lost between a loop's counter read and its await.
THEOREM NoWakeupLost == Spec => []NoLostWakeup
  BY WakeInvariance, PTL DEF WakeInv

\* No refresh is swallowed by the request, send or sleep it falls into.
THEOREM DemandNotForgotten == Spec => []DemandRemembered
  BY WakeInvariance, PTL DEF WakeInv

-----------------------------------------------------------------------------
(* The snapshot implements PolledCells *)

\* Along the way from the cell through the channel to the loop, request
\* numbers never decrease, and none exceeds the latest request.
Queued(e) ==
    \A i \in 1..Len(inbox[e]) :
        /\ cell[e].at <= inbox[e][i].n
        /\ inbox[e][i].n <= cycle[e]
        /\ \A j \in 1..i : inbox[e][j].n <= inbox[e][i].n

InHand(e) ==
    pc[e] = "send" =>
        /\ cell[e].at <= outcome[e].n
        /\ outcome[e].n <= cycle[e]
        /\ \A i \in 1..Len(inbox[e]) : inbox[e][i].n <= outcome[e].n

OrderInv == \A e \in Endpoints : cell[e].at <= cycle[e] /\ Queued(e) /\ InHand(e)

LEMMA ResultNumber == \A r \in Results : r.n \in Nat /\ r.n > 0
  BY ClusterAssumption DEF Results

LEMMA InboxNumbers ==
    ASSUME DataType, NEW e \in Endpoints
    PROVE  \A i \in 1..Len(inbox[e]) : inbox[e][i].n \in Nat
<1>1. inbox[e] \in Seq(Results)
  BY DEF DataType
<1>2. \A i \in 1..Len(inbox[e]) : inbox[e][i] \in Results
  BY <1>1
<1> QED BY <1>2, ResultNumber

LEMMA OrderStep ==
    ASSUME IInv, OrderInv, [Next]_vars
    PROVE  OrderInv'
<1> USE DEF OrderInv, Queued, InHand, IInv, TypeOK, LoopType, DataType
<1>1. ASSUME NEW e \in Endpoints, ApplyUpdate(e) PROVE OrderInv'
  <2> SUFFICES ASSUME NEW f \in Endpoints
               PROVE  (cell[f].at <= cycle[f] /\ Queued(f) /\ InHand(f))'
    OBVIOUS
  <2>1. UNCHANGED <<pc, cycle, outcome>>
    BY <1>1 DEF ApplyUpdate, loopVars
  <2>2. CASE f # e
    BY <1>1, <2>1, <2>2 DEF ApplyUpdate
  <2>3. CASE f = e
    <3>1. /\ inbox[e] \in Seq(Results) /\ inbox[e] # <<>>
          /\ inbox'[e] = Tail(inbox[e])
          /\ Len(inbox'[e]) = Len(inbox[e]) - 1
          /\ \A i \in 1..Len(inbox'[e]) : inbox'[e][i] = inbox[e][i + 1]
      BY <1>1 DEF ApplyUpdate
    <3>2. cell'[e].at = inbox[e][1].n
      BY <1>1, <3>1 DEF ApplyUpdate, Apply
    <3>3. \A i \in 1..Len(inbox[e]) : inbox[e][i].n \in Nat
      BY InboxNumbers
    <3>4. \A i \in 1..Len(inbox[e]) : inbox[e][1].n <= inbox[e][i].n
      BY <3>1
    <3>5. Len(inbox[e]) \in Nat /\ 1 \in 1..Len(inbox[e])
      BY <3>1
    <3>6. ASSUME NEW i \in 1..Len(inbox'[e])
          PROVE  /\ cell'[e].at <= inbox'[e][i].n
                 /\ inbox'[e][i].n <= cycle'[e]
                 /\ \A j \in 1..i : inbox'[e][j].n <= inbox'[e][i].n
      <4>1. i \in Nat /\ i + 1 \in 1..Len(inbox[e]) /\ inbox'[e][i] = inbox[e][i + 1]
        BY <3>1, <3>5
      <4>2. cell'[e].at <= inbox'[e][i].n /\ inbox'[e][i].n <= cycle'[e]
        BY <2>1, <3>2, <3>4, <4>1
      <4>3. ASSUME NEW j \in 1..i PROVE inbox'[e][j].n <= inbox'[e][i].n
        <5>1. j + 1 \in 1..(i + 1) /\ j \in 1..Len(inbox'[e])
          BY <4>1
        <5> QED BY <3>1, <4>1, <5>1
      <4> QED BY <4>2, <4>3
    <3>7. cell'[e].at <= cycle'[e]
      BY <2>1, <3>2, <3>5
    <3>8. InHand(e)'
      <4>1. pc[e] = "send" => /\ inbox[e][1].n <= outcome[e].n
                              /\ outcome[e].n <= cycle[e]
        BY <3>5
      <4>2. pc[e] = "send" =>
              \A i \in 1..Len(inbox'[e]) : inbox'[e][i].n <= outcome[e].n
        BY <3>1, <3>5
      <4> QED BY <2>1, <3>2, <4>1, <4>2
    <3> QED BY <2>3, <3>6, <3>7, <3>8
  <2> QED BY <2>2, <2>3
<1>2. ASSUME NEW e \in Endpoints, Send(e) PROVE OrderInv'
  <2> SUFFICES ASSUME NEW f \in Endpoints
               PROVE  (cell[f].at <= cycle[f] /\ Queued(f) /\ InHand(f))'
    OBVIOUS
  <2>1. CASE f # e
    BY <1>2, <2>1 DEF Send
  <2>2. CASE f = e
    <3>1. /\ inbox[e] \in Seq(Results) /\ outcome[e] \in Results
          /\ inbox'[e] = Append(inbox[e], outcome[e])
          /\ pc[e] = "send" /\ pc'[e] = "sleep"
          /\ UNCHANGED <<cycle, cell>>
      BY <1>2 DEF Send, ResultInv
    <3>2. /\ Len(inbox'[e]) = Len(inbox[e]) + 1
          /\ inbox'[e][Len(inbox[e]) + 1] = outcome[e]
          /\ \A i \in 1..Len(inbox[e]) : inbox'[e][i] = inbox[e][i]
      BY <3>1
    <3>3. Queued(e)'
      BY <3>1, <3>2 DEF Results
    <3> QED BY <2>2, <3>1, <3>3
  <2> QED BY <2>1, <2>2
<1>3. ASSUME NEW e \in Endpoints, Fetch(e) PROVE OrderInv'
  <2> SUFFICES ASSUME NEW f \in Endpoints
               PROVE  (cell[f].at <= cycle[f] /\ Queued(f) /\ InHand(f))'
    OBVIOUS
  <2>1. UNCHANGED <<inbox, cell, cycle>>
    BY <1>3 DEF Fetch, dataVars
  <2>2. outcome'[e].n = cycle[e] /\ cycle[e] \in Nat
    <3>1. PICK status \in {"Ok", "Err"} :
             outcome' = [outcome EXCEPT ![e] = [n |-> cycle[e], status |-> status]]
      BY <1>3 DEF Fetch
    <3> QED BY <3>1
  <2>3. f # e => outcome'[f] = outcome[f] /\ pc'[f] = pc[f]
    BY <1>3 DEF Fetch
  <2>4. InHand(f)'
    <3>1. CASE f = e
      BY <2>1, <2>2, <3>1
    <3>2. CASE f # e
      BY <2>1, <2>3, <3>2
    <3> QED BY <3>1, <3>2
  <2> QED BY <2>1, <2>4
<1>4. ASSUME NEW e \in Endpoints, Gate(e) PROVE OrderInv'
  <2> SUFFICES ASSUME NEW f \in Endpoints
               PROVE  (cell[f].at <= cycle[f] /\ Queued(f) /\ InHand(f))'
    OBVIOUS
  <2>1. UNCHANGED <<inbox, cell, outcome>>
    BY <1>4 DEF Gate, dataVars
  <2>2. /\ cycle'[f] \in Nat /\ cycle[f] \in Nat /\ cycle'[f] >= cycle[f]
        /\ cell[f].at \in Nat
    <3>1. MaxCycle \in Nat /\ cycle[f] \in Nat /\ cell[f].at \in Nat
      BY ClusterAssumption DEF Cells
    <3>2. cycle'[f] \in {cycle[f], cycle[f] + 1}
      BY <1>4 DEF Gate
    <3> QED BY <3>1, <3>2
  <2>3. pc'[f] = "send" => pc[f] = "send"
    BY <1>4 DEF Gate
  <2>4. \A i \in 1..Len(inbox[f]) : inbox[f][i].n \in Nat
    BY InboxNumbers
  <2>5. pc[f] = "send" => outcome[f].n \in Nat
    BY DEF ResultInv, Results
  <2>6. cell'[f].at <= cycle'[f]
    BY <2>1, <2>2
  <2>7. Queued(f)'
    BY <2>1, <2>2, <2>4
  <2>8. InHand(f)'
    BY <2>1, <2>2, <2>3, <2>5
  <2> QED BY <2>6, <2>7, <2>8
<1>5. ASSUME NEW e \in Endpoints,
             Arm(e) \/ Unpark(e) \/ Sleep(e) \/ WakeByForce(e) \/ WakeByTimer(e)
      PROVE  OrderInv'
  <2>1. UNCHANGED <<inbox, cell, cycle, outcome>>
    BY <1>5 DEF Arm, Unpark, Sleep, WakeByForce, WakeByTimer, dataVars
  <2>2. \A f \in Endpoints : pc'[f] = "send" => pc[f] = "send"
    BY <1>5 DEF Arm, Unpark, Sleep, WakeByForce, WakeByTimer, PollNotified
  <2> QED BY <2>1, <2>2
<1>6. ASSUME \/ \E view \in Views : Ensure(view)
             \/ \E e \in Endpoints : \/ Unsubscribe(e) \/ Subscribe(e)
                                     \/ NotifySubscribed(e) \/ ForceRefresh(e)
             \/ UNCHANGED vars
      PROVE  OrderInv'
  BY <1>6 DEF vars, Ensure, Unsubscribe, Subscribe, NotifySubscribed, ForceRefresh,
              dataVars, loopVars
<1> QED BY <1>1, <1>2, <1>3, <1>4, <1>5, <1>6 DEF Next, UiStep, FetchStep

LEMMA OrderInvariance == Spec => []OrderInv
<1>1. Init => OrderInv
  BY DEF Init, Loading, NoResult, OrderInv, Queued, InHand
<1>2. IInv /\ OrderInv /\ [Next]_vars => OrderInv'
  BY OrderStep
<1> QED BY <1>1, <1>2, Invariance, PTL DEF Spec

LEMMA StepSimulates ==
    ASSUME IInv, OrderInv, [Next]_vars
    PROVE  [Promise!Next]_(Promise!vars)
<1> USE DEF IInv, TypeOK, LoopType, DataType
<1>1. ASSUME NEW e \in Endpoints, ApplyUpdate(e) PROVE Promise!Next
  <2>1. PICK r \in Results : r = Head(inbox[e]) /\ r = inbox[e][1]
    BY <1>1 DEF ApplyUpdate
  <2>2. r.n \in 1..cycle[e] /\ r.n >= cell[e].at /\ r.n > 0 /\ r.n <= cycle[e]
    <3>1. 1 \in 1..Len(inbox[e])
      BY <1>1 DEF ApplyUpdate
    <3> QED BY <2>1, <3>1 DEF OrderInv, Queued, Results
  <2>3. UNCHANGED cycle /\ cell' = [cell EXCEPT ![e] = Apply(cell[e], r)]
    BY <1>1, <2>1 DEF ApplyUpdate, loopVars
  <2>4. CASE r.status = "Ok"
    <3>1. Promise!ShowOk(e, r.n)
      BY <2>2, <2>3, <2>4 DEF Promise!ShowOk, Apply
    <3> QED BY <2>2, <3>1 DEF Promise!Next
  <2>5. CASE r.status # "Ok"
    <3>1. Promise!ShowErr(e, r.n)
      BY <2>2, <2>3, <2>5 DEF Promise!ShowErr, Apply
    <3> QED BY <2>2, <3>1 DEF Promise!Next
  <2> QED BY <2>4, <2>5
<1>2. ASSUME NEW e \in Endpoints, Gate(e) PROVE Promise!Next \/ UNCHANGED Promise!vars
  <2>1. UNCHANGED cell
    BY <1>2 DEF Gate, dataVars
  <2>2. cycle' = cycle \/ cycle' = [cycle EXCEPT ![e] = @ + 1]
    BY <1>2 DEF Gate
  <2>3. CASE cycle' = cycle
    BY <2>1, <2>3 DEF Promise!vars
  <2>4. CASE cycle' = [cycle EXCEPT ![e] = @ + 1]
    BY <2>1, <2>4 DEF Promise!Next, Promise!Ask
  <2> QED BY <2>2, <2>3, <2>4
<1>3. ASSUME \/ \E view \in Views : Ensure(view)
             \/ \E e \in Endpoints : \/ Unsubscribe(e) \/ Subscribe(e)
                                     \/ NotifySubscribed(e) \/ ForceRefresh(e)
                                     \/ Arm(e) \/ Unpark(e) \/ Fetch(e) \/ Send(e)
                                     \/ Sleep(e) \/ WakeByForce(e) \/ WakeByTimer(e)
             \/ UNCHANGED vars
      PROVE  UNCHANGED Promise!vars
  BY <1>3 DEF vars, Ensure, Unsubscribe, Subscribe, NotifySubscribed, ForceRefresh,
              Arm, Unpark, Fetch, Send, Sleep, WakeByForce, WakeByTimer,
              dataVars, loopVars, Promise!vars
<1> QED BY <1>1, <1>2, <1>3 DEF Next, UiStep, FetchStep

\* The detailed store implements the promise made to its readers: no cell
\* ever shows an older request, or loses its data to a failed one.
THEOREM Refinement == Spec => CellsKeepPromise
<1>1. Init => Promise!Init
  BY DEF Init, Loading, Promise!Init, Promise!Loading
<1>2. IInv /\ OrderInv /\ [Next]_vars => [Promise!Next]_(Promise!vars)
  BY StepSimulates
<1> QED BY <1>1, <1>2, Invariance, OrderInvariance, PTL DEF Spec, CellsKeepPromise, Promise!Spec
=============================================================================
