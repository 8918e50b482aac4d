---------------------------- MODULE ContextSwitch ----------------------------
(***************************************************************************)
(* Switching to another NiFi context: the switcher modal, the dispatcher   *)
(* task that connects and replaces the client behind the RwLock            *)
(* (src/src/intent/mod.rs, switch_context), and the UI loop that tears     *)
(* down the cluster store and builds a new one when it handles the outcome *)
(* (src/src/app/state/mod.rs, handle_intent_outcome).                      *)
(*                                                                         *)
(* One looping requester stands for the store's fetch tasks.  A gated loop *)
(* parks while no view reads its endpoint; one that is not gated is read   *)
(* always.  The tasks are aborted by a switch, but JoinHandle::abort takes *)
(* effect at the next await: a task that is running finishes the poll it   *)
(* is in, which may complete a send.                                       *)
(***************************************************************************)
EXTENDS Naturals, Sequences

CONSTANTS
    Contexts,    \* the configured NiFi contexts
    First,       \* the one the program starts with
    NoContext,
    Switchers,   \* slots for dispatcher tasks running switch_context
    ChanBound    \* undelivered messages

ASSUME ContextAssumption ==
    /\ First \in Contexts
    /\ NoContext \notin Contexts
    /\ ChanBound \in Nat \ {0}

VARIABLES
    client,   \* the context of the NifiClient behind the lock
    header,   \* AppState.context_name
    modal,    \* the switcher: "closed", "open", or "connecting"
    task,     \* task[s]: a dispatcher task, its phase and target
    read,     \* does a view subscribe to the endpoint?
    fetch,    \* the store's fetch task
    dying,    \* messages an aborted task may yet complete the send of
    chan,     \* the event channel
    cell,     \* the store's snapshot: which context the data is from, and
              \* whether this store's own fetch task brought it
    overlap   \* history: has a switch begun while another was under way?

vars == <<client, header, modal, task, read, fetch, dying, chan, cell, overlap>>
net  == <<client, task, read, fetch, dying>>

NoData   == [of |-> NoContext, own |-> TRUE]
Idle     == [phase |-> "idle", got |-> NoContext]
Fetches  == [phase : {"idle", "lock", "reading", "sending"}, got : Contexts \cup {NoContext}]
Free     == [phase |-> "free", to |-> NoContext]
Tasks    == [phase : {"free", "connect", "write", "report", "refuse"},
             to : Contexts \cup {NoContext}]
Cells    == [of : Contexts \cup {NoContext}, own : BOOLEAN]

Update(c, own) == [kind |-> "Update", of |-> c, own |-> own]
Switched(c)    == [kind |-> "Switched", of |-> c]
Failure        == [kind |-> "Failure"]
Messages ==
    {Update(c, own) : c \in Contexts, own \in BOOLEAN}
      \cup {Switched(c) : c \in Contexts} \cup {Failure}

-----------------------------------------------------------------------------
(* The channel and the lock *)

\* Senders wait for room.
Deliver(m) == Len(chan) < ChanBound /\ chan' = Append(chan, m)

\* tokio's RwLock is fair: a queued writer keeps new readers out.
MayRead == \A s \in Switchers : task[s].phase # "write"
MayWrite == fetch.phase # "reading"

\* No switch is under way, as far as the program can tell.
Settled ==
    /\ \A s \in Switchers : task[s].phase = "free"
    /\ \A i \in 1..Len(chan) : chan[i].kind # "Switched"

Init ==
    /\ client = First /\ header = First /\ modal = "closed"
    /\ task = [s \in Switchers |-> Free]
    /\ read \in BOOLEAN /\ fetch = Idle /\ dying = {}
    /\ chan = <<>> /\ cell = NoData /\ overlap = FALSE

-----------------------------------------------------------------------------
(* The user *)

\* Shift+K, with no modal open.
OpenSwitcher ==
    /\ modal = "closed"
    /\ modal' = "open"
    /\ UNCHANGED <<net, header, chan, cell, overlap>>

\* Esc; ignored while an entry is connecting.
CloseSwitcher ==
    /\ modal = "open"
    /\ modal' = "closed"
    /\ UNCHANGED <<net, header, chan, cell, overlap>>

\* Enter: the entry is marked connecting and a dispatcher task spawned.
Choose(c) ==
    /\ modal = "open"
    /\ \E s \in Switchers :
          /\ task[s].phase = "free"
          /\ task' = [task EXCEPT ![s] = [phase |-> "connect", to |-> c]]
    /\ modal' = "connecting"
    /\ overlap' = (overlap \/ ~Settled)
    /\ UNCHANGED <<client, header, read, fetch, dying, chan, cell>>

\* Another tab: its view subscribes to the endpoint, or it does not.
ChangeView ==
    /\ read' = ~read
    /\ UNCHANGED <<client, header, modal, task, fetch, dying, chan, cell, overlap>>

-----------------------------------------------------------------------------
(* switch_context *)

\* NifiClient::connect, which may fail.
Connect(s) ==
    /\ task[s].phase = "connect"
    /\ \E p \in {"write", "refuse"} : task' = [task EXCEPT ![s].phase = p]
    /\ UNCHANGED <<client, header, modal, read, fetch, dying, chan, cell, overlap>>

\* *client.write().await = new_client
Write(s) ==
    /\ task[s].phase = "write"
    /\ MayWrite
    /\ client' = task[s].to
    /\ task' = [task EXCEPT ![s].phase = "report"]
    /\ UNCHANGED <<header, modal, read, fetch, dying, chan, cell, overlap>>

\* The outcome is sent before the client is replaced.
ReportEarly(s) ==
    /\ \/ task[s].phase = "write" /\ Deliver(Switched(task[s].to))
          /\ client' = client /\ task' = [task EXCEPT ![s].phase = "report"]
       \/ task[s].phase = "report" /\ MayWrite /\ UNCHANGED chan
          /\ client' = task[s].to /\ task' = [task EXCEPT ![s] = Free]
       \/ task[s].phase = "refuse" /\ Deliver(Failure)
          /\ client' = client /\ task' = [task EXCEPT ![s] = Free]
    /\ UNCHANGED <<header, modal, read, fetch, dying, cell, overlap>>

\* tx.send(IntentOutcome).await
Report(s) ==
    /\ \/ task[s].phase = "report" /\ Deliver(Switched(task[s].to))
       \/ task[s].phase = "refuse" /\ Deliver(Failure)
    /\ task' = [task EXCEPT ![s] = Free]
    /\ UNCHANGED <<client, header, modal, read, fetch, dying, cell, overlap>>

-----------------------------------------------------------------------------
(* Requests in flight *)

\* A fetch task is past its sleep and its gate, and asks for the read guard.
Pass ==
    /\ fetch.phase = "idle"
    /\ read
    /\ fetch' = [phase |-> "lock", got |-> NoContext]
    /\ UNCHANGED <<client, header, modal, task, read, dying, chan, cell, overlap>>

\* It has the guard and calls NiFi.
BeginFetch ==
    /\ fetch.phase = "lock"
    /\ MayRead
    /\ fetch' = [phase |-> "reading", got |-> NoContext]
    /\ UNCHANGED <<client, header, modal, task, read, dying, chan, cell, overlap>>

\* The answer: data of the context the client points to, guard dropped.
FetchOk ==
    /\ fetch.phase = "reading"
    /\ fetch' = [phase |-> "sending", got |-> client]
    /\ UNCHANGED <<client, header, modal, task, read, dying, chan, cell, overlap>>

\* A failed fetch: its update leaves the data alone.
FetchErr ==
    /\ fetch.phase = "reading"
    /\ fetch' = Idle
    /\ UNCHANGED <<client, header, modal, task, read, dying, chan, cell, overlap>>

SendUpdate ==
    /\ fetch.phase = "sending"
    /\ Deliver(Update(fetch.got, TRUE))
    /\ fetch' = Idle
    /\ UNCHANGED <<client, header, modal, task, read, dying, cell, overlap>>

\* An aborted task completes the send it was in, or is dropped before.
Expire ==
    \E m \in dying :
        /\ dying' = dying \ {m}
        /\ Deliver(m) \/ UNCHANGED chan
        /\ UNCHANGED <<client, header, modal, task, read, fetch, cell, overlap>>

\* Any other worker's send_poll_result(Err): an IntentOutcome too.
PollFails ==
    /\ Deliver(Failure)
    /\ UNCHANGED <<net, header, modal, cell, overlap>>

-----------------------------------------------------------------------------
(* The UI loop *)

Receive(kind) == chan # <<>> /\ Head(chan).kind = kind /\ chan' = Tail(chan)

\* An update of a store that has been torn down since it was sent.
Disown(q) ==
    [i \in 1..Len(q) |-> IF q[i].kind = "Update" THEN Update(q[i].of, FALSE) ELSE q[i]]

\* What the aborted tasks may yet send.
LastWords == IF fetch.phase = "sending" THEN {Update(fetch.got, FALSE)} ELSE {}

\* The old store's fetch task is left running.
HandleSwitchedUnaborted ==
    /\ chan # <<>> /\ Head(chan).kind = "Switched"
    /\ chan' = Disown(Tail(chan))
    /\ header' = Head(chan).of
    /\ modal' = "closed"
    /\ cell' = NoData
    /\ UNCHANGED <<client, task, read, fetch, dying, overlap>>

\* ContextSwitched: all view state is replaced (which aborts the modal
\* workers), the store is shut down, built anew, and its fetchers spawned.
HandleSwitched ==
    /\ chan # <<>> /\ Head(chan).kind = "Switched"
    /\ chan' = Disown(Tail(chan))
    /\ header' = Head(chan).of
    /\ modal' = "closed"
    /\ dying' = dying \cup LastWords
    /\ fetch' = Idle /\ cell' = NoData
    /\ UNCHANGED <<client, task, read, overlap>>

\* The first data stays.
HandleUpdateOnce ==
    /\ Receive("Update")
    /\ cell' = IF cell = NoData THEN [of |-> Head(chan).of, own |-> Head(chan).own] ELSE cell
    /\ UNCHANGED <<net, header, modal, overlap>>

\* ClusterUpdate: applied to whatever store there is.
HandleUpdate ==
    /\ Receive("Update")
    /\ cell' = [of |-> Head(chan).of, own |-> Head(chan).own]
    /\ UNCHANGED <<net, header, modal, overlap>>

\* A banner is posted and the modal stays as it is.
HandleFailureQuietly ==
    /\ Receive("Failure")
    /\ UNCHANGED <<net, header, modal, cell, overlap>>

\* Any failed outcome closes the switcher, whichever task it is from.
HandleFailure ==
    /\ Receive("Failure")
    /\ modal' = "closed"
    /\ UNCHANGED <<net, header, cell, overlap>>

-----------------------------------------------------------------------------
User == OpenSwitcher \/ CloseSwitcher \/ ChangeView \/ \E c \in Contexts : Choose(c)
Switch(s) == Connect(s) \/ Write(s) \/ Report(s)
Fetching == Pass \/ BeginFetch \/ FetchOk \/ FetchErr \/ SendUpdate
UiStep == HandleSwitched \/ HandleUpdate \/ HandleFailure

Next == \/ User \/ Fetching \/ Expire \/ PollFails \/ UiStep
        \/ \E s \in Switchers : Switch(s)

Spec == Init /\ [][Next]_vars

(* The scheduler polls every ready task and the lock and the channel are   *)
(* fair; a request that keeps being made does not fail for ever.  A loop   *)
(* whose endpoint stays read leaves its park or its sleep; one that is not *)
(* read is obliged to nothing.  Neither is the user.                       *)
Fairness ==
    /\ WF_vars(UiStep)
    /\ \A s \in Switchers : SF_vars(Switch(s))
    /\ WF_vars(Pass) /\ SF_vars(BeginFetch \/ SendUpdate) /\ SF_vars(FetchOk)
    /\ WF_vars(Expire)

FairSpec == Spec /\ Fairness

-----------------------------------------------------------------------------
(* Properties *)

\* Every variable has its type.
TypeOK ==
    /\ client \in Contexts /\ header \in Contexts
    /\ modal \in {"closed", "open", "connecting"}
    /\ task \in [Switchers -> Tasks]
    /\ read \in BOOLEAN /\ fetch \in Fetches
    /\ dying \subseteq Messages
    /\ chan \in Seq(Messages) /\ Len(chan) <= ChanBound
    /\ cell \in Cells /\ overlap \in BOOLEAN

\* As long as switches do not overlap, the status bar names the context
\* requests go to whenever none is under way (switch_context writes the
\* client, handle_intent_outcome the name, in different tasks).
HeaderFollowsClient == ~overlap /\ Settled => header = client

\* A switch to c has replaced the client and is not handled yet.
Replacing(c) ==
    \/ \E s \in Switchers : task[s] = [phase |-> "report", to |-> c]
    \/ \E i \in 1..Len(chan) : chan[i] = Switched(c)

\* The store's own fetch tasks bring data of another context only while the
\* client has been replaced and the store not yet.  (fetcher_tasks.rs says
\* never: the switch "tears down this store before replacing" the client.)
ForeignOnlyWhileReplacing ==
    ~overlap /\ cell.own /\ cell.of \notin {NoContext, header}
        => Replacing(cell.of)

\* The switcher never stays in its key-less connecting state.
SwitchCompletes == (modal = "connecting") ~> (modal # "connecting")

\* When the user stops switching, the cell of an endpoint that is read from
\* some time on ends up with data of the context that requests go to, whatever
\* was left in the channel by the stores before (apply_update takes any
\* ClusterUpdate there is).  A cell is replaced as a whole; the bulletin ring
\* and the connections by process group are merged into, and are not meant.
SnapshotSettles ==
    <>[]Settled /\ <>[]read => <>[](cell.of \in {NoContext, client})

\* Said of the code, and not so.

\* The status bar and the store's base_url are those of "the active NiFi
\* context" (store.rs) once no switch is under way.
HeaderNamesClient == Settled => header = client

\* "Clear all per-view state so stale data from the previous context doesn't
\* linger until the next worker poll" (app/state/mod.rs): a cell nobody reads
\* loses what the store before left in it, too.
UnreadSettles == <>[]Settled => <>[](cell.of \in {NoContext, client})
=============================================================================
