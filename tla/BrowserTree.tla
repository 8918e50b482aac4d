---------------------------- MODULE BrowserTree ----------------------------
(***************************************************************************)
(* The flow tree of the Browser tab (view/browser/state/mod.rs, reducer    *)
(* app/state/browser/mod.rs) and the worker that fetches the detail of the *)
(* selected node (view/browser/worker.rs).                                 *)
(*                                                                         *)
(* The tree is an arena: a sequence of nodes that name their parent by     *)
(* index.  Expansion, details, the selection and the requests on their way *)
(* all name nodes by index, and the arena is built anew at every poll, so  *)
(* an index means another node from one poll to the next; only (id, kind)  *)
(* lasts.                                                                  *)
(*                                                                         *)
(* Abstracted: a component is its id and kind; a detail is the node it is  *)
(* of and whether it lists validation errors, all that the section list    *)
(* depends on.  The worker is spawned and aborted in the iteration of the  *)
(* app loop that changes the tab, so that it runs exactly while the tab    *)
(* shows, and a request made before it exists is sent to it in the same    *)
(* iteration (app/mod.rs).  A jump goes to any node, whether a link, the   *)
(* fuzzy finder or the history asks for it.  Left out: the queue listing   *)
(* (QueueListing), the sparkline, the modals, the parameter contexts with  *)
(* the section they add to a group (for_pg_node), and the row and column   *)
(* cursors inside a section.                                               *)
(***************************************************************************)
EXTENDS SequencesExt

CONSTANTS
    Flows,          \* flows a poll can find: sequences of [id, parent]
    ServiceLists,   \* controller services a poll can find, likewise, the
                    \* parent a group's id
    KindOf,         \* the kind of each id
    Faulty,         \* ids whose detail may list validation errors
    MayFail,        \* ids whose detail NiFi may refuse
    MaxAsked,       \* bound: requests whose answer is still to be taken
    MaxAnswers      \* bound: details in the event channel

Ids == DOMAIN KindOf

\* A list names each component once.
Distinct(list) == \A i, j \in DOMAIN list : list[i].id = list[j].id => i = j

\* client/browser.rs, walk_pg: the root group comes first, and a component
\* after the group it is in.
ASSUME BrowserTreeAssumption ==
    /\ MaxAsked \in Nat \ {0} /\ MaxAnswers \in Nat \ {0}
    /\ \A id \in Ids : KindOf[id] \notin {"Queues", "Services"}
    /\ \A f \in Flows :
           /\ f \in Seq([id : Ids, parent : Nat]) /\ Distinct(f)
           /\ \A i \in DOMAIN f :
                  /\ KindOf[f[i].id] # "Service"
                  /\ f[i].parent \in 0 .. i - 1
                  /\ LET above == IF f[i].parent = 0 THEN i ELSE f[i].parent
                     IN  KindOf[f[above].id] = "Group"
    /\ \A l \in ServiceLists :
           /\ l \in Seq([id : Ids, parent : Ids]) /\ Distinct(l)
           /\ \A i \in DOMAIN l : KindOf[l[i].id] = "Service"

VARIABLES
    status, services,   \* the two snapshots the arena is built from
    tab,                \* "browser", or "other"
    nodes,              \* the arena
    expanded,           \* indices of the expanded nodes
    rows,               \* `visible`: the indices shown, in display order
    selected,           \* position in rows
    focus,              \* 0 in the tree, k in the k-th section of the detail
    details,            \* by index
    pending,            \* index whose detail is shown as loading, or 0
    asked,              \* requests to the worker; it works on the first
    answers,            \* its answers in the event channel
    wanted              \* history: the request a key made last, while its
                        \* index still names the node it was made for

tree == <<nodes, expanded, rows, selected, focus>>
treeVars == <<status, services, tab, tree, details, pending, asked,
          answers, wanted>>

(***************************************************************************)
(* Building the arena                                                      *)
(***************************************************************************)
NoNode == 0
Key(n) == [id |-> n.id, kind |-> n.kind]
NoRequestMade == [at |-> NoNode]
Folders == {"Queues", "Services"}
FolderOf(kind) == CASE kind = "Connection" -> "Queues"
                    [] kind = "Service" -> "Services"
                    [] OTHER -> "none"
IsFolder(kind) == kind \in Folders
IsGroup(f, i) == f[i].kind = "Group"

\* What a loop pushes in one round.
OneIf(there, x) == IF there THEN <<x>> ELSE <<>>

\* The flat list: the flow, then the services whose group is in it.
Flat(flow, list) ==
    LET known(s) == \E i \in DOMAIN flow : flow[i].id = s.parent
                                            /\ KindOf[flow[i].id] = "Group"
        at(id) == CHOOSE i \in DOMAIN flow : flow[i].id = id
        row(s) == [id |-> s.id, kind |-> "Service", parent |-> at(s.parent)]
    IN  [i \in DOMAIN flow |->
            [id |-> flow[i].id, kind |-> KindOf[flow[i].id], parent |-> flow[i].parent]]
        \o FlattenSeq([k \in DOMAIN list |-> OneIf(known(list[k]), row(list[k]))])

\* The folders of the groups of f, in the order they are appended.
FoldersOf(f) ==
    LET holds(g, kind) == IsGroup(f, g) /\ \E c \in DOMAIN f :
                              f[c].parent = g /\ FolderOf(f[c].kind) = kind
        folder(g, kind) ==
            OneIf(holds(g, kind), [id |-> f[g].id, kind |-> kind, parent |-> g])
    IN  FlattenSeq([g \in DOMAIN f |-> folder(g, "Queues") \o folder(g, "Services")])

\* Connections and services move from their group into its folder.
Arena(flow, list) ==
    LET f == Flat(flow, list)
        all == f \o FoldersOf(f)
        folder(i) == CHOOSE j \in DOMAIN all :
                         all[j].parent = all[i].parent
                         /\ all[j].kind = FolderOf(all[i].kind)
    IN  [i \in DOMAIN all |->
            IF FolderOf(all[i].kind) = "none" THEN all[i]
            ELSE [all[i] EXCEPT !.parent = folder(i)]]

\* Display order: processors, the folders, then the rest.
Rank(kind) == CASE kind = "Processor" -> 1
                [] kind = "Queues" -> 2
                [] kind = "Services" -> 3
                [] OTHER -> 4

Children(ns, p) ==
    LET bucket(r) ==
            FlattenSeq([i \in DOMAIN ns |->
                           OneIf(ns[i].parent = p /\ Rank(ns[i].kind) = r, i)])
    IN  FlattenSeq([r \in 1 .. 4 |-> bucket(r)])

\* rebuild_visible: depth first, into the expanded nodes only.
Visible(ns, open) ==
    LET under[p \in 0 .. Len(ns)] ==
            IF p = NoNode \/ p \in open
            THEN LET kids == Children(ns, p)
                 IN  FlattenSeq([k \in DOMAIN kids |-> <<kids[k]>> \o under[kids[k]]])
            ELSE <<>>
    IN  under[NoNode]

AncestorsIn(ns, i) ==
    LET above[j \in DOMAIN ns] ==
            IF ns[j].parent = NoNode THEN {}
            ELSE {ns[j].parent} \union above[ns[j].parent]
    IN  above[i]

Position(seq, i) == CHOOSE k \in DOMAIN seq : seq[k] = i

Current == rows[selected]
CurrentKind == nodes[Current].kind

(***************************************************************************)
(* The sections of a detail pane                                           *)
(***************************************************************************)
\* DetailSections::for_node
ForNode(kind) ==
    CASE kind = "Processor" -> <<"Properties", "Connections", "Bulletins">>
      [] kind = "Service" -> <<"Properties", "References", "Bulletins">>
      [] kind = "Group" -> <<"Services", "ChildGroups", "Bulletins">>
      [] kind = "Connection" -> <<"Endpoints">>
      [] kind = "Port" -> <<"Bulletins">>
      [] kind = "RemoteGroup" -> <<"InputPorts", "OutputPorts">>
      [] OTHER -> <<>>

\* DetailSections::for_node_detail
ForNodeDetail(kind, invalid) ==
    CASE invalid /\ kind \in {"Processor", "Service"} ->
             InsertAt(ForNode(kind), 2, "ValidationErrors")
      [] invalid /\ kind = "RemoteGroup" -> <<"ValidationErrors">> \o ForNode(kind)
      [] OTHER -> ForNode(kind)

SectionsNow ==
    ForNodeDetail(CurrentKind,
                  Current \in DOMAIN details /\ details[Current].invalid)

(***************************************************************************)
(* Polls, and the rebuild they cause                                       *)
(***************************************************************************)
TreeInit ==
    /\ status = <<>> /\ services = <<>>
    /\ tab = "other"
    /\ nodes = <<>> /\ expanded = {} /\ rows = <<>> /\ selected = 1 /\ focus = 0
    /\ details = <<>> /\ pending = NoNode
    /\ asked = <<>> /\ answers = <<>> /\ wanted = NoRequestMade

PollFlow ==
    /\ \/ status' \in Flows /\ UNCHANGED services
       \/ services' \in ServiceLists /\ UNCHANGED status
    /\ UNCHANGED <<tab, tree, details, pending, asked, answers, wanted>>

\* As if the focus went back to the tree at every poll.
ReselectUnfocused(kept) ==
    /\ focus' = 0
    /\ IF kept # {} THEN selected' \in kept ELSE selected' = 1

\* The selection stays on its node where a row shows it, else goes to the
\* first row; the focus stays only with the node.
Reselect(kept) ==
    IF kept # {} THEN selected' \in kept /\ UNCHANGED focus
                 ELSE selected' = 1 /\ focus' = 0

\* apply_tree_snapshot: everything named by index is translated by key.
ApplySnapshot(ns) ==
    LET held(j) == \E i \in DOMAIN nodes : Key(nodes[i]) = Key(ns[j])
        was(j) == CHOOSE i \in DOMAIN nodes : Key(nodes[i]) = Key(ns[j])
        kept == {k \in DOMAIN rows' :
                    rows # <<>> /\ Key(ns[rows'[k]]) = Key(nodes[Current])}
    IN  /\ nodes' = ns
        /\ expanded' = {j \in DOMAIN ns : held(j) /\ was(j) \in expanded}
                       \union (IF nodes = <<>> THEN {1} ELSE {})
        /\ rows' = Visible(ns, expanded')
        /\ details' = [j \in {j \in DOMAIN ns : held(j) /\ was(j) \in DOMAIN details}
                        |-> details[was(j)]]
        /\ pending' = NoNode
        /\ Reselect(kept)


\* As if the index alone were tested.
StillThere(want, ns) == want.at \in DOMAIN ns

\* The index of a request still names the node the request is about.
StillNames(want, ns) ==
    want.at \in DOMAIN ns /\ Key(ns[want.at]) = want.key

\* ClusterChanged: the arena is rebuilt only while its tab shows, and only
\* once a flow has been fetched.  A poll that finds what the last one found
\* sends the message too, so that one may be in the channel at any time.
TakeChanged ==
    /\ tab = "browser" /\ status # <<>>
    /\ \E ns \in {Arena(status, services)} :
           /\ ApplySnapshot(ns)
           /\ wanted' = IF wanted.at # NoNode /\ StillNames(wanted, ns)
                        THEN wanted ELSE NoRequestMade
    /\ UNCHANGED <<status, services, tab, asked, answers>>

(***************************************************************************)
(* The detail of the selected node                                         *)
(***************************************************************************)
\* As if a request were spared while another detail is loading.
EmitOnce ==
    LET now == rows'[selected']
        req == [at |-> now, key |-> Key(nodes[now])]
    IN  IF IsFolder(nodes[now].kind)
        THEN pending' = NoNode /\ wanted' = NoRequestMade /\ UNCHANGED asked
        ELSE /\ Len(asked) + Len(answers) < MaxAsked
             /\ pending' = now
             /\ asked' = IF pending = NoNode THEN Append(asked, req) ELSE asked
             /\ wanted' = req

\* emit_detail_request_for_current_selection, of the new selection.
Emit ==
    LET now == rows'[selected']
        req == [at |-> now, key |-> Key(nodes[now])]
    IN  IF IsFolder(nodes[now].kind)
        THEN pending' = NoNode /\ wanted' = NoRequestMade /\ UNCHANGED asked
        ELSE /\ Len(asked) + Len(answers) < MaxAsked
             /\ pending' = now
             /\ asked' = Append(asked, req)
             /\ wanted' = req

Answer(a) ==
    /\ Len(answers) < MaxAnswers
    /\ asked' = Tail(asked)
    /\ answers' = Append(answers, a)
    /\ UNCHANGED <<status, services, tab, tree, details, pending, wanted>>

AnswerOk ==
    /\ asked # <<>>
    /\ \E invalid \in IF Head(asked).key.id \in Faulty THEN BOOLEAN ELSE {FALSE} :
           Answer([ok |-> TRUE, req |-> Head(asked), invalid |-> invalid])

AnswerErr ==
    /\ asked # <<>> /\ Head(asked).key.id \in MayFail
    /\ Answer([ok |-> FALSE])

\* apply_node_detail: dropped when the index names another node by now.  An
\* error shows in the status line and leaves the tree alone.
TakeAnswer ==
    /\ answers # <<>>
    /\ answers' = Tail(answers)
    /\ \E a \in {Head(answers)} :
           IF a.ok /\ StillNames(a.req, nodes)
           THEN /\ details' = [i \in DOMAIN details \union {a.req.at} |->
                                  IF i = a.req.at
                                  THEN [key |-> a.req.key, invalid |-> a.invalid]
                                  ELSE details[i]]
                /\ pending' = IF pending = a.req.at THEN NoNode ELSE pending
           ELSE UNCHANGED <<details, pending>>
    /\ UNCHANGED <<status, services, tab, tree, asked, wanted>>

(***************************************************************************)
(* Keys in the tree                                                        *)
(***************************************************************************)
\* Keys reach the tree when its tab shows and holds the focus.
InTree == tab = "browser" /\ rows # <<>> /\ focus = 0
KeyDone == UNCHANGED <<status, services, tab, nodes, details, answers>>
NoRequest == UNCHANGED <<pending, asked, wanted>>

SelectNode(i) ==
    selected' = IF i \in ToSet(rows') THEN Position(rows', i) ELSE selected
Expand(is) ==
    /\ expanded' = expanded \union is
    /\ rows' = Visible(nodes, expanded')
\* As if the rows were left for the next poll to recompute.
CollapseOnly(i) == expanded' = expanded \ {i} /\ UNCHANGED rows
Collapse(i) ==
    /\ expanded' = expanded \ {i}
    /\ rows' = Visible(nodes, expanded')

\* Up, Down, PageUp, PageDown, First and Last; a page is longer than the tree.
Move ==
    /\ InTree
    /\ selected' \in {1, Len(rows)}
            \union {k \in DOMAIN rows : k \in {selected - 1, selected + 1}}
    /\ UNCHANGED <<expanded, rows, focus>>
    /\ Emit /\ KeyDone

\* enter_selection: into the first child of a group; nothing on a leaf.
EnterSelection ==
    IF CurrentKind = "Group"
    THEN /\ Expand({Current})
         /\ \E kids \in {Children(nodes, Current)} :
                SelectNode(IF kids = <<>> THEN NoNode ELSE kids[1])
    ELSE UNCHANGED <<expanded, rows, selected>>

\* backspace_selection: closes an open group, else goes to the parent.
BackspaceSelection ==
    IF CurrentKind = "Group" /\ Current \in expanded
    THEN Collapse(Current) /\ SelectNode(Current)
    ELSE UNCHANGED <<expanded, rows>> /\ SelectNode(nodes[Current].parent)

Right ==
    /\ InTree
    /\ IF IsFolder(CurrentKind)
       THEN Expand({Current}) /\ UNCHANGED selected /\ NoRequest
       ELSE EnterSelection /\ Emit
    /\ UNCHANGED focus
    /\ KeyDone

Left ==
    /\ InTree
    /\ IF IsFolder(CurrentKind)
       THEN Collapse(Current) /\ UNCHANGED selected /\ NoRequest
       ELSE BackspaceSelection /\ Emit
    /\ UNCHANGED focus
    /\ KeyDone

Ascend ==
    /\ InTree
    /\ BackspaceSelection /\ Emit
    /\ UNCHANGED focus
    /\ KeyDone

\* Enter: toggles a folder, enters a group, or focuses the detail of a leaf.
Descend ==
    /\ InTree
    /\ \/ /\ IsFolder(CurrentKind)
          /\ IF Current \in expanded THEN Collapse(Current) ELSE Expand({Current})
          /\ UNCHANGED <<selected, focus>> /\ NoRequest
       \/ /\ CurrentKind = "Group"
          /\ EnterSelection /\ Emit
          /\ UNCHANGED focus
       \/ /\ ~IsFolder(CurrentKind) /\ CurrentKind # "Group"
          /\ ForNode(CurrentKind) # <<>>
          /\ focus' = 1
          /\ UNCHANGED <<expanded, rows, selected>> /\ NoRequest
    /\ KeyDone

\* NextPane and PrevPane from the tree: the section list without errors.
IntoSections ==
    /\ InTree
    /\ ForNode(CurrentKind) # <<>>
    /\ focus' \in {1, Len(ForNode(CurrentKind))}
    /\ UNCHANGED <<expanded, rows, selected>>
    /\ NoRequest /\ KeyDone

(***************************************************************************)
(* Keys in a section, jumps, tabs and contexts                             *)
(***************************************************************************)
InSection == tab = "browser" /\ rows # <<>> /\ focus # 0

\* NextPane, PrevPane and Ascend.
AmongSections ==
    /\ InSection
    /\ focus' \in {0}
            \union (IF focus < Len(SectionsNow) THEN {focus + 1} ELSE {})
            \union (IF SectionsNow # <<>> THEN {focus - 1} ELSE {})
    /\ UNCHANGED <<expanded, rows, selected>>
    /\ NoRequest /\ KeyDone

Reveal(i) == Expand(AncestorsIn(nodes, i)) /\ SelectNode(i)

\* drill_into_group, from the list of child groups.
Drill ==
    /\ InSection
    /\ focus <= Len(SectionsNow) /\ SectionsNow[focus] = "ChildGroups"
    /\ Current \in DOMAIN details
    /\ \E i \in DOMAIN nodes :
           /\ nodes[i].parent = Current /\ IsGroup(nodes, i)
           /\ Reveal(i)
    /\ focus' = 0
    /\ Emit /\ KeyDone

\* OpenInBrowserTarget and restore_anchor: the tab shows the node, or, when
\* it is unknown, what it showed before.  The request of a jump from another
\* tab goes to the worker spawned in the same iteration.
Jump ==
    /\ tab' = "browser"
    /\ \/ \E i \in DOMAIN nodes : Reveal(i) /\ Emit
       \/ UNCHANGED <<expanded, rows, selected>> /\ NoRequest
    /\ UNCHANGED <<status, services, nodes, focus, details, answers>>

ShowTab ==
    /\ tab = "other"
    /\ tab' = "browser"
    /\ UNCHANGED <<status, services, tree, details, pending, asked,
                   answers, wanted>>

\* The worker is aborted, with the requests it was sent.
LeaveTab ==
    /\ tab = "browser"
    /\ tab' = "other"
    /\ asked' = <<>>
    /\ wanted' = NoRequestMade
    /\ UNCHANGED <<status, services, tree, details, pending, answers>>

\* ContextSwitched: a new BrowserState, a new store and a new worker.  What is
\* in the event channel stays there.
ContextSwitched ==
    /\ nodes' = <<>> /\ expanded' = {} /\ rows' = <<>> /\ selected' = 1 /\ focus' = 0
    /\ details' = <<>> /\ pending' = NoNode
    /\ status' = <<>> /\ services' = <<>>
    /\ asked' = <<>> /\ wanted' = NoRequestMade
    /\ UNCHANGED <<tab, answers>>

Worker == AnswerOk \/ AnswerErr
Tree == Move \/ Right \/ Left \/ Ascend \/ Descend \/ IntoSections
TreeNext ==
    \/ PollFlow \/ TakeChanged
    \/ Worker \/ TakeAnswer
    \/ Tree \/ AmongSections \/ Drill
    \/ Jump \/ ShowTab \/ LeaveTab \/ ContextSwitched

TreeSpec == TreeInit /\ [][TreeNext]_treeVars

\* The worker and the UI task are scheduled; the user owes nothing, nor NiFi
\* another poll.
FairTreeSpec == TreeSpec /\ WF_treeVars(Worker) /\ WF_treeVars(TakeAnswer)

(***************************************************************************)
(* Properties                                                              *)
(***************************************************************************)
Components == {[id |-> id, kind |-> KindOf[id]] : id \in Ids}
Keys == Components
    \union {[id |-> id, kind |-> f] : id \in Ids, f \in Folders}
Requests == [at : Nat, key : Keys]

TreeTypeOK ==
    /\ status \in Flows \union {<<>>} /\ services \in ServiceLists \union {<<>>}
    /\ tab \in {"browser", "other"}
    /\ \A i \in DOMAIN nodes : Key(nodes[i]) \in Keys /\ nodes[i].parent \in 0 .. Len(nodes)
    /\ \A i, j \in DOMAIN nodes : Key(nodes[i]) = Key(nodes[j]) => i = j
    /\ expanded \subseteq DOMAIN nodes
    /\ selected \in Nat \ {0} /\ focus \in 0 .. 4
    /\ DOMAIN details \subseteq DOMAIN nodes
    /\ pending \in 0 .. Len(nodes)
    /\ asked \in Seq(Requests) /\ Len(asked) <= MaxAsked
    /\ Len(answers) <= MaxAnswers
    /\ wanted \in Requests \union {NoRequestMade}

\* What the pane shows for a node was fetched for that node, however the
\* arena moved while the answer was on its way, across polls, tab changes and
\* context switches.
DetailOfNode ==
    \A i \in DOMAIN details :
        i \in DOMAIN nodes /\ details[i].key = Key(nodes[i])

\* Every handler that opens or closes a node recomputes the rows: they are the
\* nodes under open ancestors, each once and below its parent, and the
\* selection is one of them.
RowsAreOpenTree ==
    /\ TreeTypeOK
    /\ ToSet(rows) = {i \in DOMAIN nodes : AncestorsIn(nodes, i) \subseteq expanded}
    /\ Cardinality(ToSet(rows)) = Len(rows)
    /\ \A k \in DOMAIN rows : nodes[rows[k]].parent # NoNode =>
           \E h \in 1 .. k - 1 : rows[h] = nodes[rows[k]].parent
    /\ nodes # <<>> => selected \in DOMAIN rows

\* A poll never moves the user: whatever the arena becomes, the nodes that
\* are still there stay open or closed and keep their details, and the
\* selection and the focus stay on their node while a row shows it.
PollKeepsPlace ==
    [][nodes' # nodes /\ nodes' # <<>> =>
        \A i \in DOMAIN nodes, j \in DOMAIN nodes' :
            Key(nodes[i]) = Key(nodes'[j]) =>
                /\ i \in expanded <=> j \in expanded'
                /\ i \in DOMAIN details =>
                       j \in DOMAIN details' /\ details'[j] = details[i]
                /\ i = Current /\ j \in ToSet(rows') =>
                       rows'[selected'] = j /\ focus' = focus]_treeVars

\* The detail of the node the user went to last comes, from whichever tab the
\* user came and whatever was asked before, unless NiFi refuses it, the arena
\* moves the node, or the user leaves the tab.
DetailComes ==
    \A key \in {k \in Components : k.id \notin MayFail} :
        LET owed == wanted.at # NoNode /\ wanted.key = key
                    /\ wanted.at \notin DOMAIN details
        IN  owed ~> ~owed

(***************************************************************************)
(* Said of the code, and not so                                            *)
(***************************************************************************)
\* DetailFocus::Section says its idx is an index into the section list of the
\* current node, and BrowserState.detail_focus that every method that changes
\* the selection resets it to Tree.  A jump changes the selection and does
\* not; Down then reads sections.0[idx].
FocusInSections ==
    tab = "browser" /\ focus # 0 => rows # <<>> /\ focus <= Len(SectionsNow)
=============================================================================
