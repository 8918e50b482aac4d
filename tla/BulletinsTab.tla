---------------------------- MODULE BulletinsTab ----------------------------
(***************************************************************************)
(* The Bulletins tab: its filters, its folding of rows into groups, the    *)
(* selection and the pause, while the ring it mirrors grows and drops its  *)
(* oldest rows (src/src/view/bulletins/state/mod.rs, and the tab's keys in *)
(* app/state/bulletins.rs).                                                *)
(*                                                                         *)
(* Bulletins are numbered in the order of the ring, which is a window over *)
(* them (RingIsTail of BulletinFeed): a ring index is a number here.       *)
(***************************************************************************)
EXTENDS Naturals, FiniteSets

CONSTANTS
    MaxBulletins,      \* bulletins in all
    RingSize,   \* ring_size
    Sources, Severities, Words,
    SourceOf,   \* SourceOf[b], StemOf[b], SeverityOf[b]: the bulletin's source,
    StemOf,     \* its message stripped and normalised, its severity chip
    SeverityOf,
    TypeOf,     \* TypeOf[s]: the component type chip of a source
    HitsOf,     \* HitsOf[w]: bulletins whose message or source contains w
    Trim,       \* Trim[w]: w without blanks at its ends
    NoWord,     \* the empty text
    Any,        \* no pin, no type
    MaxHits     \* matches of the modal's search

Numbers == 1..MaxBulletins
Types == {"Processor", "ControllerService", "ReportingTask", "Other"}

ASSUME TabAssumption ==
    /\ MaxBulletins \in Nat /\ RingSize \in Nat \ {0} /\ MaxHits \in Nat
    /\ SourceOf \in [Numbers -> Sources] /\ SeverityOf \in [Numbers -> Severities]
    /\ DOMAIN StemOf = Numbers
    /\ TypeOf \in [Sources -> Types]
    /\ NoWord \in Words /\ HitsOf \in [Words -> SUBSET Numbers] /\ HitsOf[NoWord] = Numbers
    /\ Trim \in [Words -> Words] /\ Trim[NoWord] = NoWord
    /\ Any \notin Sources \cup Types

VARIABLES
    last,      \* newest bulletin in the cluster's ring
    seen,      \* newest bulletin in the tab's mirror of it
    filters,   \* FilterState and mutes
    input,     \* text_input: "off", or the text it was opened with
    mode,      \* group_mode
    selected,  \* the selected row of grouped_view
    auto,      \* auto_scroll; paused without
    badge,     \* new_since_pause
    pausedAt,  \* history: seen when the pause began
    detail,    \* detail_modal: the bulletin it shows, or 0
    search     \* the search inside it

view == <<filters, mode, selected>>
tail == <<auto, badge, pausedAt>>
modal == <<detail, search>>
tabVars == <<last, seen, view, input, tail, modal>>

NoFilters == [show |-> Severities, pin |-> Any, mutes |-> {}, type |-> Any, word |-> NoWord]
NoSearch  == [mode |-> "off", empty |-> TRUE, hits |-> 0, at |-> 0]

-----------------------------------------------------------------------------
(* What is on the screen *)

Window(n) == {b \in 1..n : b + RingSize > n}

\* row_matches
Matches(b) ==
    /\ filters.pin \in {Any, SourceOf[b]}
    /\ SeverityOf[b] \in filters.show
    /\ SourceOf[b] \notin filters.mutes
    /\ filters.type \in {Any, TypeOf[SourceOf[b]]}
    /\ b \in HitsOf[filters.word]

Rows == {b \in Window(seen) : Matches(b)}

\* grouped_view folds rows with one key; without grouping each is alone.
SameGroup(a, b) ==
    CASE mode = "Off"              -> a = b
      [] mode = "Source"           -> SourceOf[a] = SourceOf[b]
      [] mode = "SourceAndMessage" -> SourceOf[a] = SourceOf[b] /\ StemOf[a] = StemOf[b]

\* A group is named by its first row; groups are listed in that order.
Groups == {b \in Rows : \A a \in Rows : SameGroup(a, b) => b <= a}
Latest(g) == CHOOSE b \in Rows : /\ SameGroup(b, g)
                                 /\ \A a \in Rows : SameGroup(a, g) => a <= b
Position(g) == Cardinality({h \in Groups : h < g})
Bottom == IF Groups = {} THEN 0 ELSE Cardinality(Groups) - 1

\* selected_ring_index, 0 for none.
SelectedGroups == {g \in Groups : Position(g) = selected}
SelectedRow == IF SelectedGroups = {} THEN 0 ELSE Latest(CHOOSE g \in SelectedGroups : TRUE)

\* selected_group_key of the row b: without grouping it is the source alone.
KeyOf(b) == IF mode = "SourceAndMessage" THEN <<SourceOf[b], StemOf[b]>> ELSE <<SourceOf[b]>>

WithKey(key) == {g \in Groups : KeyOf(Latest(g)) = key}

Leftmost(S)  == CHOOSE n \in S : \A k \in S : n <= k
Rightmost(S) == CHOOSE n \in S : \A k \in S : k <= n

\* reconcile_selection: the first group whose run covers prev, else the
\* nearest older, else the nearest newer.
Covering(prev) == {g \in Groups : g <= prev /\ prev <= Latest(g)}
Older(prev)    == {g \in Groups : Latest(g) < prev}
Reconciled(prev) ==
    CASE Groups = {}                          -> 0
      [] prev = 0 /\ Groups # {}              -> IF auto THEN Bottom ELSE 0
      [] prev # 0 /\ Covering(prev) # {}      -> Position(Leftmost(Covering(prev)))
      [] prev # 0 /\ Covering(prev) = {} /\ Older(prev) # {} -> Position(Rightmost(Older(prev)))
      [] OTHER                                -> 0

\* The row number is kept whatever is now there.
ReconcileNot == selected' = selected

\* Every mutator of filters or grouping captures the row before it changes
\* them and snaps the selection after.
Reconcile == \E prev \in {SelectedRow} : selected' = Reconciled(prev)'

TabInit ==
    /\ last = 0 /\ seen = 0 /\ filters = NoFilters /\ input = "off"
    /\ mode = "SourceAndMessage" /\ selected = 0
    /\ auto = TRUE /\ badge = 0 /\ pausedAt = 0
    /\ detail = 0 /\ search = NoSearch

-----------------------------------------------------------------------------
(* The ring *)

\* A batch is merged into the cluster's ring.
Grow ==
    /\ last' \in last + 1 .. MaxBulletins
    /\ UNCHANGED <<seen, view, input, tail, modal>>

NewRows == {b \in Window(last) \ Window(seen) : Matches(b)}

\* Rows already mirrored are counted as new ones.
RedrawRecounting ==
    /\ seen' = last
    /\ UNCHANGED <<last, filters, mode, input, auto, pausedAt, modal>>
    /\ IF auto THEN selected' = Bottom' /\ badge' = 0
       ELSE /\ badge' = badge + Cardinality({b \in Window(last) : Matches(b)})
            /\ UNCHANGED selected

\* The selection keeps its number while rows above it drop out.
RedrawByNumber ==
    /\ seen' = last
    /\ UNCHANGED <<last, filters, mode, input, auto, pausedAt, modal>>
    /\ IF auto THEN selected' = Bottom' /\ badge' = 0
       ELSE badge' = badge + Cardinality(NewRows) /\ UNCHANGED selected

\* redraw_bulletins.  Paused: the badge counts the new rows the filters let
\* through, and the selection follows its group's key, if it is still there.
Redraw ==
    /\ seen' = last
    /\ UNCHANGED <<last, filters, mode, input, auto, pausedAt, modal>>
    /\ IF auto THEN selected' = Bottom' /\ badge' = 0
       ELSE /\ badge' = badge + Cardinality(NewRows)
            /\ \E key \in {IF SelectedRow = 0 THEN <<>> ELSE KeyOf(SelectedRow)} :
                  IF WithKey(key)' = {} THEN UNCHANGED selected
                  ELSE selected' = Position(Leftmost(WithKey(key)))'

-----------------------------------------------------------------------------
(* Keys of the list *)

Listing == input = "off" /\ detail = 0

Refilter(f) ==
    /\ filters' = f
    /\ UNCHANGED <<last, seen, mode, tail, modal>>
    /\ Reconcile

Toggled(S, x) == IF x \in S THEN S \ {x} ELSE S \cup {x}

ToggleSeverity(s) ==
    /\ Listing /\ Refilter([filters EXCEPT !.show = Toggled(@, s)])
    /\ UNCHANGED input

NextType(t) ==
    CASE t = Any                 -> "Processor"
      [] t = "Processor"         -> "ControllerService"
      [] t = "ControllerService" -> "ReportingTask"
      [] t = "ReportingTask"     -> "Other"
      [] t = "Other"             -> Any

CycleType ==
    /\ Listing /\ Refilter([filters EXCEPT !.type = NextType(@)])
    /\ UNCHANGED input

\* Shift+R clears the pin and the mutes too.
ClearFilters == Listing /\ Refilter(NoFilters) /\ UNCHANGED input

MuteSource ==
    /\ Listing /\ SelectedRow # 0
    /\ Refilter([filters EXCEPT !.mutes = Toggled(@, SourceOf[SelectedRow])])
    /\ UNCHANGED input

NextMode(m) ==
    CASE m = "SourceAndMessage" -> "Source"
      [] m = "Source"           -> "Off"
      [] m = "Off"              -> "SourceAndMessage"

CycleGroupMode ==
    /\ Listing
    /\ mode' = NextMode(mode)
    /\ UNCHANGED <<last, seen, filters, input, tail, modal>>
    /\ Reconcile

Pause == auto' = FALSE /\ badge' = badge /\ pausedAt' = IF auto THEN seen ELSE pausedAt
Follow == auto' = TRUE /\ badge' = 0 /\ pausedAt' = pausedAt

Steady == Listing /\ UNCHANGED <<last, seen, filters, mode, input, modal>>

\* move_selection_up pauses if it moved.
MoveUp ==
    /\ Steady /\ Groups # {} /\ selected > 0
    /\ selected' = selected - 1 /\ Pause

\* move_selection_down follows the tail again when it gets there.
MoveDown ==
    /\ Steady /\ Groups # {}
    /\ selected' = IF selected >= Bottom THEN selected ELSE selected + 1
    /\ IF selected' = Bottom THEN Follow ELSE UNCHANGED tail

GotoOldest == Steady /\ selected' = (IF Groups = {} THEN selected ELSE 0) /\ Pause
GotoNewest == Steady /\ selected' = (IF Groups = {} THEN selected ELSE Bottom) /\ Follow

TogglePause ==
    /\ Steady
    /\ IF auto THEN Pause /\ UNCHANGED selected ELSE Follow /\ selected' = Bottom

-----------------------------------------------------------------------------
(* The text filter, edited live *)

OpenSearch ==
    /\ Listing
    /\ input' = filters.word
    /\ UNCHANGED <<last, seen, view, tail, modal>>

\* push_text_input, pop_text_input, paste.
Type(w) == input # "off" /\ Refilter([filters EXCEPT !.word = w]) /\ UNCHANGED input

\* commit_text_input
Commit ==
    /\ input # "off" /\ Refilter([filters EXCEPT !.word = Trim[@]])
    /\ input' = "off"

\* cancel_text_input, by Esc or by cutting the text.
Cancel == input # "off" /\ Refilter([filters EXCEPT !.word = input]) /\ input' = "off"

-----------------------------------------------------------------------------
(* From other tabs *)

\* A landing pins a source (set_source_filter).
Land(s) == Refilter([filters EXCEPT !.pin = s]) /\ UNCHANGED input

\* restore_anchor clamps a row number by the rows before grouping.
RestoreAnchor(n) ==
    /\ selected' = IF n < Cardinality(Rows) THEN n
                   ELSE IF Rows = {} THEN 0 ELSE Cardinality(Rows) - 1
    /\ UNCHANGED <<last, seen, filters, mode, input, tail, modal>>

-----------------------------------------------------------------------------
(* The detail modal: a snapshot of the selected group, and a search in it *)

Reading == detail # 0 /\ UNCHANGED <<last, seen, view, input, tail, detail>>

OpenDetail ==
    /\ Listing /\ SelectedRow # 0
    /\ detail' = SelectedRow /\ search' = NoSearch
    /\ UNCHANGED <<last, seen, view, input, tail>>

CloseDetail ==
    /\ detail # 0 /\ search.mode # "typing"
    /\ detail' = 0 /\ search' = NoSearch
    /\ UNCHANGED <<last, seen, view, input, tail>>

FindOpen ==
    /\ Reading /\ search.mode # "typing"
    /\ search' = [NoSearch EXCEPT !.mode = "typing"]

\* modal_search_push, modal_search_pop: the matches of the new query.
FindType ==
    /\ Reading /\ search.mode = "typing"
    /\ \E n \in 0..MaxHits, e \in BOOLEAN :
          /\ e => n = 0
          /\ search' = [mode |-> "typing", empty |-> e, hits |-> n, at |-> 0]

FindCommit ==
    /\ Reading /\ search.mode = "typing"
    /\ search' = IF search.empty THEN NoSearch ELSE [search EXCEPT !.mode = "committed"]

FindCancel == Reading /\ search.mode = "typing" /\ search' = NoSearch

FindNext ==
    /\ Reading /\ search.mode = "committed" /\ search.hits > 0
    /\ search' = [search EXCEPT !.at = (@ + 1) % search.hits]

FindPrev ==
    /\ Reading /\ search.mode = "committed" /\ search.hits > 0
    /\ search' = [search EXCEPT !.at = IF @ = 0 THEN search.hits - 1 ELSE @ - 1]

-----------------------------------------------------------------------------
Feed == Grow \/ Redraw
Moves == MoveUp \/ MoveDown \/ GotoOldest \/ GotoNewest \/ TogglePause
Filtering == \/ CycleType \/ ClearFilters \/ MuteSource \/ CycleGroupMode
             \/ \E s \in Severities : ToggleSeverity(s)
Editing == OpenSearch \/ Commit \/ Cancel \/ \E w \in Words : Type(w)
Arriving == (\E s \in Sources : Land(s)) \/ (\E n \in 0..RingSize : RestoreAnchor(n))
Inspecting == OpenDetail \/ CloseDetail \/ FindOpen \/ FindType \/ FindCommit
                \/ FindCancel \/ FindNext \/ FindPrev

TabNext == Feed \/ Moves \/ Filtering \/ Editing \/ Arriving \/ Inspecting

TabSpec == TabInit /\ [][TabNext]_tabVars

-----------------------------------------------------------------------------
(* Properties *)

\* Every variable has its type; a match the search stands on is one of its.
TabTypeOK ==
    /\ last \in 0..MaxBulletins /\ seen \in 0..last
    /\ filters \in [show : SUBSET Severities, pin : Sources \cup {Any},
                    mutes : SUBSET Sources, type : Types \cup {Any}, word : Words]
    /\ input \in Words \cup {"off"} /\ mode \in {"SourceAndMessage", "Source", "Off"}
    /\ selected \in 0..RingSize /\ auto \in BOOLEAN /\ badge \in 0..MaxBulletins
    /\ pausedAt \in 0..MaxBulletins /\ detail \in 0..MaxBulletins
    /\ search \in [mode : {"off", "typing", "committed"}, empty : BOOLEAN,
                   hits : 0..MaxHits, at : 0..MaxHits]
    /\ search.hits > 0 => search.at < search.hits

\* The +N badge is there in the pause only, and never counts a bulletin twice
\* or one that was on the screen when the pause began, whatever filters are
\* changed and rows evicted in between (redraw_bulletins).
BadgeCountsNew ==
    /\ TabTypeOK
    /\ auto => badge = 0
    /\ ~auto => badge <= seen - pausedAt

\* "Paused mode must keep the cursor on the same logical group across ring
\* eviction" (redraw_bulletins): with rows grouped, new rows and evictions
\* leave the cursor on its group as long as one row of it is left.
PauseHoldsGroup ==
    [][~auto /\ seen' # seen /\ mode # "Off" /\ SelectedRow # 0
       => \E key \in {KeyOf(SelectedRow)} :
             WithKey(key)' # {} => SelectedGroups' \cap WithKey(key)' # {}]_tabVars

\* Whatever changes the filters or the grouping, from the keyboard or another
\* tab, leaves the cursor on a group around the row it was on, if that row is
\* still listed; without grouping, on that row (reconcile_selection).
FilterHoldsPlace ==
    [][(filters' # filters \/ mode' # mode) /\ SelectedRow # 0
       => \E row \in {SelectedRow} :
             row \in Rows' => (SelectedGroups \cap Covering(row))' # {}]_tabVars

\* Said of the code, and not so.

\* reconcile_selection is to "snap `selected` to the group that contains
\* `prev_ring_idx`".
FilterHoldsGroup ==
    [][(filters' # filters \/ mode' # mode) /\ SelectedRow # 0
       => \E row \in {SelectedRow} :
             row \in Rows' => \E g \in SelectedGroups' : SameGroup(row, g)']_tabVars
=============================================================================
