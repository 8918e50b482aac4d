---------------------------- MODULE ContentModal ----------------------------
(***************************************************************************)
(* The Tracer's content viewer (src/src/view/tracer/modal_state/mod.rs):   *)
(* the two sides of a provenance event fetched chunk by chunk under a      *)
(* ceiling, decoded, pretty-printed and compared by jobs off the UI        *)
(* thread.  Nothing cancels a job: the viewer may be closed, and opened    *)
(* again on the same event, while jobs of the earlier one are under way,   *)
(* and their results name the event only.                                  *)
(*                                                                         *)
(* Bytes are named by their position.  A job and the delivery of its       *)
(* result are one step here: results of different tasks come in any order. *)
(***************************************************************************)
EXTENDS Naturals, Sequences, FiniteSets, Bags, BagsExt

CONSTANTS
    Events,      \* provenance events with a loaded detail
    Available,   \* Available[e]: sides with content, of "Input" and "Output"
    Size,        \* Size[e][s]: bytes of the content
    Format,      \* Format[e][s]: "text", "json" or "table" (by magic bytes)
    Alike,       \* events whose sides have the same bytes as far as both go
    Mime,        \* Mime[e]: "same" (equal and diffable), "none" or "other"
    Apart,       \* events whose tables are of two formats, or too long to compare
    Chunk,       \* MODAL_CHUNK_BYTES
    TextCap, TabularCap, DiffCap,  \* [tracer.ceiling]
    MaxOpens,    \* times the viewer is opened
    MaxJobs      \* distinct jobs under way when a key starts another

Sides == {"Input", "Output"}
Tabs  == Sides \cup {"Diff"}

ASSUME ModalAssumption ==
    /\ Available \in [Events -> SUBSET Sides]
    /\ Size \in [Events -> [Sides -> Nat]]
    /\ Format \in [Events -> [Sides -> {"text", "json", "table"}]]
    /\ Alike \subseteq Events /\ Apart \subseteq Events
    /\ Mime \in [Events -> {"same", "none", "other"}]
    /\ Chunk \in Nat \ {0} /\ TextCap \in Nat \ {0} /\ TabularCap \in Nat \ {0}
    /\ DiffCap \in Nat /\ MaxOpens \in Nat /\ MaxJobs \in Nat

VARIABLES
    modal,   \* TracerState.content_modal
    jobs,    \* the bag of chunk fetches and off-thread jobs under way
    opens,   \* history: times the viewer was opened
    lost,    \* history: a result for the open viewer's event was dropped
    heir     \* history: a diff of its event was under way when the viewer was opened

modalVars == <<modal, jobs, opens, lost, heir>>

Closed  == [event |-> "none"]
Unknown == 0      \* effective_ceiling before the first chunk
NoDiff  == <<>>
Idle    == 0      \* no diff job; generations in flight are 1 and more

Empty == [kind |-> "Empty", of |-> <<>>]
EmptySide == [loaded |-> <<>>, decoded |-> Empty, full |-> FALSE, hit |-> FALSE,
              flying |-> FALSE, ceiling |-> Unknown, decoding |-> FALSE, prettying |-> FALSE]

IsOpen == modal # Closed
Buf(s) == modal.buf[s]

ChunkJob(e, s, o, n) == [kind |-> "chunk", event |-> e, side |-> s, offset |-> o, len |-> n]
DiffJob(e, g, d)     == [kind |-> "diff", event |-> e, gen |-> g, diff |-> d]

Under(kind)       == {j \in BagToSet(jobs) : j.kind = kind}
Spawned(bag, new) == bag (+) SetToBag(new)

Least(a, b)    == IF a < b THEN a ELSE b
Greatest(a, b) == IF a < b THEN b ELSE a
Provisional    == Greatest(TextCap, TabularCap)

ModalInit == modal = Closed /\ jobs = EmptyBag /\ opens = 0 /\ lost = FALSE /\ heir = FALSE

-----------------------------------------------------------------------------
(* Starting fetches *)

\* Mark the sides in flight and spawn a fetch of len(s) bytes for each.
Fire(m, sides, len(_)) ==
    /\ modal' = [m EXCEPT !.buf = [s \in Sides |->
                    IF s \in sides THEN [m.buf[s] EXCEPT !.flying = TRUE] ELSE m.buf[s]]]
    /\ jobs' = Spawned(jobs, {ChunkJob(m.event, s, Len(m.buf[s].loaded), len(s)) : s \in sides})

FirstLen(s) == Least(Chunk, Provisional)

Room == Cardinality(BagToSet(jobs)) < MaxJobs

\* open_content_modal: on the input if there is one.
Open(e) ==
    /\ ~IsOpen /\ opens < MaxOpens /\ Room
    /\ LET tab == IF "Input" \in Available[e] THEN "Input" ELSE "Output"
           m   == [event |-> e, tab |-> tab, diffable |-> "Pending",
                   buf |-> [s \in Sides |-> EmptySide],
                   cache |-> NoDiff, gen |-> 0, inflight |-> Idle]
       IN  Fire(m, {tab} \cap Available[e], FirstLen)
    /\ opens' = opens + 1 /\ lost' = FALSE
    /\ heir' = \E j \in Under("diff") : j.event = e

\* close_content_modal
Close == IsOpen /\ modal' = Closed /\ heir' = FALSE /\ UNCHANGED <<jobs, opens, lost>>

\* switch_content_modal_tab: sides not loaded yet are fetched.  The Diff tab
\* is offered while the sides are diffable.
SwitchTab(tab) ==
    /\ IsOpen /\ modal.tab # tab /\ Room
    /\ tab = "Diff" => modal.diffable = "Ok"
    /\ tab = "Output" => "Output" \in Available[modal.event]
    /\ LET wanted == (IF tab = "Diff" THEN Sides ELSE {tab}) \cap Available[modal.event]
       IN  Fire([modal EXCEPT !.tab = tab],
                {s \in wanted : ~Buf(s).flying /\ Buf(s).loaded = <<>> /\ ~Buf(s).full},
                FirstLen)
    /\ UNCHANGED <<opens, lost, heir>>

CapOf(b) == IF b.ceiling = Unknown THEN Provisional ELSE b.ceiling

\* content_modal_scroll_to near the end of what is shown: the next chunk.
Scroll ==
    /\ IsOpen /\ modal.tab \in Sides /\ Room
    /\ ~Buf(modal.tab).full /\ ~Buf(modal.tab).flying
    /\ Len(Buf(modal.tab).loaded) < CapOf(Buf(modal.tab))
    /\ LET rest(s) == Least(Chunk, CapOf(Buf(s)) - Len(Buf(s).loaded))
       IN  Fire(modal, {modal.tab}, rest)
    /\ UNCHANGED <<opens, lost, heir>>

-----------------------------------------------------------------------------
(* The diff *)

Tables(m) == {s \in Sides : m.buf[s].decoded.kind = "Table"}
Rendered(m, kinds) == {s \in Sides : m.buf[s].decoded.kind \in kinds}
BothFull(m) == \A s \in Sides : m.buf[s].full

\* Without a MIME type the renders decide, and an empty side is waited for.
Comparable(m) ==
    CASE Mime[m.event] = "same"  -> "Ok"
      [] Mime[m.event] = "other" -> "No"
      [] Mime[m.event] = "none"  ->
           IF Rendered(m, {"Text", "Pretty"}) = Sides THEN "Ok"
           ELSE IF Rendered(m, {"Empty"}) # {} /\ \E s \in Sides : m.buf[s].loaded = <<>>
                THEN IF BothFull(m) THEN "Ok" ELSE "Pending"
           ELSE "No"

SameBytes(m) ==
    /\ m.buf["Input"].loaded = m.buf["Output"].loaded
    /\ m.event \in Alike \/ m.buf["Input"].loaded = <<>>

\* resolve_diffable
Resolve(m) ==
    IF Available[m.event] # Sides THEN "No"
    ELSE IF Tables(m) = Sides THEN IF m.event \in Apart THEN "No" ELSE "Ok"
    ELSE IF Tables(m) # {} THEN "No"
    ELSE IF Comparable(m) # "Ok" THEN Comparable(m)
    ELSE IF \E s \in Sides : Size[m.event][s] > DiffCap THEN "No"
    ELSE IF ~BothFull(m) THEN "Pending"
    ELSE IF SameBytes(m) THEN "No" ELSE "Ok"

DiffOf(m) == <<m.buf["Input"].decoded, m.buf["Output"].decoded>>

\* A job is started only if none is under way, for whatever generation.
TakeDiffOnce(m) ==
    LET n == [m EXCEPT !.diffable = Resolve(m)]
    IN  IF n.diffable = "Ok" /\ n.cache = NoDiff /\ n.inflight = Idle
        THEN [modal |-> [n EXCEPT !.inflight = n.gen], jobs |-> {DiffJob(n.event, n.gen, DiffOf(n))}]
        ELSE [modal |-> n, jobs |-> {}]

\* take_pending_diff_compute
TakeDiff(m) ==
    LET n == [m EXCEPT !.diffable = Resolve(m)]
    IN  IF n.diffable = "Ok" /\ n.cache = NoDiff /\ n.inflight # n.gen
        THEN [modal |-> [n EXCEPT !.inflight = n.gen], jobs |-> {DiffJob(n.event, n.gen, DiffOf(n))}]
        ELSE [modal |-> n, jobs |-> {}]

\* invalidate_diff_cache
Invalidated(m) == [m EXCEPT !.cache = NoDiff, !.gen = @ + 1]

-----------------------------------------------------------------------------
(* Results.  Each handler ends with take_pending_diff_compute for whatever *)
(* viewer is open.                                                         *)

About(j) == IsOpen /\ modal.event = j.event
SetSide(m, s, b) == [m EXCEPT !.buf[s] = b]

Conclude(j, m, spawned) ==
    \E d \in {TakeDiff(m)} :
        /\ modal' = d.modal
        /\ jobs' = Spawned(BagRemove(jobs, j), spawned \cup d.jobs)
        /\ UNCHANGED <<opens, lost, heir>>

\* A result that is not applied.
Discard(j) ==
    IF IsOpen THEN Conclude(j, modal, {})
    ELSE jobs' = BagRemove(jobs, j) /\ UNCHANGED <<modal, opens, lost, heir>>

Positions(a, n) == [i \in 1..n |-> a + i]

\* provenance_content_range: short only at the end of the content.
Answer(j) ==
    LET left == Size[j.event][j.side] - j.offset
    IN  Positions(j.offset, IF left < 0 THEN 0 ELSE Least(left, j.len))

Classified(j, loaded, old) ==
    CASE loaded = <<>> -> Empty
      [] loaded # <<>> /\ Format[j.event][j.side] = "table" -> old
      [] OTHER -> [kind |-> "Text", of |-> loaded]

\* apply_modal_chunk_with_ceiling, on the side buffer.
Extended(b, j) ==
    LET bytes == Answer(j)
        cap   == IF b.ceiling # Unknown THEN b.ceiling
                 ELSE IF bytes # <<>> /\ Format[j.event][j.side] = "table"
                      THEN TabularCap ELSE TextCap
        all   == b.loaded \o bytes
        kept  == SubSeq(all, 1, Least(Len(all), cap))
    IN  [b EXCEPT !.loaded = kept, !.flying = FALSE, !.ceiling = cap,
                  !.hit  = @ \/ Len(all) >= cap,
                  !.full = @ \/ Len(all) >= cap \/ Len(bytes) < j.len,
                  !.decoded = Classified(j, kept, @)]

\* take_pending_tabular_decode, else take_pending_json_pretty.
Pending(b, j) ==
    CASE ~b.full -> {}
      [] b.full /\ b.loaded # <<>> /\ Format[j.event][j.side] = "table" /\ ~b.decoding -> {"decode"}
      [] b.full /\ b.decoded.kind = "Text" /\ Format[j.event][j.side] = "json" /\ ~b.prettying -> {"pretty"}
      [] OTHER -> {}

\* The chunk of j was read, and is applied if it fits.
Received(j, fits) ==
    IF ~About(j) THEN Discard(j)
    ELSE \E b \in {IF fits THEN Extended(Buf(j.side), j) ELSE Buf(j.side)} :
         \E todo \in {Pending(b, j)} :
         \E m \in {SetSide(modal, j.side, [b EXCEPT !.decoding = @ \/ todo = {"decode"},
                                                    !.prettying = @ \/ todo = {"pretty"}])} :
            Conclude(j, IF fits THEN Invalidated(m) ELSE m,
                     {[kind |-> k, event |-> j.event, side |-> j.side, bytes |-> b.loaded] : k \in todo})

\* The chunk is appended wherever in the content it is from.
ChunkOkAnywhere(j) == Received(j, TRUE)

\* ModalChunk.  A chunk that does not continue the buffer is not applied, but
\* the decode and the diff are looked at all the same.
ChunkOk(j) == Received(j, IsOpen /\ j.offset = Len(Buf(j.side).loaded))

\* The side stays in flight.
ChunkErrKeeping(j) ==
    /\ jobs' = BagRemove(jobs, j)
    /\ UNCHANGED <<modal, opens, lost, heir>>

\* ModalChunkFailed
ChunkErr(j) ==
    /\ jobs' = BagRemove(jobs, j)
    /\ modal' = IF About(j) THEN [modal EXCEPT !.buf[j.side].flying = FALSE] ELSE modal
    /\ UNCHANGED <<opens, lost, heir>>

Render(j) == IF Len(j.bytes) = Size[j.event][j.side] THEN "Table" ELSE "Hex"

\* ContentDecoded.  A table cut at its ceiling is shown in hex.
Decoded(j) ==
    IF About(j) /\ Buf(j.side).decoding
    THEN Conclude(j, Invalidated(SetSide(modal, j.side,
                        [Buf(j.side) EXCEPT !.decoding = FALSE,
                                            !.decoded = [kind |-> Render(j), of |-> j.bytes]])), {})
    ELSE Discard(j)

\* JsonPrettyPrinted: only a whole document parses.
Prettied(j) ==
    IF About(j) /\ Buf(j.side).prettying
    THEN LET m == [modal EXCEPT !.buf[j.side].prettying = FALSE]
         IN  IF Len(j.bytes) = Size[j.event][j.side]
             THEN Conclude(j, Invalidated([m EXCEPT !.buf[j.side].decoded =
                                             [kind |-> "Pretty", of |-> j.bytes]]), {})
             ELSE Conclude(j, m, {})
    ELSE Discard(j)

\* A result of any generation is shown.
DiffBuiltAnyway(j) ==
    /\ jobs' = BagRemove(jobs, j)
    /\ modal' = IF About(j) THEN [modal EXCEPT !.cache = j.diff, !.inflight = Idle] ELSE modal
    /\ UNCHANGED <<opens, lost, heir>>

\* DiffCacheBuilt
DiffBuilt(j) ==
    /\ jobs' = BagRemove(jobs, j)
    /\ modal' = IF About(j) /\ modal.gen = j.gen
                THEN [modal EXCEPT !.cache = j.diff, !.inflight = Idle] ELSE modal
    /\ UNCHANGED <<opens, lost, heir>>

\* An off-thread job hands its result over with try_send: into a full channel
\* it is dropped.
Drop(j) ==
    /\ jobs' = BagRemove(jobs, j)
    /\ lost' = (lost \/ About(j))
    /\ UNCHANGED <<modal, opens, heir>>

-----------------------------------------------------------------------------
Answered  == \E j \in Under("chunk") : ChunkOk(j) \/ ChunkErr(j)
DecodeEnd == \E j \in Under("decode") : Decoded(j)
PrettyEnd == \E j \in Under("pretty") : Prettied(j)
DiffEnd   == \E j \in Under("diff") : DiffBuilt(j)
Dropped   == \E j \in Under("decode") \cup Under("pretty") \cup Under("diff") : Drop(j)

Keys == Close \/ Scroll \/ (\E e \in Events : Open(e)) \/ (\E tab \in Tabs : SwitchTab(tab))

ModalNext == Keys \/ Answered \/ DecodeEnd \/ PrettyEnd \/ DiffEnd \/ Dropped

ModalSpec == ModalInit /\ [][ModalNext]_modalVars

(* Requests are answered or fail, blocking jobs end.                       *)
Fairness == WF_modalVars(Answered) /\ WF_modalVars(DecodeEnd) /\ WF_modalVars(PrettyEnd) /\ WF_modalVars(DiffEnd)

FairModalSpec == ModalSpec /\ Fairness

-----------------------------------------------------------------------------
(* Properties *)

Renders == {"Empty", "Text", "Table", "Hex", "Pretty"}

\* Every variable has its type.
ModalTypeOK ==
    /\ opens \in 0..MaxOpens /\ lost \in BOOLEAN /\ heir \in BOOLEAN
    /\ \A j \in BagToSet(jobs) : j.kind \in {"chunk", "decode", "pretty", "diff"} /\ j.event \in Events
    /\ IsOpen =>
         /\ modal.event \in Events /\ modal.tab \in Tabs
         /\ modal.diffable \in {"Pending", "Ok", "No"}
         /\ modal.gen \in Nat /\ modal.inflight \in 0..modal.gen
         /\ \A s \in Sides : Buf(s).decoded.kind \in Renders /\ Buf(s).ceiling \in Nat

\* What a side holds is the beginning of its content, whatever order the
\* chunks of this and earlier viewers come in, within its ceiling; and what
\* it calls complete is the whole content or all the ceiling admits.
BufferIsPrefix ==
    /\ ModalTypeOK
    /\ IsOpen => \A s \in Sides :
           LET b == Buf(s) IN
           /\ \A i \in 1..Len(b.loaded) : b.loaded[i] = i
           /\ Len(b.loaded) <= CapOf(b)
           /\ b.full => Len(b.loaded) \in {Size[modal.event][s], CapOf(b)}

\* What the viewer waits for is under way, unless a full channel dropped it:
\* a fetch that continues the buffer, a decode, a pretty-print of that side,
\* a diff of the generation waited for.
WaitsAreReal ==
    IsOpen =>
        /\ \A s \in Sides :
             /\ Buf(s).flying =>
                  \E j \in Under("chunk") :
                     j.event = modal.event /\ j.side = s /\ j.offset = Len(Buf(s).loaded)
             /\ Buf(s).decoding /\ ~lost =>
                  \E j \in Under("decode") : j.event = modal.event /\ j.side = s
             /\ Buf(s).prettying /\ ~lost =>
                  \E j \in Under("pretty") : j.event = modal.event /\ j.side = s
        /\ modal.inflight = modal.gen /\ modal.gen > 0 /\ ~lost =>
             \E j \in Under("diff") : j.event = modal.event /\ j.gen = modal.gen

\* The diff there is is the diff of the two sides as they are shown, however
\* it was overtaken by chunks, decodings and pretty-prints (the generation of
\* invalidate_diff_cache), unless a diff of an earlier viewer of the event was
\* still being computed when this one was opened: its generations count from 0
\* as well.
DiffOfShown ==
    IsOpen /\ modal.cache # NoDiff /\ ~heir => modal.cache = DiffOf(modal)

\* Sides that can be compared are compared in the end, as they are shown then,
\* however their chunks and decodings interleave, unless a result was dropped.
DiffIsBuilt ==
    (IsOpen /\ modal.diffable = "Ok")
        ~> \/ ~IsOpen \/ lost
           \/ modal.diffable # "Ok"
           \/ modal.cache = DiffOf(modal)
=============================================================================
