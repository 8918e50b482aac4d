--------------------------- MODULE MCContentModal ---------------------------
(* An event with JSON on both sides, the input in two chunks and as large  *)
(* as its ceiling; one with tables; and one without MIME types, its input  *)
(* a text larger than the ceiling.                                         *)
EXTENDS ContentModal

MCEvents    == {"json", "table", "bare"}
MCAvailable == [e \in Events |-> Sides]
MCSize      == [e \in Events |-> [s \in Sides |->
                  IF s = "Output" \/ e = "table" THEN 1 ELSE IF e = "json" THEN 4 ELSE 5]]
MCFormat    == [e \in Events |-> [s \in Sides |-> IF e = "bare" THEN "text" ELSE e]]
MCMime      == [e \in Events |-> IF e = "bare" THEN "none" ELSE "same"]
=============================================================================
