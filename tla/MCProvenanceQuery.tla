-------------------------- MODULE MCProvenanceQuery --------------------------
(* Two queries that may overlap: an earlier and a later one.               *)
EXTENDS ProvenanceQuery
=============================================================================
