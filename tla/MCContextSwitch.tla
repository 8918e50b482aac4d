--------------------------- MODULE MCContextSwitch ---------------------------
(* Two contexts, and room for two switches at once: the switcher's guard   *)
(* is meant to make that one.                                              *)
EXTENDS ContextSwitch

MCContexts  == {"a", "b"}
MCSwitchers == {1, 2}
=============================================================================
