----------------------------- MODULE MCEventLoop -----------------------------
(* The per-PG connections fetcher with a burst, a one-shot fetcher and the *)
(* input task.                                                             *)
EXTENDS EventLoop

MCFetchers == {"conns", "root"}
MCOthers   == {"input"}
MCBurst    == [p \in Producers |-> IF p = "conns" THEN 2 ELSE 1]
=============================================================================
