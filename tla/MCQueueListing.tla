---------------------------- MODULE MCQueueListing ----------------------------
(* Two connections and two listings.                                       *)
EXTENDS QueueListing

MCQueues == {"q1", "q2"}
=============================================================================
