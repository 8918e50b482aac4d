----------------------------- MODULE PolledCells -----------------------------
(***************************************************************************)
(* What the cluster store promises its readers, endpoint by endpoint,      *)
(* without saying how the polling is done (src/src/cluster/snapshot.rs,    *)
(* "Stale-data invariant", and FetchMeta.fetched_at):                      *)
(*                                                                         *)
(*   - a cell only ever shows the answer of a request that was issued;     *)
(*   - it never goes back to an older request;                             *)
(*   - a failed request replaces the status but not the data.              *)
(*                                                                         *)
(* Requests are numbered 1, 2, ...; a cell's `at` is the request it last   *)
(* heard of and `data` the last successful one, 0 standing for none.       *)
(***************************************************************************)
EXTENDS Naturals

CONSTANT Endpoints
         \* the polled endpoints

VARIABLES asked,  \* asked[e]: requests issued for e so far
          cell    \* cell[e]: what a reader of the snapshot sees

vars == <<asked, cell>>

Loading == [kind |-> "Loading", at |-> 0, data |-> 0]

Init == /\ asked = [e \in Endpoints |-> 0]
        /\ cell  = [e \in Endpoints |-> Loading]

\* A request is issued.
Ask(e) == /\ asked' = [asked EXCEPT ![e] = @ + 1]
          /\ UNCHANGED cell

\* The answer of request n, not older than the one shown, is a success.
ShowOk(e, n) ==
    /\ n > 0
    /\ n >= cell[e].at
    /\ n <= asked[e]
    /\ cell' = [cell EXCEPT ![e] = [kind |-> "Ready", at |-> n, data |-> n]]
    /\ UNCHANGED asked

\* ... or a failure, which keeps the data of the last success.
ShowErr(e, n) ==
    /\ n > 0
    /\ n >= cell[e].at
    /\ n <= asked[e]
    /\ cell' = [cell EXCEPT ![e] = [kind |-> "Failed", at |-> n, data |-> @.data]]
    /\ UNCHANGED asked

Next == \E e \in Endpoints :
           \/ Ask(e)
           \/ \E n \in 1..asked[e] : ShowOk(e, n) \/ ShowErr(e, n)

Spec == Init /\ [][Next]_vars
=============================================================================
