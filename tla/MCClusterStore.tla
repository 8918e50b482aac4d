--------------------------- MODULE MCClusterStore ---------------------------
EXTENDS ClusterStore

(* A gated endpoint force-refreshed by a key of its reader, as             *)
(* ReportingTasks is, and by the data of an always-on one whether it is    *)
(* read or not, as TlsCerts is.  The subscriptions to the always-on one    *)
(* are left out: its loop never looks at them.                             *)
MCEndpoints == {"TlsCerts", "SystemDiagnostics"}
MCGated     == {"TlsCerts"}
MCViews     == {"Overview", "Tracer"}
MCReads     == [v \in MCViews |-> IF v = "Overview" THEN {"TlsCerts"} ELSE {}]
MCForcedIn  == [e \in MCEndpoints |-> IF e = "TlsCerts" THEN {"Overview"} ELSE {}]
MCFeeds     == [e \in MCEndpoints |-> IF e = "TlsCerts" THEN {} ELSE {"TlsCerts"}]
=============================================================================
