--------------------------- MODULE MCBulletinsTab ---------------------------
(* Four bulletins of two sources, interleaved; a ring of three.            *)
EXTENDS BulletinsTab

MCSources    == {"p", "q"}
MCSeverities == {"error"}
MCWords      == {"", "x"}
MCSourceOf   == <<"p", "q", "p", "q">>
MCStemOf     == <<"one", "one", "one", "two">>
MCSeverityOf == [b \in Numbers |-> "error"]
MCTypeOf     == [s \in Sources |-> IF s = "p" THEN "Processor" ELSE "Other"]
MCHitsOf     == [w \in Words |-> IF w = "" THEN Numbers ELSE {2, 3}]
MCTrim       == [w \in Words |-> w]
=============================================================================
