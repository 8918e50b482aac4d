--------------------------- MODULE MCBulletinFeed ---------------------------
(* Two contexts and one switch from the first to the other or to itself.   *)
EXTENDS BulletinFeed

MCContexts == {"a", "b"}
=============================================================================
