---------------------------- MODULE MCEventsWatch ----------------------------
(* Events on a clock of three ticks, two of which make a second: they may  *)
(* share a tick, a second only, or neither.  Two events, which one answer  *)
(* holds, meet whatever the user does.  The last of three is recorded only *)
(* at the last tick and for a tail nobody has disturbed since it began,    *)
(* and then the user rests: an answer of two is then cut, and a twin that  *)
(* was recorded after a round can be passed over.  Whoever rests only does *)
(* less than EventsWatch allows, so these are behaviours of its FairSpec.  *)
EXTENDS EventsWatch

VARIABLE quiet   \* history: has the user left alone every tail so far?

MCInit == Init /\ quiet = TRUE

LastIsQuiet ==
    Len(recorded') = MaxEvents => quiet /\ phase # "none" /\ now = MaxTime

MCNext ==
    \/ Record /\ LastIsQuiet /\ UNCHANGED quiet
    \/ (Elapse \/ Worker \/ Handle) /\ UNCHANGED quiet
    \/ /\ Len(recorded) < MaxEvents
       /\ User
       /\ quiet' = (quiet /\ phase = "none")

MCSpec == MCInit /\ [][MCNext]_<<vars, quiet>> /\ Fairness
=============================================================================
