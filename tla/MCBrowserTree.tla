--------------------------- MODULE MCBrowserTree ---------------------------
EXTENDS BrowserTree
\* A root group "r" with a processor "p" and a connection "q"; and the flow
\* after "p" was moved into a new group "g" and "q" was deleted.
At(id, parent) == [id |-> id, parent |-> parent]
MCKindOf == [r |-> "Group", g |-> "Group", p |-> "Processor",
             q |-> "Connection", s |-> "Service"]
MCFlows == {<<At("r", 0), At("p", 1), At("q", 1)>>,
            <<At("r", 0), At("g", 1), At("p", 2)>>}
\* The service "s" of "g" is there before "g" is.
MCServiceLists == {<<At("s", "g")>>}
=============================================================================
