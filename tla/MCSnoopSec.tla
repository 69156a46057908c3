----------------------------- MODULE MCSnoopSec -----------------------------
EXTENDS SnoopSec

Relayed == [DefaultConfig EXCEPT !.snoop = TRUE, !.inspect = TRUE, !.relay = TRUE]
Inspected == [DefaultConfig EXCEPT !.snoop = TRUE, !.inspect = TRUE, !.trusted = {"po"},
                                   !.statics = [h \in {"h1"} |-> "ip2"]]
MCSecConfigs == {Relayed, Inspected}
\* The Port-Channel that leads to the server moves from one port to the other.
MCL2Views == { [ports |-> {"p1", "p2"}, members |-> [n \in {"po"} |-> {"p2"}]],
               [ports |-> {"p1"}, members |-> [n \in {"po"} |-> {"p1"}]] }
=============================================================================
