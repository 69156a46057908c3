------------------------------- MODULE MCStp -------------------------------
(* The triangle of bridges of the repository's own convergence test: bridge 1
   is wired to 2 and 3, and 2 to 3. *)
EXTENDS Stp

MCCables == {{<<1, 2>>, <<2, 1>>}, {<<1, 3>>, <<3, 1>>}, {<<2, 3>>, <<3, 2>>}}
MCPathCost == [e \in UNION MCCables |-> 1]
MCStpStart == [mode |-> "mstp", priority |-> 2, portfast |-> {}, bpduguard |-> {}]
MCStpConfigs == {[MCStpStart EXCEPT !.mode = "none", !.bpduguard = {3}],
                 [MCStpStart EXCEPT !.bpduguard = {3}],
                 [MCStpStart EXCEPT !.priority = 1, !.portfast = {3}]}
=============================================================================
