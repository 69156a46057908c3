------------------------------- MODULE MCLacp -------------------------------
(* Two members, the second with the better priority.  The two systems start
   active at the fast rate or passive at the slow one, and may be given another
   rate, another fallback, a static LAG of one member, or no LAG. *)
EXTENDS Lacp

Mem(mode, fast, prio) == [mode |-> mode, fast |-> fast, priority |-> prio]
Lag2(mode, fast, min, fb) ==
    [present |-> TRUE, minLinks |-> min, fallback |-> fb, fallbackTimeout |-> 4,
     members |-> [n \in {1, 2} |-> Mem(mode, fast, IF n = 1 THEN 2 ELSE 1)]]

MCLagStarts == {Lag2("active", TRUE, 2, "none"), Lag2("passive", FALSE, 1, "individual")}
MCLagConfigs == {Lag2("active", FALSE, 1, "static"), Lag2("passive", TRUE, 2, "none"),
                 [Lag2("on", FALSE, 1, "none") EXCEPT !.members = [n \in {2} |-> Mem("on", FALSE, 1)]],
                 [present |-> FALSE, minLinks |-> 0, fallback |-> "none", fallbackTimeout |-> 4,
                  members |-> <<>>]}
=============================================================================
