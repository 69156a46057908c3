------------------------------- MODULE MCQos --------------------------------
EXTENDS SyncdQos

Program(trust, tc, sched, wred) ==
    [trust |-> trust, tc |-> tc, shape |-> tc, sched |-> [q \in Queues |-> sched],
     wred |-> [q \in Queues |-> wred]]
MCPortPrograms == { Program("dscp", 0, "strict", "w"), Program("untrusted", 1, "strict", NoWred) }
Tables(in, out) == [dscp_to_tc |-> in, dot1p_to_tc |-> {}, tc_to_dscp |-> out, tc_to_dot1p |-> {}]
MCMapPrograms == { Tables({1}, {}), Tables({2}, {1}), Tables({}, {}) }
Unprogrammed == [t \in QosTargets |-> NoQosProgram]
\* A Port-Channel with a member, without a program or with one.
MCQosStarts == { [wreds |-> [n \in WredNames |-> "low"], members |-> {"p1"}, programs |-> p] :
                    p \in {Unprogrammed,
                           [Unprogrammed EXCEPT ![QosLag] = Program("dscp", 0, "strict", "w")]} }
=============================================================================
