----------------------------- MODULE MCPolicies -----------------------------
(***************************************************************************)
(* What mgmtd has syncd program beside the bridge: the access lists and    *)
(* the quality of service of syncd, handler against handler, the plan of   *)
(* calls by which a commit and a replay reach syncd, and the engine of     *)
(* orch that has syncd redirect DHCP and ARP.  The four are about          *)
(* different tables, so each behaviour of this instance is about one of    *)
(* them.                                                                   *)
(***************************************************************************)
EXTENDS MCAcl, MCQos, MCPlan, MCSnoopSec

VARIABLE part   \* the part this behaviour is about

PoliciesInit ==
  /\ part \in {"acl", "qos", "plan", "snoopsec"}
  /\ AclInit /\ QosInit /\ PlanInit /\ SecInit
  /\ part # "acl" => bindings = Unbound /\ acls["a"] = FirstList
  /\ part # "qos" => qosPrograms = Unprogrammed
  /\ part # "snoopsec" => /\ secConfig = CHOOSE c \in SnoopSecConfigs : TRUE
                          /\ view = CHOOSE v \in L2Views : TRUE

PoliciesNext ==
  /\ \/ part = "acl" /\ AclNext /\ UNCHANGED <<qosVars, planVars, secVars>>
     \/ part = "qos" /\ QosNext /\ UNCHANGED <<aclVars, planVars, secVars>>
     \/ part = "plan" /\ PlanNext /\ UNCHANGED <<aclVars, qosVars, secVars>>
     \/ part = "snoopsec" /\ SecNext /\ UNCHANGED <<aclVars, qosVars, planVars>>
  /\ UNCHANGED part

PoliciesSpec == PoliciesInit /\ [][PoliciesNext]_<<part, aclVars, qosVars, planVars, secVars>>

\* The tables of syncd and the plan of mgmtd are of their types: what is recorded
\* are objects and names of their kinds, references are counted in range,
\* nothing is left to call when nothing is applied, and bindings name hosts and
\* ports (state.rs, apply_and_persist, snoopsec.rs).
PoliciesTypeOK == AclTypeOK /\ QosTypeOK /\ PlanTypeOK /\ SecTypeOK
=============================================================================
