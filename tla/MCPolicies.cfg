SPECIFICATION PoliciesSpec
CONSTANTS
    AclPorts = {"p1", "p2"}
    AclLag = "po"
    AclStages = {"ingress"}
    AclFrames = {"eapol", "dhcp", "arp", "ip"}
    Eapol = "eapol"
    AclNames = {"a"}
    AclPrograms <- MCAclPrograms
    RedirectPrograms <- MCRedirects
    AclStarts <- MCAclStarts
    AclLanes = {"mgmtd", "gates", "dot1x", "snoop"}
    MaxAclEvents = 2
    MaxAclFaults = 1
INVARIANTS PoliciesTypeOK PolicyInForce AclNothingLeaks
PROPERTIES EnforcementIsSteady RuleKeepsItsCounter
CONSTANT MaxMeetings = 0
CONSTANTS
    QosPorts = {"p1", "p2"}
    QosLag = "po"
    UcQueues = 1
    PortPrograms <- MCPortPrograms
    MapPrograms <- MCMapPrograms
    WredNames = {"w"}
    WredSpecs = {"low", "high", "ecn"}
    EcnSpecs = {"ecn"}
    WredSupported = TRUE
    EcnSupported = FALSE
    QosStarts <- MCQosStarts
    MaxQosEvents = 2
    MaxQosFaults = 1
INVARIANTS QosInForce SharedIsCounted NothingIsRefused
CONSTANTS
  PlanPorts <- MCTargets
  PlanLag = "po"
  PlanVlans <- MCNumbers
  PlanAcls = {"a", "b"}
  PlanProfiles = {"w"}
  Instances = {1, 2}
  PlanConfigs <- MCPlanConfigs
  MaxPlanEvents = 3
  MaxPlanFaults = 1
INVARIANTS CallsAreAccepted HeldAsConfigured
CONSTANTS
  Hosts = {"h1"}
  Addresses = {"ip1", "ip2"}
  Faceplate = {"p1", "p2"}
  SnoopSecConfigs <- MCSecConfigs
  L2Views <- MCL2Views
  Leases = {0, 1}
  MaxNow = 1
  MaxRedirectAttempts = 2
  MaxSecEvents = 3
  MaxSecFaults = 1
INVARIANTS InspectionFollowsLeases RedirectsFollow
