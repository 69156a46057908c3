CONSTANTS
    AclPorts = {"p1", "p2"}
    AclLag = "po"
    AclStages = {"ingress"}
    AclFrames = {"eapol", "dhcp", "arp", "ip"}
    Eapol = "eapol"
    AclNames = {"a"}
    AclPrograms <- MCAclPrograms
    RedirectPrograms <- MCRedirects
    AclStarts <- MCAclStarts
    AclLanes = {"mgmtd", "gates", "dot1x", "snoop"}
    MaxAclEvents = 2
    MaxAclFaults = 0
SPECIFICATION AclSpec
CHECK_DEADLOCK FALSE
CONSTANT MaxMeetings = 1
INVARIANT OneTablePerSlot
