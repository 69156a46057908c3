SPECIFICATION ProtocolsSpec
CONSTANTS
    Bridges = {1, 2, 3}
    Cables <- MCCables
    PathCost <- MCPathCost
    MaxAge = 3
    ForwardTime = 2
    MaxCost = 6
    StpConfigs <- MCStpConfigs
    StartConfig <- MCStpStart
    MaxEvents = 1
INVARIANTS
    NoForwardingLoop
PROPERTIES
    TreeComesToRest
CONSTANTS
    LacpSystems = {"a", "b"}
    LacpMembers = {1, 2}
    LacpStarts <- MCLagStarts
    LacpConfigs <- MCLagConfigs
    SlowInterval = 2
    MaxLacpEvents = 1
INVARIANTS
    OneWayIsBounded
    GatesAreWhole
PROPERTIES
    LagComesToRest
CONSTANTS
    Families = {"igmp"}
    SnoopPorts = {1, 2}
    SnoopConfigs <- MCSnoopConfigs
    SnoopStart <- MCSnoopStart
    Routers <- MCRouters
    QueryInterval = 2
    Slack = 1
    Robustness = 2
    MaxSnoopEvents = 2
    MaxSnoopFaults = 1
INVARIANTS
    GroupsReachAsic ListenerIsKept
PROPERTIES
    SilentGroupGoes
