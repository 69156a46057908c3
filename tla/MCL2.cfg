SPECIFICATION L2Spec
CONSTANTS
  p1 = p1
  p2 = p2
  p3 = p3
  v10 = v10
  v20 = v20
  Default = Default
  None = None
  Ports <- MCPorts
  Lags <- MCLags
  Vlans <- MCVlans
  Configs <- MCConfigs
  MaxCommits = 3
  MaxFlips = 2
  MaxAttempts = 2
  MaxFaults = 3
INVARIANTS TablesMatchAsic UntaggedInOneVlan BridgeMatchesConfig DownLinkClosesGate
PROPERTY WorkEnds
