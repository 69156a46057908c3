SPECIFICATION Spec
CONSTANTS
  vlan = vlan
  lldp = lldp
  snoop = snoop
  addr = addr
  one = one
  two = two
  t1 = t1
  t2 = t2
  None = None
  NoTimer = NoTimer
  Keys <- MCKeys
  Family <- MCFamily
  Values <- MCValues
  Configs <- MCConfigs
  Timers <- MCTimers
  RingSize = 1
  MaxFaults = 2
SYMMETRY MCSymmetry
INVARIANT DivergenceIsExplained
PROPERTY ExpiryUndoesItsCommit
