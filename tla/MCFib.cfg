SPECIFICATION PipelineFairSpec
CONSTANTS
  d1 = d1
  d2 = d2
  e1 = e1
  e2 = e2
  None = None
  Dests <- MCDests
  Interfaces <- MCInterfaces
  Kernels <- MCKernels
  Start <- Before
  Addressed <- MCAddressed
  MaxRifs = 2
  MaxOids = 9
  MaxFaults = 1
  MaxEvents = 1
  RestartInCall = FALSE
INVARIANTS ReferencesAreCounted RecordedRouteIsInstalled NothingLeaks
PROPERTY FibConverges
