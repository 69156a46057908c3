SPECIFICATION PipelineFairSpec
CONSTANTS
  d1 = d1
  d2 = d2
  e1 = e1
  e2 = e2
  None = None
  Dests <- MCDests
  Interfaces <- MCInterfaces
  Kernels <- MCKernels
  Start <- Before
  Addressed <- MCNoneAddressed
  MaxRifs = 2
  MaxOids = 9
  MaxFaults = 0
  MaxEvents = 2
  RestartInCall = TRUE
PROPERTY FibConverges
