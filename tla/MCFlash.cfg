SPECIFICATION FlashSpec
SYMMETRY MCSwap
CONSTANTS
  e = e
  a = a
  b = b
  m0 = m0
  m1 = m1
  m2 = m2
  Absent = Absent
  Texts <- MCTexts
  Commits <- MCCommits
  Metas <- MCMetas
  EmptyText = e
  NoMeta = m0
  RingSize = 3
INVARIANTS PreviousConfigSurvives RotationLosesOnlyTheOldest
PROPERTY ImplementsRing
CONSTANTS
  Images = {"v1", "v2"}
  Factory = "v1"
  Operators = {"web", "cli"}
  MayCancel = FALSE
  MaxRequests = 3
  MaxTroubles = 1
INVARIANTS BootFilesAreWhole OverlayIsKept
