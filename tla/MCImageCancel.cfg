SPECIFICATION ImageSpec
CONSTANTS
  Images = {"v1", "v2"}
  Factory = "v1"
  Operators = {"web", "cli"}
  MayCancel = TRUE
  MaxRequests = 2
  MaxTroubles = 0
INVARIANT BootFilesAreWhole
