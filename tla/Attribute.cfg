SPECIFICATION Spec
CONSTANTS
  Attributes <- MCAttributes
  Beyond = {}
INVARIANTS
  IInv
  Consistent
  Complete
  DataAgrees
PROPERTIES
  Converges
  RefreshStable
  NoSpuriousReplacement
  Reaches
  LeavesAlone
  DriftSeen
  ImportAdopts
CHECK_DEADLOCK FALSE
