SPECIFICATION Spec
CONSTANTS
  Attributes <- MCAttributes
  Beyond = {"in_place"}
INVARIANT Consistent
CHECK_DEADLOCK FALSE
