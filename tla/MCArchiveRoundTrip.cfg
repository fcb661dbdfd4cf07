SPECIFICATION SpecRoundTrip
CONSTANTS
  MaxEntries = 4
  MaxSize = 2
  Apis = {"stream", "build"}
  Solids <- MCSolids
INVARIANTS
  ReadBack
  SignedMeansComplete
  SolidLimitsHold
  PlanIsFollowed
CHECK_DEADLOCK FALSE
