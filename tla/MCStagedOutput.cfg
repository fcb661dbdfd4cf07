SPECIFICATION Spec
CONSTANTS
  MaxUnits = 5
  MaxRun = 2
  Options <- MCOptions
INVARIANTS
  SpoolLimitsHold
  NoStrayFiles
  VolumesMatchPlan
PROPERTIES
  ImplementsSeekableOutput
  CancelledCopyFails
  Returns
CHECK_DEADLOCK FALSE
