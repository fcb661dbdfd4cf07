SPECIFICATION Spec
CONSTANTS
  Sources <- MCSources
  Paths = 3
  Kids <- MCKids
  Disks <- MCDisks
  Jobs <- MCJobs
  Solids <- MCSolids
  MaxChanges = 2
INVARIANTS
  UpdateReadsBack
  KeepsOtherEntries
  RejectionsAreHarmless
CHECK_DEADLOCK FALSE
