SPECIFICATION Spec
CONSTANTS
  Archives <- MCArchives
  Paths <- MCPaths
  Trees <- MCTrees
  Commands <- MCCommands
  Checked = {2, 4}
  BadEnd = {3, 4}
  MaxTouches = 2
INVARIANTS
  LossesAreAgreedTo
  PartialFilesAreReported
  SuccessIsComplete
  TestVerdictIsRight
CHECK_DEADLOCK FALSE
