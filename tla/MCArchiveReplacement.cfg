SPECIFICATION Spec
CONSTANTS
  Writers = {1, 2, 3}
  Size <- MCSize
  VolumeSizes <- MCVolumeSizes
  MaxVolumes = 4
  MaxOpen = 3
INVARIANTS
  SerialEditsAreKept
  TemporariesAreOwned
  OpenedVolumesAreOneArchive
  WrittenVolumesOpen
PROPERTY
  RewriteIsAtomic
CHECK_DEADLOCK FALSE
