SPECIFICATION Spec
CONSTANTS
  Files = 6
  Folders = 2
  Streams = 4
  Kind <- MCKind
  StreamOf <- MCStreamOf
  FirstStream <- MCFirstStream
  FolderOf <- MCFolderOf
  Size <- MCSize
  End <- MCEnd
  Unpack <- MCUnpack
  StreamCrc = {1, 3}
  FolderCrc = {2}
  Eager = {2}
  MaxDecoded = 6
  Damages <- MCDamages
  BrokenAt = {2, 3, 4}
  Apis = {"all", "selected"}
INVARIANTS
  FoldersOpenedOnce
PROPERTIES
  CallsReturn
CHECK_DEADLOCK FALSE
