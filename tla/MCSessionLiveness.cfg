SPECIFICATION Spec
CONSTANTS
  Files = 6
  Folders = 2
  Streams = 4
  Kind <- MCKind
  StreamOf <- MCStreamOf
  FirstStream <- MCFirstStream
  FolderOf <- MCFolderOf
  Size <- MCSize
  End <- MCEnd
  Unpack <- MCUnpack
  StreamCrc = {1, 3}
  FolderCrc = {2}
  Eager = {2}
  MaxDecoded = 4
  Damages <- MixedDamages
  BrokenAt = {2, 4}
  Apis = {"session"}
PROPERTIES
  CallsReturn
CHECK_DEADLOCK FALSE
