SPECIFICATION Spec
CONSTANTS
    MaxFolderStreams = 7
    Arity <- MCArity
    Folders <- MCFolders
    Sizes = {0, 1}
    UnpackSizes = {0, 1, 2}
    Memory <- MCMemory
    MemoryLimit = 5
    KdfLimit = 1
    MaxFolderCoders = 3
INVARIANTS
    GraphIsSound
    ReadersFollowTheGraph
    SizesFit
