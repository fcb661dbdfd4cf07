SPECIFICATION Spec
CONSTANTS
    MaxFolderStreams = 4
    Arity <- MCArity
    BitmapBits = 2
    MaxDigests = 4
    SymlinkAttributes = {9}
    EpochTicks = 3
    Archives <- MCArchives
    Units <- MCUnits
    ExternalBlocks <- MCExternalBlocks
    MaxMetadata = 106
    SlotUnits = 16
INVARIANTS
    AcceptedTablesParse
    ResumedScanIsOnePass
    NoExternalMissed
    MetadataIsPaidFor
    WrittenHeadersReadBack
