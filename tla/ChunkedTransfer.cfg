CONSTANTS
    Lengths <- MCLengths
    BufferSize = 600
    MaxTransfers = 3
SPECIFICATION Spec
INVARIANT TypeOK
INVARIANT ChunksTileTransfer
INVARIANT DownloadReturnsUpload
PROPERTY ImplementsScratchBuffer
CHECK_DEADLOCK FALSE
