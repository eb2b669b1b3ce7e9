SPECIFICATION MCSpec
CONSTANTS
    Blocks = 24
    maxBlocks = 10
    writeAlignment = 4
    MaxRequest = 24
    MaxTransfers = 2
    MaxChunks = 2
    SupportsHS = TRUE
    SupportsDDR = TRUE
    CacheSize = 1
    MaxWaits = 3
    LowVoltage = TRUE
    Width = 4
    Slots = {"SDSC", "SDHC", "MMC", "none"}
    DetMaxFaults = 2
    MaxSwaps = 1
    MovMaxTransfers = 3
    MovMaxFaults = 2
    Local <- MCLocal
    Partners <- MCPartners
    Extended = {"e1", "e2"}
    MaxOps = 2
    MaxPulls = 1
    HeaderWords = 1
    BufferLength = 6
    MaxWords = 2
    MinimumFrameSize = 8
    TxLengths = {1, 4, 7, 8, 9, 11}
    MaxPortFrames = 2
    Macs <- MCMacs
    MaxMacCalls = 2
    BlockSize = 4
    MaxLength = 6
    DescriptorSize = 2
    MaxBlocks = 5
    MaxBytes = 34
INVARIANTS Covered EndsOnBoundary OkMeansDone ReadyClean CardAgrees
    FreshTruth  PortTruth
PROPERTY WokenByInterrupt
CHECK_DEADLOCK FALSE
