SPECIFICATION MCSpec
CONSTANTS
    Versions = 10
    MaxUpdates = 3
    RxSize = 4
    RxCounterMod = 8
    Runts = {2, 9}
    RxMaxFrames = 20
    TxSize = 4
    Pages = 2
    TxCounterMod = 8
    TxMaxFrames = 14
    Revision = 1
    Entries = 6
    AdminQueueSize = 4096
    MaxAdminInits = 3
    PopSize = 3
    PopIndexMod = 6
    Large = {3}
    MaxUsed = 7
    PushSize = 4
    PushIndexMod = 8
    OffsetMod = 64
    MaxFrames = 14
    Start = 1
    Size = 12
    Word = 1
    Sizes = {2}
    Aligns = {1}
    N = 2
    Length = 2
    TableSize = 3
    Foreign = {1, 2}
    MaxForeign = 2
    MaxInits = 2
    Transports = {"mmio", "pci", "legacy"}
    Queues = {0, 1}
    DevOffered <- MCOffered
    Wanted <- MCWanted
    MsixIDs = {32}
    GuestPages = {0, 1, 2}
    MaxPSCEntries = 2
    MaxGuestCalls = 3
    Users = {1}
    DriverKinds = {"virtio", "legacy", "gve"}
    Devices = {0, 1, 2}
    MaxPciCalls = 2
INVARIANTS NoStaleFrame InOrder SentIntact BroughtUp OnePlace PopInOrder  GuestRequests RoutedRight
PROPERTIES RxDrained Follows
CHECK_DEADLOCK FALSE
