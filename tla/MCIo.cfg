SPECIFICATION MCSpec
CONSTANTS
    size = 2
    MaxFrames = 3
    Events = {"RXF", "TXF"}
    MaxCalls = 2
    Outs = {"out"}
    Ins = {"in"}
    EpOf <- MCEpOf
    DescOf <- MCDescOf
    MaxRequests = 3
    DtdLength = 2
    TransferSizes = {0, 1, 2, 3, 5}
    MaxTransfers = 2
    MaxConfigurations = 1
    MaxInterfaces = 2
    MaxStrings = 1
    StringLengths = {253}
    ReadLengths = {10, 255}
    MaxSetups = 2
    AddressLengths = {0, 1, 2, 5, 9}
    ReadSizes = {1, 2, 3}
    WriteSizes = {0, 1, 2}
    MaxTransactions = 2
    TwiLengths = {0, 1, 2, 3}
    TwiAddresses = {0, 2, 4}
    MaxTwiCalls = 2
    SpiLengths = {1, 4, 5, 8, 12}
    FifoWords = 2
    Selects = {0, 1, 4}
    Modes = {0, 3}
    MaxSpiCalls = 2
    Callers = {"g1", "g2"}
    Tags <- MCTags
    MailboxDepth = 2
    Channels = {0, 1, 2}
    Available = {1}
    MaxBcmCalls = 2
    GpioLines = {0, 1, 3}
    PerSelect = 2
    PerBank = 3
    Pulls = {0, 2}
    Functions = {1}
    Ports = {"nxp", "intel", "usart", "sifive", "loongson", "shakti", "synopsys", "nuvoton", "mini"}
    FifoDepth = 2
    WriteLengths = {3}
    SerialReads = {2}
    MaxSent = 3
    MaxReceived = 3
INVARIANTS RingsInOrder   BcmOwn
PROPERTIES Delivered Receives
CHECK_DEADLOCK FALSE
