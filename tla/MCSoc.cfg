SPECIFICATION MCSpec
CONSTANTS
    Width = 5
    Owners = {"a", "b"}
    Pos <- MCPos
    Mask <- MCMask
    HwPos = 4
    HwMask <- MCHwMask
    Free = "free"
    BankSize = 1
    Banks = 8
    BlowBanks = {0, 6}
    Values = {{1}, {2}}
    Size = 3
    MaxFuseCalls = 2
    Entries = {0, 1}
    Addresses = {4, 9}
    Levels = {0, 1}
    Space = 8
    Sizes = {0, 1, 2, 3, 4}
    MaxHAC = 1
    MaxSets = 2
    MaxEvents = 2
    Sources = {"rngb", "caam", "trng", "prng", "bcm", "rdrand"}
    Needs = {1, 5, 8}
    FifoSize = 2
    Regs = 3
    Cycles = 1
    MaxRngCalls = 2
    Callers = {1, 2}
    MaxBlocks = 2
    MaxDraws = 3
    Requests = {900, 792, 528, 396, 198, 1000}
    Divs = {11, 12, 35, 36}
    MaxTreeCalls = 2
    Parents = {7, 12}
    TargetClocks = {0, 1, 3, 12}
    SdFreqs = {0, 1, 2, 5}
    Prescalers = 7
    LowerSize = 2
    MaxSdCalls = 2
    MaxInt32 = 3
    Delays <- MCDelays
    Times = {3}
    MaxTicks = 9
    Period = 4
    Second = 5
    Frequency = 3
    PmMask = 8
    PmLoop = 3
    TscMod = 4096
    Kinds = {"wdog", "wdt", "fsl", "rpi"}
    Timeouts = {1, 2}
    DogDelays = {1}
    MaxDogCalls = 2
    MaxDogTicks = 7
    Boards = {"evk", "beta", "gamma", "lan", "emulated"}
    MaxBoardCalls = 3
    MaxPolls = 2
INVARIANTS  FusesTruth     
PROPERTY CallsEnd
CHECK_DEADLOCK FALSE
