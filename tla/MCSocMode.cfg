SPECIFICATION MCBleSpec
CONSTANTS
    Width = 5
    Owners = {"a", "b"}
    Pos <- MCPos
    Mask <- MCMask
    HwPos = 4
    HwMask <- MCHwMask
    Free = "free"
    BankSize = 1
    Banks = 8
    BlowBanks = {0, 6}
    Values = {{1}, {2}}
    Size = 3
    MaxFuseCalls = 0
    Entries = {0, 1}
    Addresses = {4, 9}
    Levels = {0, 1}
    Space = 8
    Sizes = {0, 1, 2, 3, 4}
    MaxHAC = 1
    MaxSets = 0
    MaxEvents = 0
    Sources = {"bcm"}
    Needs = {1, 5, 8}
    FifoSize = 2
    Regs = 3
    Cycles = 1
    MaxRngCalls = 0
    Callers = {1}
    MaxBlocks = 2
    MaxDraws = 0
    Requests = {}
    Divs = {11, 12, 35, 36}
    MaxTreeCalls = 0
    Parents = {7, 12}
    TargetClocks = {0, 1, 3, 12}
    SdFreqs = {0, 1, 2, 5}
    Prescalers = 7
    LowerSize = 2
    MaxSdCalls = 2
    MaxInt32 = 3
    Delays <- MCDelays
    Times = {3}
    MaxTicks = 0
    Period = 4
    Second = 5
    Frequency = 3
    PmMask = 8
    PmLoop = 3
    TscMod = 4096
    Kinds = {"rpi"}
    Timeouts = {1, 2}
    DogDelays = {1}
    MaxDogCalls = 0
    MaxDogTicks = 0
    Boards = {"gamma"}
    MaxBoardCalls = 3
    MaxPolls = 2
PROPERTY ModeEntered
CHECK_DEADLOCK FALSE
