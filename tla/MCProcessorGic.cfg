SPECIFICATION MCSpec
CONSTANTS
    Procs = {"p", "q"}
    Modes = {"poll", "irq"}
    Subwords = 2
    MaxChain = 2
    MaxOps = 4
    JobProcs = {"p", "q"}
    Ptrs = {"a", "b"}
    MaxJobs = 3
    Digests = {"d1", "d2"}
    BlockSize = 2
    Lengths = {1, 2, 5}
    MaxWritten = 8
    SharedChannel = FALSE
    Cpus = {0, 1}
    Vectors = {"v1", "v2"}
    MaxIrqs = 4
    EarlyIrqs = FALSE
    NumCPU = 4
    Caps = {2, 3, 5}
    MaxInits = 1
    E = 3
    ArenaOffset = 1
    Layouts <- MCLayouts
    Aliases = {0, 2}
    MaxConfigs = 2
    Start = 3
    Size = 7
    Word = 4
    Sizes = {0, 1, 3}
    AlignArgs = {0, 1}
    Offsets = {0, 1}
    Clients = {c1, c2}
    MaxHeld = 3
    Lines = {29, 40, 41}
    MaxAsserts = 4
    PerSection = 3
    Sections = 4
    Images <- MCImages
    Targets = {0, 3}
    Bounds = {0, 3, 4, 9, 11}
    MaxUpdates = 2
    Tt = 7
    PteBounds = {0, 2, 5, 14, 28, 98, 147, 150, 245, 294, 343}
    MaxPteCalls = 2
SYMMETRY Symmetric
INVARIANT OnlyThatInterrupt
CHECK_DEADLOCK FALSE
