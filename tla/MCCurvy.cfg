SPECIFICATION MCSpec
CONSTANTS
    Caller = {c, e}
    Deposits = {1, 2}
    Batches <- MCBatches
    Submissions = {"relayer", "operator"}
    ChunkSize = 1
    MaxAttempts = 2
    MaxStalls = 1
    Float = 2
    MaxFloats = 1
    MaxCalls = 2
    MaxCrashes = 1
    MaxProofs = 3
    MaxReorgs = 1
    Notes = {1, 2}
    Alloc = {"a", "b"}
    Sources = {"stream", "snapshot"}
    PageSize = 1
    MaxWatches = 2
    MaxFaults = 1
    NonceRetries = 2
    MaxNotes = 2
    MaxNonce = 4
    MaxShields = 3
    MaxEvictions = 1
    Sweeper = {c, e}
    Owned <- MCOwned
    Blank <- MCBlank
    WithdrawalMode = {"relayer", "operator"}
    InputLimit = 1
    MaxRestarts = 1
    MaxPosts = 3
    MaxReverts = 1
    Dest = {p, q}
    SafeFloat = 2
    SafeReserve = 0
    NodeGas = 2
    NodeReserve = 1
    DepositRetries = 1
    SweepRetries = 0
    MaxTransfers = 3
INVARIANTS
    PoolsTypeOK
    BooksFollowChain
    VerdictsTrue
    WaitersKeepNotes
    ShieldedOnce
    SweepsKeepNotes
    PaymentsExplained
PROPERTIES
    AllocationsPaidOnce
CONSTRAINTS MCTwoCallers MCSweepers MCWatched
SYMMETRY MCSymmetry
CHECK_DEADLOCK FALSE
