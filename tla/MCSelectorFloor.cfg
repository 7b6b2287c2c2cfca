SPECIFICATION MCSpec
CONSTANTS
    Channel = {a, b}
    MaxRuns = 3
    CacheCapacity = 1
    RedeemCfgs <- MCRedeemCfgs
    MaxTickets = 1
    Outgoing = {o}
    Threshold = 1
    FundingAmount = 1
    InitialStake = 1
    SafeFunds = 2
    MaxFundings = 2
    MaxForeign = 1
    Closable = {x, y}
    Grace = 1
    MaxOverdue = 1
    Intervals = {1, 2, 3}
    Horizon = 6
    Problems <- MCProblems
    Unmeasured = Unmeasured
    UnknownSubnet = UnknownSubnet
    Prices = {0, 1, 3}
    WinProbs <- MCWinProbs
    Capacities = {0, 1, 5, 9}
    Payload = 2
    AssumedHops = 3
    Buffers = {0, 2, 7}
    Epsilon = 100
INVARIANT SoleOccupantKept
CHECK_DEADLOCK FALSE
