CONSTANTS
    Key = {k1, k2}
    BadKey = {k2}
    GuardTTL = 1
    MaxSweeps = 2
    MaxCrashes = 1
    Buffers = {"deposit", "withdrawal"}
    Periods <- MCPeriods
    MaxBuffered = 2
    MaxDetached = 1
    Id = {a, b}
    Password = {p, q}
    MaxOpens = 3
SPECIFICATION MCSpec
INVARIANTS KeyKeptUntilSwept SweepsOverlapOnlyIfBroken OpenReadsBack
PROPERTIES ReplayNeverDropsKey LockoutEnds FlushComes
CONSTRAINT MCBadFunds
CHECK_DEADLOCK FALSE
