CONSTANTS
    i1 = i1
    i2 = i2
    d1 = d1
    d2 = d2
    Event <- MCEvent
    MaxAllocation = 2
    MaxSpend = 3
    ProcessedTTL = 1
    GuardTTL = 1
    GuardCapacity = 1
    MaxDeposits = 3
    LedgerCapacity = 2
    SpendWindow = 2
SPECIFICATION Spec
INVARIANTS EntriesBalance WindowRespected RefundedNeverMoved OverlapOnlyAfterLapse
