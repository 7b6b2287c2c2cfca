CONSTANTS
    i1 = i1
    i2 = i2
    d1 = d1
    d2 = d2
    Event <- OneEvent
    MaxAllocation = 2
    MaxSpend = 0
    ProcessedTTL = 9
    GuardTTL = 9
    GuardCapacity = 1
    MaxDeposits = 2
    LedgerCapacity = 2
    SpendWindow = 1
SPECIFICATION Spec
INVARIANTS FundedOnce
