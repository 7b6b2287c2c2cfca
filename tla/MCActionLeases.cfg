CONSTANTS
    Kind = {fund, close}
    Key = {c1}
    LeaseTimeout = 2
    MaxConcurrent = 1
    MaxHolder = 3
SPECIFICATION Spec
INVARIANTS TypeOK BudgetRespected NoStrandedSlot OverlapOnlyAfterTurnover
PROPERTIES LateReportSparesSuccessor NoHoldIsForever
