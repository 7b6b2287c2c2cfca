CONSTANTS
    Peer = {p1, p2}
    MinOpen = 1
    TargetOpen = 2
    Cooldown = 0
    MaxActions = 2
    CloseCap = 1
    FinalizeCap = 1
    FaceValue = 2
    TopUp = 2
    Initial = 2
    LowerBalance = 1
    CloseBelow = 0
    Allowance = 3
    StartBalances = {1}
    StartSafe = 1
    MaxEvents = 1
    MaxStrays = 1
    MaxDrains = 0
    MaxFaults = 1
SPECIFICATION Spec
INVARIANTS CapsHold
PROPERTIES TickWithinBudget FloorExplained
SYMMETRY Swap
