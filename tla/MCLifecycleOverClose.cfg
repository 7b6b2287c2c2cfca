CONSTANTS
    Peer = {p1, p2, p3}
    MinOpen = 3
    TargetOpen = 0
    Cooldown = 0
    MaxActions = 2
    CloseCap = 1
    FinalizeCap = 1
    FaceValue = 2
    TopUp = 2
    Initial = 2
    LowerBalance = 1
    CloseBelow = 0
    Allowance = 3
    StartBalances = {1, 2}
    StartSafe = 0
    MaxEvents = 1
    MaxStrays = 1
    MaxDrains = 0
    MaxFaults = 0
SPECIFICATION Spec
PROPERTIES NeverOverCloses
