CONSTANTS
    Peer = {p1}
    MinOpen = 0
    TargetOpen = 1
    Cooldown = 2
    MaxActions = 1
    CloseCap = 1
    FinalizeCap = 1
    FaceValue = 1
    TopUp = 2
    Initial = 2
    LowerBalance = 2
    CloseBelow = 1
    Allowance = 9
    StartBalances = {2}
    StartSafe = 2
    MaxEvents = 1
    MaxStrays = 1
    MaxDrains = 1
    MaxFaults = 1
SPECIFICATION Spec
PROPERTIES CooldownHonoured PendingFinalized NeedyServed
