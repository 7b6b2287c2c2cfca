CONSTANTS
    Key = {k1}
    BadKey = {}
    GuardTTL = 9
    MaxSweeps = 1
    MaxCrashes = 1
SPECIFICATION Spec
INVARIANTS OneSweepAtATime
