SPECIFICATION MCSpec
CONSTANTS
    Proc = {p1, p2}
    NoProc = NoProc
    TTL = 2
    Interval = 1
    MaxTime = 5
    MaxAcquired = 3
    MaxSteps = 1
    LockReplaceable = TRUE
    Punctual = FALSE
    Ids = {i1, i2, i3}
    Bodies = {b1, b2, s}
    Sensitive = {s}
    MaxRows = 3
    MaxFaults = 2
    None = None
    AccountIdHash = AccountIdHash
    Times = {1, 2}
    MaxSession = 2
    MaxSyncs = 1
    MaxEdits = 1
    MaxCrashes = 2
    MaxRots = 1
SYMMETRY Symmetry
PROPERTIES  DamageIsNoticed BackupsAreRestorePoints
CHECK_DEADLOCK FALSE
