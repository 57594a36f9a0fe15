SPECIFICATION FairSpec
CONSTANTS
    Proc = {p1, p2}
    NoProc = NoProc
    TTL = 3
    Interval = 2
    MaxTime = 10
    MaxAcquired = 3
    MaxSteps = 0
    LockReplaceable = FALSE
    Punctual = TRUE
    Req = {r1}
    NoReq = NoReq
    Economic = {fill}
    Operational = {error}
    Malformed = {bad}
    Unusable = {odd}
    Disconnected = Disconnected
    None = None
    Symbol = {s1}
    Required = {s1}
 
PROPERTIES ExecutionEnds DaemonServesItsInputs 
CHECK_DEADLOCK FALSE
