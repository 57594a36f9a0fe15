SPECIFICATION MCSpec
CONSTANTS
    Production = TRUE
    Req = {r1, r2}
    NoReq = NoReq
    Outcome = {v1, v2}
    NoOutcome = NoOutcome
    Usual = v1
    LastSession = 2
    MaxSteps = 2
    Economic = {fill}
    Operational = {error}
    Malformed = {bad}
    Unusable = {odd}
    Disconnected = Disconnected
    None = None
    Capacity = 1
    MaxDrain = 1
    MaxTime = 2
    MaxDeliveries = 3
SYMMETRY Symmetry
INVARIANTS EveryTransitionIsLegal ArmedIsJustified WorkflowsRunOnce
PROPERTIES RequestsAreAnswered EventsAreKept ExecutesSealedDecision
