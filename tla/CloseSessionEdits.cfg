SPECIFICATION Spec
CONSTANTS
  MaxOps = 2
  MaxDay = 2
  MaxFacts = 2
  Mode = "CANARY"
  EditsAllowed = TRUE
INVARIANT OperationsAreSettled
