SPECIFICATION Spec
CONSTANTS
  MaxOps = 2
  MaxDay = 3
  MaxFacts = 2
  Mode = "LIVE"
  EditsAllowed = FALSE
INVARIANTS TypeOK OperationsAreSettled OneIncompleteClose CommittedDecisionInAccount ExecutesPreviousDecision
PROPERTIES AccountIsAtomic
