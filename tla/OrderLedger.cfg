SPECIFICATION Spec
CONSTANTS
  Requested = 2
  MaxAttempts = 2
  BrokerStatuses = {"PENDING_NEW","ACKNOWLEDGED","PARTIALLY_FILLED","FILLED","PENDING_CANCEL","CANCELLED","REJECTED","EXPIRED","UNKNOWN"}
  FillSeq <- DistinctFillTimes
INVARIANTS TypeOK OneBrokerOrder NeverDisowned FillsAccounted TerminalIsBrokerTruth AggregateConsistent
PROPERTIES TerminalIsFinal ReadyKnowsBrokerOrder
