SPECIFICATION FairSpec
CONSTANTS
  Plan <- SellBuy
  LatestSubmit = 2
  LatestCancel = 3
  Completion = 4
  Window = 1
  MinLife = 1
  Poll = 1
  MaxTime = 6
  Provider = "production"
  ClockAdvances = FALSE
  Faults = FALSE
PROPERTIES SubmittingOrderIsSent
CHECK_DEADLOCK FALSE
