SPECIFICATION MCSpec
CONSTANTS
    Plan <- SellsThenBuy
    LatestSubmit = 2
    LatestCancel = 4
    Completion = 5
    Window = 2
    MinLife = 2
    Poll = 1
    MaxTime = 5
    Provider = "any"
    ClockAdvances = FALSE
    Faults = TRUE
    None = None
    Symbols = {x, y}
    Unit = 2
    Prices = {1, 2}
    Cash = {0, 5}
    Holdings = {0, 3, 5}
    Bought = {0, 1}
    Weights = {0, 60}
    MinimumCommission = 1
    CommissionRate = 20
    StampDutyRate = 20
    TransferFeeRate = 10
    MaxPriceDeviation = 60
    MaxOrderNotional = 8
    MaxDailySubmitted = 10
    MaxDailyFilled = 9
    MaxSymbolNotional = 12
    MaxGrossNotional = 14
    TargetGross = 100
    VolumeCap = 5
    MaxDisturbances = 2
INVARIANTS SubmitsAreSafe 
CHECK_DEADLOCK FALSE
