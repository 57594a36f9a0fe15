SPECIFICATION MCSpec
CONSTANTS
    None = None
    Nothing = Nothing
    BuyShares = 2
    SellShares = 1
    Price = 2
    Tolerance = 1
    Cash0 = 5
    Held0 = 2
    MaxDay = 2
    MaxCaptures = 2
    MaxAttempts = 2
    MaxExternal = 1
    Builds = {b1, b2}
    Buys = {o1}
    Sells = {}
    LastDay = 3
    MinShadowSessions = 1
    MinShadowOrders = 1
    MaxShadowError = 2
    MinCanarySessions = 1
    MinCanaryOrders = 1
    MinCanaryFills = 1
    MaxCanaryError = 2
    Outcomes = {"FILLED", "REJECTED"}
    MaxPlans = 2
    MaxCrashes = 1
    MaxEdits = 2
    MaxForeign = 0
INVARIANTS  AccountIsExact 
CHECK_DEADLOCK FALSE
