SPECIFICATION MCSpec
CONSTANTS
    None = None
    Symbol = {s1, s2}
    Required = {s1}
    Version = {1, 2}
    First = 1
    MaxRows = 2
    MaxCandidates = 2
    MaxCrashes = 2
    NoCalendar = NoCalendar
    LastDay = 4
    MaxCalendars = 2
    WarningDays = 1
    MayCrash = TRUE
    Order = {o1, o2}
    Unit = 2
    InitialShares = 3
    InitialSellable = 3
    InitialCash = 20
    MinCommission = 5
    TaxDivisor = 2
    Participation = 2
    Prices = {0, 2}
    Volumes = {4, 12}
    MaxShares = 4
    MaxQuotes = 2
INVARIANTS PromotionIsRecoverable BooksBalance
PROPERTIES HistoryIsKept 
