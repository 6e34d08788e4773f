\* Refunds of an overpaid contract, online payments and their push to accounting;
\* the nightly accrual never misses a night.
SPECIFICATION Spec
CONSTANTS
    None = None
    MonthLen = 3
    PenaltyDay = 1
    MonthlyAmount = 10
    DailyRate = 4
    RateNum = 1
    RateDen = 10
    StartDate = 0
    EndDate = 4
    ConventionalEnds = {}
    MatCapital <- MCCapital
    SameDayReversed = FALSE
    FirstDay = 2
    Horizon = 5
    Amounts = {8, 20}
    OnlineAmounts = {12}
    BackDates = {2, 5}
    AllowFuture = TRUE
    RefundAmounts = {2}
    RefundDays = {2, 4}
    LeaveDays = {3}
    MaxPayments = 2
    MaxRefunds = 2
    MaxReversals = 0
    NightOverlap = FALSE
    NightMissable = FALSE
INVARIANTS
    JournalFresh
PROPERTIES
    SyncedAllocationFixed
CHECK_DEADLOCK FALSE
