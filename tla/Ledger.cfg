\* Payments dated up to today, a refund, terminations, reversals and the nightly accrual.
SPECIFICATION Spec
CONSTANTS
    None = None
    MonthLen = 3
    PenaltyDay = 1
    MonthlyAmount = 10
    DailyRate = 4
    RateNum = 1
    RateDen = 10
    StartDate = 0
    EndDate = 4
    ConventionalEnds = {}
    MatCapital <- MCNoCapital
    SameDayReversed = TRUE
    FirstDay = 3
    Horizon = 5
    Amounts = {8, 20}
    OnlineAmounts = {}
    BackDates = {2, 4}
    AllowFuture = FALSE
    RefundAmounts = {2}
    RefundDays = {4}
    LeaveDays = {1, 3}
    MaxPayments = 2
    MaxRefunds = 1
    MaxReversals = 1
    NightOverlap = TRUE
    NightMissable = TRUE
INVARIANTS
    TypeOK
    MoneyConserved
    NothingOverpaid
    OldestFirst
    NoPenaltyAfterLeaving
    SettledIsReplayed
PROPERTIES
    CoveredStaysCovered
CHECK_DEADLOCK FALSE
