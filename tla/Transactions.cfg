\* Transactions of every kind on one contract row.
SPECIFICATION LiveSpec
CONSTANTS
    None = None
    Nightly = Nightly
    Payments = {p1, p2}
    Refunds = {f1}
    Reversals = {v1}
    Recalcs = {}
    Terminations = {t1}
INVARIANTS
    TypeOK
    SettledUnlessPending
PROPERTIES
    PendingIsReconciled
    EveryRequestEnds
CHECK_DEADLOCK FALSE
