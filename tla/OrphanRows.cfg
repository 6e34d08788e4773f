\* A reversal meets a reconciliation of the same payment.
SPECIFICATION Spec
CONSTANTS
    None = None
    Nightly = Nightly
    Payments = {p1, p2}
    Refunds = {}
    Reversals = {v1}
    Recalcs = {}
    Terminations = {}
INVARIANT NoOrphanRows
CHECK_DEADLOCK FALSE
