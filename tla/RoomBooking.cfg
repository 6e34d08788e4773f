SPECIFICATION Spec
CONSTANTS
    Residents = {1, 2}
    Manual = {2}
    Rooms = {r1, r2}
    Contracts = {c1, c2}
    Clerks = {k1, k2}
    Periods <- MCPeriods
    Capacities = {0, 1, 2}
SYMMETRY Alike
INVARIANTS
    TypeOK
    NoOverbooking
    MergedHoldNothing
PROPERTIES
    BookedNightsAreFree
