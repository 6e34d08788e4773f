SPECIFICATION FairSpec
CONSTANTS
    Contracts = {c1, c2}
    Approvals = {a1, a2}
    MaxSlips = 1
INVARIANTS
    CreatedOnce
    UidsBelongTogether
PROPERTIES
    EveryContractApproved
