SPECIFICATION FairSpec
CONSTANTS
    Intents = {i1}
    Tabs = {g1, g2, g3}
INVARIANTS
    TypeOK
    CreditedOnce
    SucceededIsCredited
PROPERTIES
    CreditsWhatTheBankTook
    PaidIsCredited
