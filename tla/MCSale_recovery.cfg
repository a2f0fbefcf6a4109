SPECIFICATION FairSpec
CONSTANTS
    Sales = {s1}
    PayDunyaSales = {}
    Handlers = {h1, h2}
    Loop = loop
    Refunds = {r1}
    NoSale = NoSale
    NoRefund = NoRefund
    GraceAge = 1
    RecheckWindow = 3
    ReconcileMaxAge = 4
    ReconcileEvery = 1
    MaxAge = 5
    Overlap = TRUE
    Ambiguous = TRUE
    Unreachable = FALSE
    Crashes = FALSE
    Prompt = TRUE
INVARIANTS NoStrandedCharge
PROPERTIES OutcomeReachesRow PaidHasEffects
