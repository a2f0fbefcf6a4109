SPECIFICATION Spec
CONSTANTS
    Sales = {s1}
    PayDunyaSales = {}
    Handlers = {h1, h2}
    Loop = loop
    Refunds = {r1, r2}
    NoSale = NoSale
    NoRefund = NoRefund
    GraceAge = 0
    RecheckWindow = 0
    ReconcileMaxAge = 1
    ReconcileEvery = 1
    MaxAge = 1
    Overlap = TRUE
    Ambiguous = TRUE
    Unreachable = TRUE
    Crashes = TRUE
    Prompt = FALSE
SYMMETRY Symmetry
INVARIANTS TypeOK EarnedIsBacked RefundIsBacked RefundedIsTrue
