SPECIFICATION Spec
CONSTANTS
    Sales = {s1, s2}
    PayDunyaSales = {s2}
    Handlers = {h1}
    Loop = loop
    Refunds = {r1, r2}
    NoSale = NoSale
    NoRefund = NoRefund
    GraceAge = 0
    RecheckWindow = 0
    ReconcileMaxAge = 1
    ReconcileEvery = 1
    MaxAge = 1
    Overlap = FALSE
    Ambiguous = TRUE
    Unreachable = TRUE
    Crashes = TRUE
    Prompt = FALSE
SYMMETRY Symmetry
INVARIANTS ConfirmedOnce
PROPERTIES KeepsOutcome RefundedOnce
