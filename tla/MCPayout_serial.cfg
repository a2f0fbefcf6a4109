SPECIFICATION Spec
CONSTANTS
    Payouts = {p1, p2, d1}
    DirectPayouts = {d1}
    PayPalPayouts = {p2}
    Handlers = {h1}
    Loop = loop
    Transfers = {t1, t2}
    NoPayout = NoPayout
    NoTransfer = NoTransfer
    MaxEarned = 1
    Overlap = FALSE
    Ambiguous = FALSE
    Unreachable = TRUE
    Crashes = FALSE
SYMMETRY Symmetry
INVARIANTS NoDoubleSend
PROPERTIES KeepsPayoutOutcome InsertWithinBalance
