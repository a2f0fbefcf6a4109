SPECIFICATION Spec
CONSTANTS
    Payouts = {p1}
    DirectPayouts = {}
    PayPalPayouts = {}
    Handlers = {h1, h2}
    Loop = loop
    Transfers = {t1, t2}
    NoPayout = NoPayout
    NoTransfer = NoTransfer
    MaxEarned = 1
    Overlap = TRUE
    Ambiguous = TRUE
    Unreachable = TRUE
    Crashes = TRUE
SYMMETRY Symmetry
INVARIANTS TypeOK PaidIsTrue ProcessingIsSent
