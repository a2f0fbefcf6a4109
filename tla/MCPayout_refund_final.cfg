SPECIFICATION Spec
CONSTANTS
    Payouts = {p1}
    DirectPayouts = {}
    PayPalPayouts = {}
    Handlers = {h1}
    Loop = loop
    Transfers = {t1, t2}
    NoPayout = NoPayout
    NoTransfer = NoTransfer
    MaxEarned = 1
    Overlap = FALSE
    Ambiguous = FALSE
    Unreachable = FALSE
    Crashes = FALSE
PROPERTIES RefundedStaysOut
