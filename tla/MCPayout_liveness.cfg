SPECIFICATION FairSpec
CONSTANTS
    Payouts = {p1}
    DirectPayouts = {}
    PayPalPayouts = {}
    Handlers = {h1}
    Loop = loop
    Transfers = {t1, t2}
    NoPayout = NoPayout
    NoTransfer = NoTransfer
    MaxEarned = 1
    Overlap = TRUE
    Ambiguous = TRUE
    Unreachable = FALSE
    Crashes = FALSE
PROPERTIES OutcomeReachesPayout
