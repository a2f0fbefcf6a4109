SPECIFICATION Spec
CONSTANTS
    Sales = {s1}
    Amounts <- MCAmounts
    Rates <- MCRates
CHECK_DEADLOCK FALSE
INVARIANT CapLeavesPlatformPart
