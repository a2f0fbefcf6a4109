SPECIFICATION WebSpec

CONSTANTS
    t1 = t1
    t2 = t2
    c1 = c1
    c2 = c2
    Tabs = {t1, t2}
    Calls = {c1, c2}
    Owner <- MCOwner
    Refusing = {c2}
    Providers = {t2}
    MaxTokens = 2
    Screens <- MCScreens
    Rows = {"first", "second"}
    Decisions = 2
    Unlocked <- MCUnlocked
    Trusting <- MCTrusting
    Refused <- MCRefused
    MaxPicks = 2
    MaxSubmits = 2
    Hasty <- MCHasty
    Repeatable <- MCRepeatable

INVARIANTS
    WebTypeOK
    NotThrownOutForNothing
    OfferedIsAccepted
    OneCallAtATime
    QuietListIsFresh
    CoverSentIsTheOnePicked
    TwinOnlyAfterSilence

PROPERTIES
    CallsKeepPromise
    LateDecisionsAreHarmless
    CallsSettle
    LocksAreReleased

CHECK_DEADLOCK FALSE
