\* One buyer, at most two orders and two status requests in flight, and the
\* worker's limits scaled to the polls of one page: twice as many.
SPECIFICATION Spec
CONSTANTS
    Countries <- MCCountries
    DefaultCountry = "SEN"
    CheckoutCountries = {"SEN"}
    PawaPayOperators <- MCPawaPayOperators
    PayDunyaOperators <- MCPayDunyaOperators
    PawaPayCode <- MCPawaPayCode
    PhoneLength <- MCPhoneLength
    Requests = {r1, r2}
    Paths = {{"/api/", "/orders", "/orders/status"}}
    Limits <- MCLimits
    Window = 2
    Orders = {o1, o2}
    NoOrder = NoOrder
    Overlapping = {o1}
    MaxAutoPolls = 2
    StatusPath = {"/api/", "/orders", "/orders/status"}
    Chatty = TRUE
    Visitors = {"buyer"}
    Settings <- MCSettings
INVARIANTS
    TypeOK
    PaymentsPostedAreAccepted
    NumberOfThisCountry
    ChargedTwiceOnlyAfterFailure
    ScreenTellsTheTruth
    PollsWhileUseful
    OnePageIsNotLimited
PROPERTIES
    WaitEnds
    DiscussionReached
CHECK_DEADLOCK FALSE
