----------------------------- MODULE MoneyScreens -----------------------------
(***************************************************************************)
(* The screens of app/(app)/admin through which administrators move money: *)
(* payouts, sales, unfinished sales, donations, the payment gateway and    *)
(* the overview.  Each gives its rows, its handlers, the buttons its JSX   *)
(* shows on a row, and what the Go handler does with each call.            *)
(***************************************************************************)
EXTENDS Screen

-----------------------------------------------------------------------------
\* payouts/page.tsx

PayoutRows ==
    [status : {"requested", "processing", "paid", "failed", "refunded"},
     provider : {"auto", "manual"}]
\* A direct payout whose code was mailed to the administrator.
CodeSent == [status |-> "code", provider |-> "auto"]

payoutsRetry         == Handler("before", PerRow("busyId"), "await")
payoutsSettleAuto    == Handler("before", PerRow("busyId"), "await")
payoutsCheckProvider == Handler("before", PerRow("busyId"), "await")
payoutsSettle        == Handler("success", PerRow("busyId"), "await")
payoutsRefund        == Handler("success", PerRow("busyId"), "await")
payoutsCreate        == Handler("success", PerRow("busyId"), "await")
payoutsSendDirectOtp == Handler("success", Whole("directBusy"), "patch")
payoutsConfirmDirect == Handler("success", Whole("directBusy"), "await")

PayoutsHandlers ==
    [retry |-> payoutsRetry, settleAuto |-> payoutsSettleAuto,
     checkProvider |-> payoutsCheckProvider, settle |-> payoutsSettle,
     refund |-> payoutsRefund, create |-> payoutsCreate,
     sendDirectOtp |-> payoutsSendDirectOtp, confirmDirect |-> payoutsConfirmDirect]

\* Mutant: a payout being processed can be sent again.
PayoutsOffers_RetriesProcessing(r) ==
    [settleAuto    |-> r.status = "requested" /\ r.provider # "manual",
     checkProvider |-> r.status = "processing" /\ r.provider # "manual",
     retry         |-> r.status \in {"failed", "processing"} /\ r.provider # "manual",
     settle        |-> r.status \in {"requested", "processing", "failed"},
     refund        |-> r.status \in {"paid", "failed"},
     confirmDirect |-> r = CodeSent]

PayoutsOffers(r) ==
    [settleAuto    |-> r.status = "requested" /\ r.provider # "manual",
     checkProvider |-> r.status = "processing" /\ r.provider # "manual",
     retry         |-> r.status = "failed" /\ r.provider # "manual",
     settle        |-> r.status \in {"requested", "processing", "failed"},
     refund        |-> r.status \in {"paid", "failed"},
     confirmDirect |-> r = CodeSent]

PayoutsDialogs == {"retry", "settleAuto", "settle", "refund"}

\* statusFilter; the list is loaded whole.
PayoutsFiltered ==
    "all" :> (PayoutRows \cup {CodeSent})
    @@ "failed" :> {r \in PayoutRows : r.status = "failed"}

\* initiatePayoutWithProvider: a refusal is stored before the 502 answers it.
InitiatePayout(r) ==
    Ok([r EXCEPT !.status = "processing"]) \cup Error([r EXCEPT !.status = "failed"])

CheckPayoutProvider(r) ==
    When(r.provider = "auto" /\ r.status # "requested",
         Ok(r) \cup When(r.status \notin {"paid", "failed"},
                         {<<"ok", [r EXCEPT !.status = s]>> : s \in {"paid", "failed"}}))

\* Mutant: the handler does not look at the status of the payout.
RetryPayout_Unconditionally(r) == InitiatePayout(r)

RetryPayout(r) == When(r.status = "failed" /\ r.provider = "auto", InitiatePayout(r))

PayoutsBackend(r) ==
    [settleAuto    |-> When(r.status = "requested" /\ r.provider = "auto", InitiatePayout(r)),
     retry         |-> RetryPayout(r),
     checkProvider |-> CheckPayoutProvider(r),
     settle        |-> When(r.status \in {"requested", "processing", "failed"},
                            Ok([r EXCEPT !.status = "paid"])),
     refund        |-> When(r.status \in {"paid", "failed"}, Ok([r EXCEPT !.status = "refunded"])),
     confirmDirect |-> When(r = CodeSent, InitiatePayout(r))]

PayoutsCreates ==
    [create |-> {[status |-> "paid", provider |-> "manual"]}, sendDirectOtp |-> {CodeSent}]

Payouts ==
    NewScreen(PayoutRows \cup {CodeSent},
        {Blank} \cup {[status |-> s, provider |-> "auto"] : s \in {"requested", "processing", "failed"}},
        PayoutsFiltered, "all", FALSE, TRUE, PayoutsDialogs, PayoutsHandlers,
        PayoutsOffers, PayoutsBackend, PayoutsCreates)

-----------------------------------------------------------------------------
\* sales/page.tsx.  A sale stays paid until the provider confirms its refund.

SaleRows ==
    [status : {"paid", "refunded"}, provider : {"pawapay", "paydunya"}, refund : BOOLEAN]

salesRefund == Handler("before", PerRow("refundingId"), "await")
SalesOffers(r) == [refund |-> r.status = "paid"]
SalesDialogs == {"refund"}
SalesFiltered ==
    "all" :> SaleRows @@ "refunded" :> {r \in SaleRows : r.status = "refunded"}

RefundSale(r) ==
    When(r.status = "paid" /\ r.provider # "paydunya", Ok([r EXCEPT !.refund = TRUE]))
RefundConfirmed(r) ==
    When(r.status = "paid" /\ r.refund, Ok([r EXCEPT !.status = "refunded"]))
SalesBackend(r) == [refund |-> RefundSale(r), callback |-> RefundConfirmed(r)]

Sales ==
    NewScreen(SaleRows, {r \in SaleRows : r.status = "paid" /\ ~r.refund},
        SalesFiltered, "all", FALSE, TRUE, SalesDialogs, [refund |-> salesRefund],
        SalesOffers, SalesBackend, NoCreates)

-----------------------------------------------------------------------------
\* pending-sales/page.tsx.  Every sale has its checkout token and an e-mail.

PendingRows == [status : {"pending", "failed", "paid"}, reminded : BOOLEAN]
Unfinished == {r \in PendingRows : r.status # "paid"}

pendingRemind        == Handler("before", PerRow("busyId"), "patch")
pendingMarkPaid      == Handler("before", PerRow("busyId"), "await")
pendingCheckProvider == Handler("before", PerRow("busyId"), "await")
PendingHandlers ==
    [remind |-> pendingRemind, markPaid |-> pendingMarkPaid,
     checkProvider |-> pendingCheckProvider]

PendingOffers(r) ==
    [remind |-> r.status = "pending", markPaid |-> TRUE, checkProvider |-> TRUE]
PendingDialogs == {"markPaid"}
PendingFiltered ==
    "all" :> Unfinished @@ "pending" :> {r \in Unfinished : r.status = "pending"}

MarkSalePaid(r) == When(r.status # "paid", Ok([r EXCEPT !.status = "paid"]))

CheckSaleProvider(r) ==
    Ok(r) \cup When(r.status = "pending",
                    {<<"ok", [r EXCEPT !.status = s]>> : s \in {"paid", "failed"}})
RemindSale(r) == When(r.status = "pending", Ok([r EXCEPT !.reminded = TRUE]))
PendingBackend(r) ==
    [remind |-> RemindSale(r), markPaid |-> MarkSalePaid(r), checkProvider |-> CheckSaleProvider(r)]

PendingSales ==
    NewScreen(PendingRows, {r \in Unfinished : ~r.reminded}, PendingFiltered, "all",
        FALSE, TRUE, PendingDialogs, PendingHandlers, PendingOffers, PendingBackend, NoCreates)

-----------------------------------------------------------------------------
\* donations/page.tsx: the recipients, their payouts and the programme's settings.

Recipients == [status : {"recipient"}, active : BOOLEAN]
\* No callback is matched to one and no loop asks about it: "processing" stays.
DonationPayouts == [status : {"failed", "processing"}]
DonationSettings == [status : {"settings"}, share : {"old", "new"}]
DonationRows == Recipients \cup DonationPayouts \cup DonationSettings

donationsSaveSettings == Handler("success", Whole("savingSettings"), "patch")
donationsAddRecipient == Handler("success", Whole("savingRecipient"), "reload")
donationsToggleActive == Handler("before", NoLock, "reload")
donationsDelete       == Handler("after", NoLock, "reload")
donationsRetry        == Handler("before", PerRow("retryingId"), "reload")
DonationsHandlers ==
    [saveSettings |-> donationsSaveSettings, addRecipient |-> donationsAddRecipient,
     toggleActive |-> donationsToggleActive, delete |-> donationsDelete,
     retry |-> donationsRetry]

DonationsOffers(r) ==
    [saveSettings |-> r.status = "settings", toggleActive |-> r.status = "recipient",
     delete |-> r.status = "recipient", retry |-> r.status = "failed"]
DonationsDialogs == {"delete"}

DonationsBackend(r) ==
    [saveSettings |-> When(r.status = "settings", Ok([r EXCEPT !.share = "new"])),
     toggleActive |-> When(r.status = "recipient", {<<"ok", n>> : n \in Recipients}),
     delete       |-> When(r.status = "recipient", Ok(Gone)),
     retry        |-> When(r.status = "failed", {<<"ok", [status |-> s]>> : s \in {"processing", "failed"}})]

DonationsCreates == [addRecipient |-> {r \in Recipients : r.active}]

Donations ==
    NewScreen(DonationRows,
        {Blank, [status |-> "failed"]} \cup {r \in Recipients : r.active}
          \cup {r \in DonationSettings : r.share = "old"},
        "all" :> DonationRows, "all", FALSE, FALSE, DonationsDialogs, DonationsHandlers,
        DonationsOffers, DonationsBackend, DonationsCreates)

-----------------------------------------------------------------------------
\* gateway/page.tsx and gateway-tabs.tsx: the clients of the payment gateway
\* and their transactions; [toggling] is one flag for all the clients.

GatewayClients == [status : {"client"}, active : BOOLEAN, limits : {"old", "new"}]

gatewaySaveLimits == Handler("success", PerRow("savingLimits"), "reload")
gatewayCreate     == Handler("success", Whole("creating"), "reload")
gatewayToggle     == Handler("before", Whole("toggling"), "reload")
GatewayHandlers ==
    [saveLimits |-> gatewaySaveLimits, create |-> gatewayCreate, toggle |-> gatewayToggle]
GatewayOffers(r) == [saveLimits |-> TRUE, toggle |-> TRUE]
GatewayDialogs == {"toggle"}
GatewayBackend(r) ==
    [saveLimits |-> Ok([r EXCEPT !.limits = "new"]),
     toggle     |-> {<<"ok", [r EXCEPT !.active = a]>> : a \in BOOLEAN}]

NewClients == {r \in GatewayClients : r.active /\ r.limits = "old"}
GatewayCreates == [create |-> NewClients]

Gateway ==
    NewScreen(GatewayClients, NewClients \cup {Blank}, "all" :> GatewayClients, "all",
        FALSE, TRUE, GatewayDialogs, GatewayHandlers, GatewayOffers, GatewayBackend,
        GatewayCreates)

Transactions ==
    [status : {"pending", "processing", "completed", "failed"}, type : {"deposit", "payout"}]
Unsettled == {t \in Transactions : t.status \in {"pending", "processing"}}

transactionsCheck == Handler("before", PerRow("busyId"), "patch")
TransactionsOffers(t) == [check |-> t.type = "deposit" /\ t \in Unsettled]
\* The filters are asked of the backend.
TransactionsListed ==
    "all" :> Transactions @@ "failed" :> {t \in Transactions : t.status = "failed"}

\* The provider keeps the answer that settled a deposit.
CheckTransaction(t) ==
    When(t.type = "deposit",
         Ok(t) \cup When(t \in Unsettled,
                        {<<"ok", [t EXCEPT !.status = s]>> : s \in {"completed", "failed"}}))
TransactionsBackend(t) == [check |-> CheckTransaction(t)]

GatewayTransactions ==
    NewScreen(Transactions, {t \in Unsettled : t.status = "pending"}, TransactionsListed,
        "all", TRUE, FALSE, {}, [check |-> transactionsCheck], TransactionsOffers,
        TransactionsBackend, NoCreates)

-----------------------------------------------------------------------------
\* page.tsx: the overview, with the latest payouts.

overviewRetry == Handler("before", NoLock, "reload")
OverviewOffers(r) == [retry |-> r.status = "failed"]
OverviewBackend(r) == [retry |-> PayoutsBackend(r).retry, checkProvider |-> CheckPayoutProvider(r)]

OverviewDialogs == {"retry"}

Overview ==
    LET Auto == {r \in PayoutRows : r.provider = "auto"} IN
    NewScreen(Auto, {r \in Auto : r.status \in {"failed", "processing"}}, "all" :> Auto, "all",
        FALSE, TRUE, OverviewDialogs, [retry |-> overviewRetry], OverviewOffers, OverviewBackend,
        NoCreates)

===============================================================================
