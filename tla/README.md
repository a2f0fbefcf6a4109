# DIARRA: a TLA+ model of the marketplace

DIARRA sells digital goods (courses, files, event seats) to buyers who pay by
mobile money through PawaPay or PayDunya, or by card through PayPal. Vendors are
owed their part, closers (affiliates) a commission, the platform its fee. The
backend is a Go server (`src/backend`) running in several replicas over one
PostgreSQL database and one Redis; a Cloudflare worker (`src/worker`) counts and
relays every request; the pages are a Next.js application (`src/frontend`), for
buyers, vendors, closers, members and administrators.

This directory holds a specification of three layers of it: the backend's money
paths, the buyer's way from the payment form to the verdict, and the pages behind
the login. It is made of TLA+ modules translated from the code, TLC configurations
that check them on small instances, and theorems proved by TLAPS for every value of
the constants. Paths below are relative to `src/backend/internal` unless they start
with `src/`; those of pages are relative to `src/frontend/src/app`.

1. [How the system executes](#1-how-the-system-executes)
2. [Inventory of the components](#2-inventory-of-the-components)
3. [The modules](#3-the-modules)
4. [The runs](#4-the-runs)
5. [Fairness](#5-fairness)
6. [What is proved](#6-what-is-proved)
7. [What is only model-checked, and what is out of reach](#7-what-is-only-model-checked-and-what-is-out-of-reach)
8. [Disagreements between code and documentation](#8-disagreements-between-code-and-documentation)
9. [Not modelled](#9-not-modelled)
10. [Plan](#10-plan)

## 1. How the system executes

Three facts about the code shape every model here.

- **One statement, one transaction.** A repository method is one auto-committed
  SQL statement on a connection pool. There is no `SELECT ... FOR UPDATE`, and
  only a few writes are conditional (`... WHERE status IN (...)`). A handler
  reads a row, calls a provider over HTTP (30 s client timeouts), then writes; in
  between, any other handler of any replica may run. In the models a handler is
  therefore a *job* that goes through a read step, an ask step and a write step,
  each an action, and it acts upon the status it *read*, kept in `job[w].seen` or
  implied by its program counter.
- **Callbacks are wake-up calls.** The body of a PawaPay or PayDunya callback is
  never believed: the handler asks the provider's API again. A callback may thus
  be lost, late, repeated or forged; the models let one start at any time and
  assume none. PayPal's events are signed and believed.
- **Background loops.** Each replica runs tickers: deposit reconciliation (10 min),
  payout reconciliation (10 min), cart reminders and ads (15 min), mail. A restart
  stops them in the middle of a pass.
- **Browsers.** A page's handler is an `async` function: between two of its `await`s
  anything else of the page may run, and what it read before stays in its closure. An
  answer may come late, after a later one, or not at all, whether or not the backend
  acted. Only the state that a `disabled` attribute names keeps a button from being
  pressed twice, and tabs share nothing but `localStorage` and cookies.

Failures in the models: a worker stops anywhere (`Crash`: the replica is killed, or a
statement fails and the handler returns), a status query fails (`Unreachable`), a
call that moves money is executed but its answer is lost (`Ambiguous`).

## 2. Inventory of the components

| Component | State it keeps | Operations | Hard behaviour | What makes it correct |
|---|---|---|---|---|
| Mobile-money sale lifecycle (`handler/sale_handler.go`, `webhook_handler.go`, `admin_handler.go`, `repository/sale_repo.go`) | `sales`: status, references, age, manual confirmation | checkout, callback, poll, admin check, manual confirmation, refund, refund callback, reconciliation loop | overlapping confirmations, lost answers, stale statuses, loop windows | earned only if paid; refunded only if returned; outcome reaches the row; effects run once |
| Payout lifecycle and balance (`handler/payout_handler.go`, `admin_handler.go`, `webhook_handler.go`, `repository/payout_repo.go`) | `payouts`: status, provider reference, manual flag | request, manual and direct payout, settle, retry, callbacks, check, refund, loop | retry racing a late outcome, double send, sum-then-insert | paid only if sent; sent once; within the balance |
| Commission and affiliate links (`service/commission_service.go`, `closer_handler.go`, `product_handler.go`) | rate, product switch and cap, link percentage, split of a sale | settings, product update, link creation, checkout | settings change between validation and use; double-precision truncation | parts add up, none negative, closer gets his percentage |
| PayPal sales (`payment/paypal.go`) | the same row, order and capture at PayPal | checkout, status query that captures, events, refund | a query with a side effect; events believed without a query | as for sales |
| Earnings cache (`cache/cache.go`) | a 30 s copy of totals in Redis | read through, invalidate | a slow reader repopulates after an invalidation | displayed balance stale for 30 s at most |
| Donation pool (`service/donation_service.go`) | pool balance, payouts to charities | accumulate, distribute, retry | read-compute-drain, no reconciliation | the pool is given once |
| Gateway (`handler/gateway_handler.go`, `gateway_relay.go`) | `gateway_transactions` of partner applications | deposit, payout, refund, relay | `client_ref` races, daily caps, answer after callback | idempotence, caps, relay of the outcome |
| Delivery links, one-time codes, sessions | tokens with a budget, an expiry or a single use | create, consume | check, then increment or mark | budget and single use |
| Product moderation | product status, previews | edit, approve, reject | status read before the edit | what is published was approved |
| YES sessions, Summit, event tickets | rows tied to a sale | open on confirmation, offer, check-in | confirmation racing the link, refunds afterwards | one session, ticket, registration per paid sale |
| Reminders, vendor mail, Meta ads, real-time hub | counters, drafts, an IMAP cursor, campaign status, subscriptions | loops and buttons | send then record; two replicas' loops | sent once; nothing lost |
| Support tickets, bundles, events, webinars, feeds, push, storage, SMS, routing, rate limits | rows appended or edited | forms, best-effort I/O | little | little to interleave |
| Edge worker (`src/worker/src/index.ts`) | a count per client and path in a key-value store | count, refuse, relay | no increment in the store; each write renews the expiry | a waiting buyer is not refused |
| Payment forms (`checkout/checkout-view.tsx`, the discussion panel of the product page) | country, operator, number, code, method | type, choose, post | lists that arrive later; two tabs over one country; a post whose answer is lost | what is posted can be accepted, and is what the buyer typed |
| Payment return page (`checkout/return/return-view.tsx`) | verdict shown, polling, counters | poll, check by hand, retry | answers out of order, a status that changes its mind, the discussion that opens later | the screen is true; waiting ends; nobody is invited to pay twice without a reason |
| Browser session (`lib/api.ts`, `lib/auth.tsx`) | token, cookie, one shared refresh | call, refresh, send again, leave | several calls denied at once, several tabs, rotation of the cookie, errors on the way | a call does its work once; nobody is thrown out for an expired token alone |
| List screens of `admin`, `vendor`, `closer` and the members' pages (42) | the rows shown, a filter, a dialog, `busyId` and its kind | buttons, confirmations, refreshes | decisions on rows that changed; one lock for many rows; crossing reads | what is offered is accepted; a late decision is harmless; the list is fresh when the page is quiet |
| Publishing and account forms (12) | a picture's key, uploads, a submission | pick, upload, submit | uploads in any order, a submission during one, an answer that is lost | the cover is the one picked; nothing is published twice |

`PROJECT.json` lists every component with its files and status, and the main hazards
with the line where they bite and the properties that cover them. The handlers behind
the screens are modelled by their guards and effects, one statement each; that is why
several backend components are "partly" modelled. Delicate points of their parts left
out, for the modules of the plan: a donation payout whose answer
was lost is retried (`service/donation_service.go:170`); the download budget and
one-time codes are checked, then consumed (`handler/delivery_handler.go:171`,
`otp/service.go:85`); the gateway frees its cap on a lost answer and reconciles pending
rows only (`handler/gateway_handler.go:344`, `repository/gateway_repo.go:218`); a password
reset is three writes (`service/auth_service.go:468`); previews of two edits end in any
order (`handler/product_handler.go:987`); the balance sale of a YES session is linked
after its payment started and priced by the current micro-ticket
(`handler/yes_handler.go:488`, `:439`); check-in does not look at the sale again
(`handler/event_ticket_handler.go:153`); reminders are sent, then counted
(`handler/sale_handler.go:648`); a mail that could not be sent stays approved
(`handler/vendor_mail_handler.go:260`); the ads loop overwrites a stop
(`handler/ad_handler.go:407`); a reader slower than an invalidation repopulates the
earnings cache (`handler/payout_handler.go:273`).

How they interact: a confirmation of a sale (`ConfirmPaidSale`) starts the emails,
feeds the donation pool, opens YES sessions and confirms Summit registrations. Paid
sales are what payouts are drawn from. The checkout freezes the commission split
in the row. The callbacks of the providers are shared by sales, payouts and the
gateway, which is tried when no row has the reference. The forms and the return page
reach the backend through the worker; every signed-in page through one `fetchApi`, which
carries the session.

## 3. The modules

| Module | Role |
|---|---|
| `SaleLifecycle` | the sales row, the provider's truth, the requests and the deposit loop |
| `MCSaleLifecycle` | its TLC instances (symmetry of handlers and refund identifiers) |
| `OrderOutcome` | abstract: what may become of an order; `SaleLifecycle` and `BuyerJourney` implement it |
| `SaleLifecycle_proofs` | its inductive invariants and theorems: types, safety, confirmations, recovery |
| `PayoutLifecycle` | the payouts row, transfers at the providers, requests and the payout loop |
| `MCPayoutLifecycle` | its TLC instances (symmetry of handlers and transfers) |
| `PayoutOutcome` | abstract: what may become of a payout and its money; `PayoutLifecycle` implements it |
| `PayoutLifecycle_proofs` | its inductive invariant and theorems |
| `Commission` | the settings and the split frozen at checkout |
| `MCCommission` | its TLC instance (prices and rates) |
| `Commission_proofs` | its inductive invariant and theorems |
| `SaleSerial_proofs`, `PayoutSerial_proofs` | what holds when the requests for one sale, for one payout, do not overlap; both refinements |
| `EdgeProxy` | the worker: counts, refusals, relays |
| `PaymentReturn` | extends it: the page that waits, its polls, the order at the backend |
| `CheckoutForm` | the two payment forms |
| `BuyerJourney` | composes the three: form, order, page, second attempt |
| `MCBuyerJourney` | its TLC instance (two countries, two settings) |
| `BuyerJourney_proofs` | the page, the form, the polls and the worker's key: invariants and theorems |
| `OneRequest` | abstract: a call whose handler does its work at most once, and that succeeds only if it did |
| `WebSession` | `fetchApi`, refreshes, rotation: implements `OneRequest` |
| `WebSession_proofs` | the refinement and the session's invariants, proved |
| `Screen` | the vocabulary of list screens: handlers, locks, effects |
| `Console` | one list screen at work, whatever its record |
| `MoneyScreens`, `CatalogScreens`, `PeopleScreens` | the records of the administration's screens |
| `VendorScreens`, `MemberScreens` | the records of the vendor's, closer's and members' screens |
| `PublishForm` | the forms that publish or open an account |
| `WebPages` | the sum of `WebSession`, `Console` and `PublishForm` |
| `MCWebPages` | its TLC instance, with every screen and the lists of exceptions |
| `WebPages_proofs` | types, locks and lists of every screen, the forms, and the sum, proved |

Definitions named `X_Something` beside `X` are deliberate faults, each the body `X`
would have after a plausible mistake; no specification uses them. They are there
to show that each checked property notices such a mistake.

### SaleLifecycle

State. `status`, `manual`, `refundRef` are columns of the row; `linked` says whether
`payment_reference` is one the provider knows (PawaPay is given the row's own
reference, PayDunya returns a token that must be saved afterwards). `deposit` and
`refund` are the provider's truth, which the program never sees directly. `job[w]`
is what worker `w` is doing; `list`, `todo`, `clock` are the loop's pass and ticker;
`age` is counted in ticks from the insert. `effects` counts how often the
emails/pool/notifications of a confirmation were started; `chargedAt` is history.

| Action | Code |
|---|---|
| `Create`, `InitiateDeposit`, `LinkDeposit` | `SaleHandler.Create`, `initiateCheckout`, `initiatePayDunyaDeposit` |
| `ReadSale`, `AskDeposit` | the reads and the provider query of `PawaPayWebhook`, PayDunya's callback, `CheckoutStatus`, `CheckSaleProvider` |
| `WritePaid`, `RunEffects` | `confirmPaidSaleUnguarded`: `UpdateStatus(paid)`, then the goroutines |
| `WriteFailed` | `SaleRepo.MarkFailed` (no condition on the status) |
| `MarkSalePaid` | `AdminHandler.MarkSalePaid`, a compare-and-set |
| `StartPass`, `ReconcileSale`, `NextList` | `RunDepositReconcileLoop`: pending sales, then recently failed ones |
| `ReadRefundable`, `InitiateRefund`, `WriteRefundPending` | `AdminHandler.RefundSale`, `SetRefundReference` |
| `ReadRefundCallback`, `AskRefund`, `WriteRefunded` | `PawaPayRefundWebhook` |
| `DepositProgress`, `RefundProgress`, `Tick`, `Crash` | buyer, provider, time, deployments |

`Report` is what the status endpoint answers, `Verdict` what each caller does with
it: a missing deposit is final for the polling page and the loop after `GraceAge`,
and never for a callback. The query and the decision that follows it are one step;
writes are steps of their own.

Abstracted: amounts, buyer and payer data, failure reasons, wording; the
200-row limit of the loop's queries (no instance gets
there; it is a listed hazard). The status `delivered` is in the column's constraint
and in a few tests of the code, but nothing writes it.

`OrderOutcome` is what the others count on: an order is placed, settled (a failed one may
still be paid) and perhaps returned, one order per step. `KeepsOutcome` maps `status` to it.
`SaleLifecycle` has the steps in between (read, ask, write) and no condition in its
writes, so the mapping is by what each worker knows, not by the shape of its actions.

### PayoutLifecycle

A payout may be sent several times, each under a new reference, so the provider's
truth is a set of transfers, each of one payout. `old` says that the row has passed the
three days after which the loop ignores it. One vendor, and every payout is
worth one unit of his earnings: this is enough to tell "within the balance" from
"one payout too many", and the code treats vendors independently.

| Action | Code |
|---|---|
| `AskBalance`, `SumPayouts`, `InsertRequest` | `PayoutHandler.Create`: two sums, then the insert |
| `CreateManual`, `CreateDirect` | `CreateManualPayout`, `CreateDirectPayout` |
| `ReadSettleable`, `Send`, `LinkTransfer` | `SettlePayoutAuto`, `RetryPayout`, `initiatePayoutWithProvider`, `SetProviderReference` / `SetPayPalBatchID` |
| `ReadReferenced`, `AskTransfer` | the callbacks of PawaPay and PayDunya, `CheckPayoutProvider` |
| `PayPalEvent` | the payout events of `PayPalWebhook`, believed once their signature is verified |
| `WritePaid`, `WriteFailed` | `PayoutRepo.UpdateStatus` (no condition) |
| `SettleManually`, `MarkRefunded` | the two compare-and-sets |
| `StartPass`, `ReconcilePayout`, `EndPass` | `RunPayoutReconcileLoop` |
| `SalesMove`, `TransferProgress`, `GrowOld`, `Crash` | sales, providers, time, deployments |

The loop keeps the *reference* of its snapshot, which a retry may replace before the
loop asks about it: `todo` is a set of pairs.

`PayoutOutcome` is the promise made to vendor and administration: money leaves again only
when nothing that left before can arrive, a payout is said failed only then, and paid only
of money that left or by hand. `KeepsPayoutOutcome` maps its variables: `outcome` is
`status`, `byHand` is `manual`, and `live` the transfers of a payout that have paid or
may still pay. In the abstract specification the decision and the money are compared at
once; in the code the decision is written from what was read before.

### Commission

Rates are in hundredths of a percent, as `NUMERIC(5,2)` stores them. `Share(a, r)`
models `int(float64(a) * r / 100)`: the exact floor, or one franc less when the
exact quotient is an integer and the double product may round below it; only rates
that are not whole percentages may do so. `UpdateCap` is the update of a product
that carries the cap without the switch, which skips the validation.

`EffectivePlatformFeePct` ignores the administrator's rate from 1,000,000 CFA up,
where the platform takes 10 %, as the code does.

### EdgeProxy, PaymentReturn, CheckoutForm, BuyerJourney

`EdgeProxy`. `kv[path]` is the count and what is left of its expiry; `hop[r]` is where
request `r` is. `GetCount` and `PutCount` are the two halves of `checkRateLimit`: the store
has no increment, so two requests may write the same number, and every write renews
`expirationTtl`. A path is the set of the fragments the code looks for with
`includes`.

`PaymentReturn`. `page` is the React state of `return-view.tsx`, `order` and `chat` what the
backend knows, `reply[r]` what it has read for a request. `Tick` is the three-second
interval, which does not wait for the previous answer; `Deliver` and `DeliverError` are
the two ends of a poll; `handleManualCheck` the button; `ReadStatus` and `ReadSession` the
handler `SaleHandler.CheckoutStatus`, whose two reads are two steps; `SettleOrder` is
whatever else may move the order, which `SaleLifecycle` details.

`CheckoutForm`. `form` is the state of either form, `config` what `getCheckoutConfig`
answered, `post` the order posted. Operators are what one country's list holds; a number
is the country it was typed under and how many digits are there. Names, logos, e-mail,
promotions and the cart are abstracted.

`BuyerJourney` composes them: `CreateOrder` (row, then deposit), `RefuseOrder`, `Redirect`,
`ShowFormError`, `Retry`, `LeaveForGood`. `lost` is history: orders whose creation was
answered by silence. `SettledAs` is what the journey supposes of the backend: the moves of
`OrderOutcome`, as far as a buyer follows them (`Followed`: an order paid and later
returned is still one that was paid). Since `SaleLifecycle` keeps to these moves only
while requests for one sale do not overlap, so do the journey's results.

### WebSession and OneRequest

`stored` and `cookie` are what the tabs of a browser share, `live` and `issued` the
refresh tokens at the backend. `refresh[<<tab, path>>]` is a refresh under way:
`"shared"` is `refreshInFlight`, `"provider"` the one `AuthProvider` makes beside it.
`AuthService.RefreshToken` is `FindRefreshToken` (the token and its user are read) and
`RotateToken` (the old token is revoked, as far as the dropped error of
`RevokeRefreshToken` allows, and a new one stored). It refuses in `DenyRefresh`, a live
token too when its days are over, its account is locked or a read failed, and in
`RotationFails`, the old token being revoked and the new one not made.
`RefreshRefused` brings such an answer, which clears the cookie; `RefreshLost`, what is
no answer of the handler: the worker's 429 or 502, the limiter's 429, a broken
connection. A page is logged out by either.

The calls are those to routes behind `RequireAuth`: `SendCall`, then `RunCall` (the
handler is entered and does its work, `runs` and `work`) or, for the calls in
`Refusing`, `TurnAway`: the handler itself answers 401 before its work, as
`VerifyPhoneFirebase` does of a token it cannot verify (`handler/auth_handler.go:402-405`;
the only handler of a page's call that does). A first 401 of either kind (`Denied`) goes
through `DeniedOnce`, and `SendAgain` or `FailWaiting` when the refresh ends. `OneRequest`
knows only how often a handler was entered and did its work and what the page was told;
its actions are `Run`, `TurnAway`, `Succeed` and `Fail`, the last of any set of calls at
once, because those that share a refresh fail together.

### Screen, Console and the screens

Every list screen is the same React machine, so its code is data: a record with the rows
(what their buttons and the backend's answer depend on), the filters, the buttons shown
on a row (`offers`, the conditions of the JSX), the handlers (when they close their
dialog, what they lock, what they do to the list) and the effects of the backend (the
guards and writes of the Go handler, with the changes callbacks and other people make).
`Console` runs one: `Click`, `Confirm`, `Cancel`, `Execute`, `Outside`, `Failed`,
`Succeeded`, `ReadList`, `ShowList`, `ReadFailed`, `ChangeTab`. `busy` is the state that
disables buttons; one variable holds one value, so a second row takes the lock of the
first, as `setBusyId` does (`TakesOver`). `thread` holds two handlers under way and the
load of a filter, each with the closure it started with. `excuse` is history: why the
page may not know the rows, or disable the right buttons (another actor, a lost answer,
two crossing handlers, an error answer that came with a change, a lock taken over).
`ConsoleAssumption` says what makes a record one: its names are declared, a handler that
does not read the list again does to its row what the backend did (`KeepsUp`), and a
button nothing disables is in `Unlocked`. TLC evaluates it on every screen.

The screens are `payouts`, `sales`, `pending-sales`, `donations`, `gateway` and its
transactions, the overview (`MoneyScreens`); `products`, `events`, `webinars`, the
summit's sponsors, `announcements`, `ads` (`CatalogScreens`); `users`, `permissions`,
`support`, `support-agents`, `vendor-mail`, `broadcast`, `automation`, `settings`,
`activity-log` (`PeopleScreens`); the vendor's earnings, ads, products, sales, events,
event editor, bundles, affiliation, notifications, shop and the closer's links
(`VendorScreens`); orders, account, support, ticket scan, codes by e-mail and telephone,
push settings (`MemberScreens`).

### PublishForm

`picked` is the picture chosen last, `key` the one whose key the form holds, `uploads`
those under way. A form is a record: does it wait for uploads, may another picture be
picked meanwhile, what does success do (leave, close, clear, stay), does the backend
refuse a second time. `handleSubmit` sends what the form holds; `Create` is the backend;
`SubmitFailed` is the catch, also of an answer that was lost (`silent`). `router.push`
returns before the page has changed while `finally` gives the button back: `Leave`, then
`Navigated`.

## 4. The runs

| Run | Module, configuration | Checks | Result |
|---|---|---|---|
| `sale_concurrent` | `MCSaleLifecycle`, `MCSale_concurrent.cfg` | `TypeOK`, `EarnedIsBacked`, `RefundIsBacked`, `RefundedIsTrue` | holds |
| `sale_serial` | `MCSaleLifecycle`, `MCSale_serial.cfg` | `ConfirmedOnce`, `KeepsOutcome`, `RefundedOnce` | holds |
| `sale_recovery` | `MCSaleLifecycle`, `MCSale_recovery.cfg` | `NoStrandedCharge`, `OutcomeReachesRow`, `PaidHasEffects` | holds |
| `sale_idempotence` | `MCSaleLifecycle`, `MCSale_idempotence.cfg` | `ConfirmIsIdempotent` | violated: finding 1 |
| `payout_concurrent` | `MCPayoutLifecycle`, `MCPayout_concurrent.cfg` | `TypeOK`, `PaidIsTrue`, `ProcessingIsSent` | holds |
| `payout_serial` | `MCPayoutLifecycle`, `MCPayout_serial.cfg` | `NoDoubleSend`, `KeepsPayoutOutcome`, `InsertWithinBalance` | holds |
| `payout_liveness` | `MCPayoutLifecycle`, `MCPayout_liveness.cfg` | `OutcomeReachesPayout` | holds |
| `payout_refund_final` | `MCPayoutLifecycle`, `MCPayout_refund_final.cfg` | `RefundedStaysOut` | violated: finding 3 |
| `commission_split` | `MCCommission`, `MCCommission_split.cfg` | `TypeOK`, `SplitAddsUp`, `ClosersPaidInFull` | holds |
| `commission_cap` | `MCCommission`, `MCCommission_cap.cfg` | `CapLeavesPlatformPart` | violated: finding 2 |
| `buyer_journey` | `MCBuyerJourney`, `MCBuyer_journey.cfg` | `TypeOK`, `PaymentsPostedAreAccepted`, `NumberOfThisCountry`, `ChargedTwiceOnlyAfterFailure`, `ScreenTellsTheTruth`, `PollsWhileUseful`, `OnePageIsNotLimited`, `WaitEnds`, `DiscussionReached` | holds |
| `web_pages` | `MCWebPages`, `MCWeb_pages.cfg` | `WebTypeOK`, `NotThrownOutForNothing`, `OfferedIsAccepted`, `OneCallAtATime`, `QuietListIsFresh`, `CoverSentIsTheOnePicked`, `TwinOnlyAfterSilence`, `CallsKeepPromise`, `LateDecisionsAreHarmless`, `CallsSettle`, `LocksAreReleased` | holds |

**Concurrent runs** switch every adversity on: `Overlap`, `Ambiguous`, `Unreachable`,
`Crashes`. They show what no interleaving can break: a status that speaks of money
(`paid`, `refunded`, a refund at the provider) is true. Two requests and the loop on
one row, with two refund identifiers or two transfers, are the least with which a
stale read, a replaced reference and a crossing confirmation all occur. More rows
would add nothing to these properties: no handler of one sale reads or writes
another's row.

**Serial runs** have `Overlap = FALSE`: a request about a sale, or about a payout,
starts when no other about the same one is in progress, and the loop starts a pass when
nobody works on a row it lists; requests about other rows go on side by side. A request
for a payout, which sums all of the vendor's, starts when nothing else of his is under
way. The properties these runs check are *false* with overlap, because the tests of the
code are not atomic with its writes; this is the code's actual guarantee, and the runs
show that it survives the rest. `sale_serial` keeps crashes, lost answers and
unreachable providers, and has a PawaPay and a PayDunya sale, which take different
branches at creation, check and refund; its windows are one tick or none.
`payout_serial` excludes lost answers and crashes as well: with either, a payout is
marked failed (or left as requested) although its transfer went out, and the next
attempt sends it again. Its three payouts are one per kind (mobile money, PayPal,
direct), its two transfers are interchangeable. Earnings of one unit are enough to
overdraw. One handler works beside the loop in both; the theorems are for any number.

**Recovery and liveness runs** use `FairSpec`. In `sale_recovery` the ages are scaled:
`ReconcileEvery` = 1, `RecheckWindow` = 3, `ReconcileMaxAge` = 4 and `MaxAge` = 5, in the
order of the real 10 minutes, 30 minutes and 3 days; `RecheckWindow` = 3 × the period
as in the code. `Prompt` says that a request ends within the tick in which it
started (30 s against 10 min). Without it `NoStrandedCharge` says nothing true: a
write delayed past the window is never looked at again. Crashes are excluded there: a
replica down through the whole window misses it.

**The buyer's journey** has one buyer, two orders (the second is the one that could be
paid too many) and two requests in flight, the least for an old answer to overtake a
new one; only the first order's page has two, the second's has one. The code's numbers are
20 automatic polls, every 3 s, and 40 polls per client with a window of 60 s renewed by each
write. They are scaled to 2 polls and a limit of 4: what matters is that the
limit is well above what one page asks, and `OnePageIsNotLimited` says for which page
this is so. The window is two ticks. Two countries are enough for a number typed
under one to be posted under another; two settings, with and without cards and codes.
`NumberOfThisCountry` is stated of settings without cards, because the card tab breaks it
(section 8). `DiscussionReached` is stated of a page with one request at a time: an old
answer without a link may otherwise take the link back after the interval was cleared.

**The pages** are a sum, not a product: a call that `fetchApi` sends again did no
work before (`CallsKeepPromise`), so a screen sees one call that is answered or lost, and the
session, a screen and a form never write each other's state. The session has two tabs,
two calls of one tab, one of which its handler may turn away, one tab that refreshes on
its own while two refresh tokens (the first and a rotated one) were issued; shared
refreshes go on rotating beyond. A screen has two rows and two decisions, among the clicks of
the page and what others do: enough for a stale decision, for two handlers to cross, for
a lock to be taken over. A few exceptions need a third and are listed all the same. A
form has two pictures and two submissions.

What the code does not promise is said by lists, in `MCWebPages`, so that a screen that
joins them is seen: `Unlocked` (buttons that stay enabled while their call runs; a
handler whose lock another row took over is the other exception of `OneCallAtATime`,
seen with three decisions), `Trusting` (the backend writes whatever the row has become),
`Refused` (buttons shown on rows the backend refuses), `Hasty` (forms that may publish
another picture than the last), `Repeatable` (forms whose button is back before the page
has left). The properties hold of everything else.

**Deadlock** is checked in the sale and payout runs. The commission runs set
`CHECK_DEADLOCK FALSE`: their rows are inserted once, and settings may repeat
themselves. So do the runs of the pages: a person may stop there, and the bounds on
decisions, pictures and submissions end a behaviour.

Other bounds: `MaxAge` saturates ages; in `sale_concurrent` `GraceAge` = 0 and
`RecheckWindow` = 0 leave each age test with both outcomes at ages 0 and 1. The
prices of `commission_split` are on both sides of the high-value threshold, with 1
(every share is 0) and 10,000 (where a rate of 0.57 % is a product doubles may
round down); the rates are at the bounds of every check and just above. Identifiers
(`Refunds`, `Transfers`) are finite; when they run out the provider refuses, which it
may always do.

## 5. Fairness

`FairSpec` adds weak fairness of: a request in progress going on (HTTP clients have
30 s timeouts, so each call returns), each worker's own writes, the loop's steps and
the clock. Weak fairness is enough because an enabled step of a worker stays enabled
until the worker takes it: jobs are not shared. Nothing is assumed of buyers,
administrators, providers or callbacks: no callback need ever arrive, no page be
polled. `Reconcile` is only assumed where the ticker is: `Tick` waits for a pass that
is due, which is how Go's ticker and a loop faster than its period behave.

`BuyerJourney` assumes that the browser's interval fires (`Tick`), that the worker
finishes with a request it has taken (`GetCount`, `PutCount`) and the backend with one
it has read (`ReadSession`), each weakly. `ReadStatus` and `Deliver` are strong: 502s
and broken connections may recur, but a network that never again brings an answer is not
the page's concern. Nothing is assumed of the buyer. `WebSession` and `Console` assume
weak fairness of each refresh, call and handler: a `fetch` ends, answered or rejected,
and `await` then resumes. Whether it ends well is left open.

The backend's liveness runs exclude crashes (a replica that always restarts in mid-pass
makes no progress) and unreachable providers (one that never answers gives no outcome).

## 6. What is proved

The theorems hold for every set of sales, payouts, handlers and identifiers, every
window and every combination of the switches, from the assumptions `SaleConstants`,
`PayoutConstants`, `CommissionConstants`, `EdgeConstants`, `ReturnConstants`,
`PollsFitTheLimit`, `FormConstants`, `JourneyConstants`, `TabsAssumption`,
`ConsoleAssumption` and `FormAssumption` only: distinguished values are outside the
sets, bounds are naturals, prices are positive, a call has a tab, a page has finitely
many requests in flight; the lists `Unlocked`, `Hasty` and `Repeatable` name every
button and form with the shape that needs it, and the records of the screens are well
formed. `PollsFitTheLimit` says that the polls of one page fit the worker's count: the
code polls 20 times and allows 40 requests a minute on `/orders/status`, which leaves
room for 21 requests in flight. Where a row states more, the theorem assumes it. TLC
evaluates every assumption on the instances of the runs.

| Theorem | Module | Statement |
|---|---|---|
| `TypeCorrect` | `SaleLifecycle_proofs` | `Spec => []TypeOK` |
| `Invariance` | `SaleLifecycle_proofs` | `Spec => []SaleInv` |
| `EarnedBacked` | `SaleLifecycle_proofs` | `Spec => []EarnedIsBacked` |
| `RefundBacked` | `SaleLifecycle_proofs` | `Spec => []RefundIsBacked` |
| `RefundedTrue` | `SaleLifecycle_proofs` | `Spec => []RefundedIsTrue` |
| `EarnedAnnounced` | `SaleLifecycle_proofs` | `~Crashes`: `Spec => []EarnedIsAnnounced` |
| `ChargesAreFound` | `SaleLifecycle_proofs` | `~Crashes`, `~Unreachable`, `Prompt`, `RecheckWindow <= ReconcileMaxAge`: `Spec => []NoStrandedCharge` |
| `TypeCorrect` | `PayoutLifecycle_proofs` | `Spec => []TypeOK` |
| `Invariance` | `PayoutLifecycle_proofs` | `Spec => []PayoutInv` |
| `PaidTrue` | `PayoutLifecycle_proofs` | `Spec => []PaidIsTrue` |
| `ProcessingSent` | `PayoutLifecycle_proofs` | `Spec => []ProcessingIsSent` |
| `SplitCorrect` | `Commission_proofs` | `Spec => [](TypeOK /\ SplitAddsUp)` |
| `TypeCorrect` | `Commission_proofs` | `Spec => []TypeOK` |
| `ClampIsFair` | `Commission_proofs` | `Spec => ClosersPaidInFull` |
| `SerialInvariance` | `SaleSerial_proofs` | `~Overlap`: `Spec => []SerialInv` |
| `AnnouncedOnce` | `SaleSerial_proofs` | `~Overlap`: `Spec => []ConfirmedOnce` |
| `OutcomeKept` | `SaleSerial_proofs` | `~Overlap`: `Spec => KeepsOutcome` (the refinement) |
| `StatusForward` | `SaleSerial_proofs` | `~Overlap`: `Spec => MovesForward` |
| `ReturnedOnce` | `SaleSerial_proofs` | `~Overlap`: `Spec => RefundedOnce` |
| `SerialInvariance` | `PayoutSerial_proofs` | `~Overlap`, `~Ambiguous`, `~Crashes`: `Spec => []SerialInv` |
| `SentOnceAtATime` | `PayoutSerial_proofs` | the same: `Spec => []NoDoubleSend` |
| `PayoutOutcomeKept` | `PayoutSerial_proofs` | the same: `Spec => KeepsPayoutOutcome` (the refinement) |
| `PaidStays` | `PayoutSerial_proofs` | the same: `Spec => PaidStaysSettled` |
| `WithinBalance` | `PayoutSerial_proofs` | the same, finitely many payouts: `Spec => InsertWithinBalance` |
| `Invariance` | `BuyerJourney_proofs` | `Spec => []JourneyInv` |
| `TruthTold` | `BuyerJourney_proofs` | `Spec => []ScreenTellsTheTruth` |
| `TwiceOnlyAfterFailure` | `BuyerJourney_proofs` | `Spec => []ChargedTwiceOnlyAfterFailure` |
| `PollsUseful` | `BuyerJourney_proofs` | `Spec => []PollsWhileUseful` |
| `EnvironmentCovered` | `BuyerJourney_proofs` | every move of `OrderOutcome` is, as followed, one of `SettledAs` |
| `OrdersKeepOutcome` | `BuyerJourney_proofs` | `Spec => Outcome!Spec` (the refinement) |
| `PaymentsAccepted` | `BuyerJourney_proofs` | `Spec => []PaymentsPostedAreAccepted` |
| `NumbersOfTheCountry` | `BuyerJourney_proofs` | `Spec => []NumberOfThisCountry` |
| `FirstVisitIsNotLimited` | `BuyerJourney_proofs` | `Spec => []OnePageIsNotLimited` |
| `Types` | `BuyerJourney_proofs` | `Spec => []TypeOK` |
| `PromiseKept` | `WebSession_proofs` | `SessionSpec => CallsKeepPromise` (the refinement) |
| `TypeCorrect` | `WebSession_proofs` | `SessionSpec => []SessionTypeOK` |
| `NobodyThrownOut` | `WebSession_proofs` | `SessionSpec => []NotThrownOutForNothing` |
| `NobodyForgotten` | `WebSession_proofs` | `SessionSpec => []WaitsOnRefresh` |
| `WebTypes` | `WebPages_proofs` | `WebSpec => []WebTypeOK` |
| `NoSecondCall` | `WebPages_proofs` | `WebSpec => []OneCallAtATime` |
| `NoOrphanLock` | `WebPages_proofs` | `WebSpec => []LocksHeld` |
| `FreshAtRest` | `WebPages_proofs` | `WebSpec => []QuietListIsFresh` |
| `FormInvariant` | `WebPages_proofs` | `FormSpec => []FormInv` |
| `CoverSent` | `WebPages_proofs` | `FormSpec => []CoverSentIsTheOnePicked` |
| `NoTwin` | `WebPages_proofs` | `FormSpec => []TwinOnlyAfterSilence` |
| `FormsOfTheSite` | `WebPages_proofs` | `WebSpec => []CoverSentIsTheOnePicked /\ []TwinOnlyAfterSilence` |

**The sale argument.** `EarnedIsBacked` is not inductive: a worker whose next step
writes `paid` may have decided so long ago. `SaleInv` adds what each worker has learnt
(`SoundJobs`: one about to write `paid` works on a backed sale; one about to record a
refund holds a refund of that sale; one about to write `refunded` holds a completed
one). What makes this stable under the other workers' steps is that the provider's
truth only grows (`Monotone`): a completed deposit stays completed, a reference once
linked stays linked, a refund never changes sale. The one step that could
take a deposit back is its initiation, so the invariant also says that the request
that created the row is the only one that initiates, once, and that the deposit is
still closed by then (`OneCreator`, and `Creating` in `SoundJob`). `RefIsOwn`,
`NoRowNoDeposit` and `TodoHasRows` link the references, rows and the loop's list to it.
The proof has one lemma per group of actions, resting on two: a bystander
stays sound, and a worker that only moves on stays sound.

**The recovery argument.** `NoStrandedCharge` speaks of a sale at the end of its window,
and a pass of the loop is many steps. `RecoveryInv` follows a charged sale that is not
earned through the pass (`Found`): between passes, it has waited since the last one at
most; on the first list, a pending one is still to be reached or in the loop's hands
(`Awaited`); on the second, the same of a failed one. The second list is the reason why
the property holds: a failure written over a payment, or decided before it, is found
there. `Recoverable` adds that a failure still to be written of a charged sale was
decided in the tick of the charge: whoever asks later hears of a payment. The hypotheses
are those of the run: replicas live and providers answer (a replica down through the
whole window misses it), requests end within a tick (`Prompt`, 30 s of timeouts against
10 min), and the window of the failed sales, 30 min, is within the loop's 3 days. The
period is arbitrary.

**The payout argument.** `PayoutInv` says that whatever reference anyone holds (the row,
a job, the loop's stale snapshot) is of a transfer of *that* payout. A retry may replace
the row's reference, but what an old reference proves remains true: if the transfer
completed, money went out for this payout. Hence `PaidIsTrue` without any lock.

**The commission argument.** `FloorBounds` shows that the quotient-and-remainder form
stays between 0 and the price when the rate is at most 100 %; the clamp bounds the
closer's part by the remainder, so the vendor's is never negative. The bound on
rates is what `UpdateSettings` and the link's column enforce, hence the invariant on
them. `ClampIsFair` is about the steps: when the platform's rate and the
link's percentage make at most the whole, the two truncated parts make at most the price, so
the clamp does not bite.

**The serial arguments.** Without overlap, what a worker read is still so when it
writes: that is `SerialInv` in both modules. `Alone` says that one worker at most has a
given sale or payout; the others may all be at work on theirs. So each step is that of
one row's worker, and a frame lemma (`OneSaleSerial`, `OnePayoutSerial`) says that it
keeps what all others know. Only the sums of a payout's request look at many rows: while
they are under way nobody else of the vendor is (`BalancingSerial`). `JobsSerial` says
what each step still knows (the status it read is the row's, no transfer may still pay
when it decides to send); `RowsSerial` ties the row to the provider (a sale's status
says whether it was announced and refunded; only the transfer a payout refers to may
still pay). The loop works on a snapshot, so `TodoSerial` says that the rows it has not
reached are as it listed them. For PayPal, which refuses a second batch under the same
identifier, `PayPalOnce` is needed: the second attempt sends nothing. `WithinBalance`
compares two cardinalities, hence the finite set.

**The refinement of `PayoutOutcome`.** A step of the program changes the status of a
payout, or its live transfers (`LiveOf`), never both. `SendIsLive` is the one delicate
step: the new transfer is the only live one because none was when the sender read the
row, and nobody else had the payout since. A transfer that fails at the provider is
`Bounce` (`ProgressIsBounce`); one that completes changes nothing, since it was live
already. The writes carry no condition, so `StepIsPromised` takes their guards from
`JobsSerial`: who is about to write "failed" knows that all transfers are dead, who is
about to write "paid" that one is not.

**The refinement of `OrderOutcome`.** Without overlap a step changes the status of one
sale, by a move forward (`StatusMoves`); `StatusForward` and `OutcomeKept` follow. The
journey's side is `EnvironmentCovered`: the moves of `OrderOutcome` are among those the
journey lets the backend make (`SettledAs`), so what is proved of the journey holds
against the lifecycle. With two requests for one sale a late `MarkFailed` may overwrite
`paid`, and a page that has said "paid" would then show a failed order: this is what the
hypothesis excludes.

**The journey's argument.** `JourneyInv` is `Shapes` (types, as far as needed),
`Whereabouts` (the page shows an order exactly while the buyer is on it, and requests
are under way only then), `Truth` and `OneOrder`. `Truth` carries the verdict back to
where it comes from: not only the page, every answer in flight, speaks of an order that
is paid, or was once failed. It is stable because a paid order stays paid and
`everFailed` only grows (`SetGrows`); so the order in which answers arrive does not
matter. `OneOrder` says that as long as no order failed and no creation was lost, there
is one order at most, and on the form only the one just created: each way back to the
form goes through a failure or a silence. `PollInv` adds that only a page that gave up
has a check by hand under way.

`FormSound` says that a form holds an operator its country shows, or none, and without
the card tab a number typed under its country, and that what is posted is acceptable; it
needs that the lists arrive once, on a form that has posted no payment by telephone. For
`OnePageIsNotLimited` polls are counted twice. On the page, `PollsCounted`: the polls it
has counted and those in flight never exceed what the interval sends before it is
cleared plus what was in flight then. At the worker, `KeyCounted`: during a first visit
without trouble the key, and every number about to be written to it, is at most the
polls answered plus those counted and not yet back; lost updates make it smaller. Both
are needed, and `PollsFitTheLimit` compares them. The renewal of the window by each
request only keeps the key longer, so the bound does not rest on the clock.

**The session's argument.** `CallsInv` says what was done for a call at each of its steps
(`Follows`): on the wire and waiting, no work, and no entry beyond the one in which its
handler may have turned it away (`Turns`). The refinement is one case per action, each
`Run`, `TurnAway`, `Succeed`, `Fail` or a stutter of `OneRequest`. `RefreshInv` says that
until something is blamed one refresh at a time presents the cookie that is live, and
every page is a signed-in one (`Undisturbed`): the backend then has no reason of the
model's to refuse it. What may be blamed is all that `blamed` is set by: a logout, the
revocation of every token, a live token refused, a rotation that failed half-way, an
error or a lost answer to a refresh, and two refreshes at a time.

**The forms' argument.** `FormInv` has a part for the forms outside `Hasty` (while an upload
is under way it is that of the picture picked last, and otherwise the key is that picture's
or a failure was told) and one for the forms outside `Repeatable` (`Single`: a draft
in the form is new, or just published and the form closed, or the backend refuses it).

**The screens' argument.** A screen is data, and the proof does not look at it: it is
for any record that is well formed (`ConsoleAssumption`). `LockInv` says that a handler
that has not ended holds its variable with its row's key, and that no other handler
holds the same variable; a second call would find its button disabled. It fails once a
lock is taken over: of two handlers of different rows, the first to end frees the lock
of the other, whose call can then be sent again. With two decisions this cannot be seen,
with three it can; hence the exception `"taken"`. `FreshInv` says, when nothing is to be
excused, that one thread at most runs, and what it `Knows`: before the answer the list
is the backend's, after it the list becomes so by what the handler does to its row
(`KeepsUp`), and what was read is what the backend lists.

**What liveness rests on.** Three liveness properties would fail silently if somebody
waited for nobody. That this cannot happen is a safety invariant, and proved.
`PaidHasEffects`: an earned sale was announced, or confirmed by hand, or the worker that
will announce it is under way (`EarnedIsAnnounced`, with overlap, provided no replica
stops; it is inductive only together with what a refund's request knows and the
provider's refunds carry, since their records count as earned). `CallsSettle`: a call
that waits, waits for a refresh under way (`WaitsOnRefresh`; every end of a refresh
wakes all its waiters, and a page sent to the login page does not forget them).
`LocksAreReleased`: a locked variable has a handler that has not ended (`LocksHeld`,
also after another row took the lock over, where `LockInv` fails). Fairness of each
request, refresh and handler does the rest.

**The sum.** A behaviour of `WebSpec` is one of the session, one of the console and one
of the forms (`Parts`), so the theorems about each part hold of the site.

## 7. What is only model-checked, and what is out of reach

Every invariant the runs check is a theorem, but one: `OfferedIsAccepted`, like the
action property `LateDecisionsAreHarmless`, compares the guards of the buttons with
those of the backend in the records of the forty-two screens. These are facts about
finite data, which TLC enumerates completely in `web_pages`; a proof would enumerate
them too, and an assumption about records from which they followed would be the
properties themselves.

`OutcomeReachesRow`, `PaidHasEffects`, `OutcomeReachesPayout`, `WaitEnds`,
`DiscussionReached`, `CallsSettle` and `LocksAreReleased` stay with TLC: liveness under
fairness (and `ENABLED`) is out of reach of the prover version used (the safety core of
three of them is proved, see above), as are induction over data and modules with
`RECURSIVE` operators. No module here needs either of the last two.

## 8. Disagreements between code and documentation

1. **A confirmation is not idempotent** (`sale_idempotence`). A comment in
   `handler/sale_handler.go:497-498` says that `ConfirmPaidSale` is a no-op on a paid
   sale. It tests the status its caller read before asking the provider: a poll
   and a callback that both read `pending` both write `paid` and both run the emails, the
   donation pool and the notifications.
2. **A cap nobody validated** (`commission_cap`). `validAffiliateConfig`
   (`handler/product_handler.go:1135`) says that a product open to closers keeps a
   cap between 0 and the vendor's part. An update that carries only the cap is not
   validated. `SplitAddsUp` still holds, thanks to the clamp.
3. **A refunded payout becomes paid again** (`payout_refund_final`). The guards of the
   callbacks and of the check button know `paid` and `failed` as final, not `refunded`,
   which migration 032 added so that the amount leaves the vendor's requested total for
   good. A repeated callback puts it back.

Noted on the way, without a run: the comments of `RefundPayout` and `MarkRefunded`
(`handler/admin_handler.go:1721-1724`, `repository/payout_repo.go:203-205`) say that the
vendor's available balance goes *down* when a payout is recognised as refunded; since the
payout leaves the requested total, the balance goes up.

Behaviours the code does not deny, seen in the models: two administrators who both read
`paid` refund a sale twice; a refund that fails at PawaPay leaves the row in
`refund_pending` for ever (no loop looks at refunds); a PayDunya sale whose reference
could not be saved is found by nothing; a lost answer to a payout leads to a second
transfer if an administrator retries it.

Of the pages and the worker:

- The return page stops its interval at the automatic limit. A check by hand, or an old
  answer, that then finds the order paid before its discussion has a `chat_url` leaves the
  page waiting for it for ever (`checkout/return/return-view.tsx:84-91` and `133-152`; the
  comment there says that polling goes on until the link arrives). While the discussion is
  waited for, the page polls without limit, and is refused with 429 in the end.
- A failed order whose charge completes later invites to pay again meanwhile: the case
  `ChargedTwiceOnlyAfterFailure` allows.
- The card tab's billing country is the country of the mobile-money tab, whose number
  is kept (`checkout/checkout-view.tsx:496`).
- The worker's count loses updates and its window is renewed by each request
  (`src/worker/src/index.ts:96-104`).
- Two tabs whose tokens expire together refresh with one cookie; the second may be refused,
  and the refusal clears the cookie for both (`src/frontend/src/lib/api.ts:39-56`,
  `handler/auth_handler.go:423`). `AuthProvider` does the same beside a call
  (`src/frontend/src/lib/auth.tsx:96-108`).
- Whatever is not a 2xx answer to a refresh logs the page out: the worker's 429 and 502
  and a lost answer (`src/frontend/src/lib/api.ts:44`). The backend also answers a read
  that failed, or a temporary lock, as an invalid token, and clears the cookie
  (`service/auth_service.go:265-285`, `handler/auth_handler.go:434-438`); so it does when
  it has revoked the old token and cannot make the new one.
- A telephone's token that cannot be verified refreshes the session, and the handler is
  entered a second time with the same token (`handler/auth_handler.go:402-405`); the
  webinars avoid a 401 there on purpose (`handler/webinar_handler.go:28-31`).
- Logging out revokes nothing: the cookie's path is `/api/auth/refresh`
  (`handler/auth_handler.go:50`), so the logout endpoint never receives it, although
  `service/auth_service.go:309` says that the session cannot be renewed any more.
- The forms in `Hasty` publish an older picture or none when submitted during an upload; those
  in `Repeatable`, a twin. A creation whose answer is lost leaves its form open: a
  manual payout may be recorded twice.
- One `busyId` for a whole list gives the first row's buttons back when a second one is used;
  the dialogs of `Unlocked` may be confirmed twice, with two notifications.
- A payout the provider refuses at once is stored as failed, but the page's `catch` does not
  read the list again (`(app)/admin/payouts/page.tsx:169-183`). A check of a payout already
  refunded may turn it paid, from the screen too.
- The sales screen offers a refund the backend refuses for PayDunya; the vendor's ads
  screen, a stop it refuses once Meta is disconnected (`handler/ad_handler.go:384`).
- The confirmation of a deletion does not ask whether the vendor withdrew it; the
  moderation of an event overwrites another administrator's decision; the settings form is saved
  whole, with what another changed meanwhile; a vendor's deletion filters the list its
  closure holds, and a filter's late answer may fill the list of another filter.
- An administrator with no permission has every permission. The phone's verification
  before a payout is a guard of the page only (`repository/user_repo.go:113-116` says
  otherwise).
- A device whose registration at the backend failed is shown as subscribed later
  (`src/frontend/src/components/notification-settings.tsx:36-54`); a member who becomes
  a vendor and whose second call fails has the role without its profile
  (`(app)/account/page.tsx:71-86`).

## 9. Not modelled

Parts with their own state that later stages take up are in the plan below. Left out for
good: provider routing (a stateless choice), the backend's own rate limits, sending of
push, SMS and mail, storage, previews and feeds (best-effort I/O), the notification bell
and the data a WebSocket refreshes (display only), components without state another part
sees, the worker's keep-alive, the deployment (the environment of the models).

Inside the screens: two loads of a filter under way at once (one is modelled), the chain
of calls of a batch button (approve every draft, mark every notification), searches and
pages of a list, wording and layout. A handler of the backend is one step there, its
reads and writes together: its interleavings are the subject of the backend's modules.
The cart, the promotions and the analytics of the checkout are left out, as are buyers
with two windows.

Inside the modelled parts: amounts and currencies, PayPal sales, text parsing (the
commission rate is saved with `Sscanf` and read with `ParseFloat`, which take different texts), the
Redis cache of the earnings page, the rows' limit in the loops' queries, several
replicas' loops (one loop; another request can take its place in every interleaving
of the safety runs).

## 10. Plan

Done: `SaleLifecycle`, `PayoutLifecycle`, `Commission`, with the safety invariants that
hold under every adversity proved, and those that hold without two requests for one row;
the recovery of charged sales and the announcement of earned ones; the refinements of
`PayoutOutcome` and of `OrderOutcome`, on which the buyer's journey rests; that journey,
and the pages behind the login, with the session's refinement of `OneRequest`, proved
for any orders, screens and forms.

Next, in order:

1. `PayPalSale`: the status query that captures, the believed events, the refund events;
   safety as for the mobile-money sales, and the declined-capture event as a question.
2. `VendorBalance`: sales, refunds and payouts composed, with the earnings cache, over
   `OrderOutcome` and `PayoutOutcome`; the displayed balance is not older than the cache's
   lifetime plus one slow reader.
3. `DonationPool` (fed by confirmations), `Gateway` (idempotent `client_ref`, daily caps,
   relay), `ProductModeration` (an approval between the read and the edit),
   `YesSession` and Summit on top of the sale's confirmation.
4. `RealtimeHub`, `VendorMail`, `AdCampaign`, the reminders' loop; delivery links, one-time
   codes and password resets as instances of one check-then-consume pattern where their
   code agrees with it.
5. Proofs: the theorems of the new modules and their refinements.

Bounds for the new runs follow the present ones: two overlapping requests on one row for
the adversarial runs, one row per kind for the serial ones, one row and the loop for
liveness. Runs that ask several questions of one instance are kept together.
