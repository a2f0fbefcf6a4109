---------------------------- MODULE SaleLifecycle ----------------------------
(***************************************************************************)
(* The life of a mobile-money sale of DIARRA, from the row inserted by the *)
(* checkout to its payment, its failure or its refund.                     *)
(*                                                                         *)
(* The sales row is read and written by handlers that run concurrently in  *)
(* several replicas: the checkout, the provider's deposit callback, the    *)
(* buyer's polling page, the administrator's "check provider", "mark paid" *)
(* and "refund" buttons, the refund callback, and one background loop.     *)
(* Every repository call is one auto-committed SQL statement and no row is *)
(* locked, so a handler reads the row, asks the provider, and writes a     *)
(* status in three separate steps: each is an action here, and the status  *)
(* a handler acts upon is the one it read.                                 *)
(*                                                                         *)
(* Covered: sales paid through PawaPay and PayDunya, which share this      *)
(* shape.  PayPal captures money inside its status query and is not        *)
(* modelled here.  Time is counted in ticks; the loop's ticker fires every *)
(* ReconcileEvery ticks and a sale remembers its age in ticks.             *)
(***************************************************************************)
EXTENDS Naturals

CONSTANTS
    Sales,            \* rows of the sales table
    PayDunyaSales,    \* those routed to PayDunya; the others go to PawaPay
    Handlers,         \* HTTP requests that may be in progress together
    Loop,             \* the goroutine of RunDepositReconcileLoop
    Refunds,          \* refund identifiers RefundSale may generate (bound)
    NoSale,           \* the absence of a sale
    NoRefund,         \* the absence of a refund identifier
    GraceAge,         \* 3 minutes: NOT_FOUND becomes final from this age on
    RecheckWindow,    \* recentFailedRecheckWindow, 30 minutes
    ReconcileMaxAge,  \* depositReconcileMaxAge, 3 days
    ReconcileEvery,   \* depositReconcileEvery, 10 minutes
    MaxAge,           \* ages saturate here (bound)
    Overlap,          \* may two requests for one sale be in progress together?
    Ambiguous,        \* may the provider act on a call whose answer is lost?
    Unreachable,      \* may a status query fail?
    Crashes,          \* may a replica die, or a database call fail, in mid-request?
    Prompt            \* does every request end within the tick it started in?

ASSUME SaleConstants ==
    /\ PayDunyaSales \subseteq Sales
    /\ NoSale \notin Sales
    /\ NoRefund \notin Refunds
    /\ Loop \notin Handlers
    /\ {GraceAge, RecheckWindow, ReconcileMaxAge, MaxAge} \subseteq Nat
    /\ ReconcileEvery \in Nat \ {0}
    /\ {Overlap, Ambiguous, Unreachable, Crashes, Prompt} \subseteq BOOLEAN

VARIABLES
    status,     \* sales.status, "none" before the insert
    linked,     \* sales.payment_reference is the one the provider knows
    manual,     \* sales.manually_confirmed_by is set
    refundRef,  \* sales.refund_reference
    age,        \* ticks since sales.created_at
    deposit,    \* what really happened to the deposit at the provider
    refund,     \* the refunds the provider knows
    job,        \* the request or loop iteration each worker is executing
    list,       \* which of its two lists the loop is walking
    todo,       \* sales of that list the loop has not reached yet
    clock,      \* ticks since the loop last woke up
    effects,    \* times the effects of a confirmation ran for a sale
    chargedAt   \* history: age at which the provider completed the deposit

rows    == <<status, linked, manual, refundRef>>
world   == <<deposit, refund, chargedAt>>
loop    == <<list, todo, clock>>
vars    == <<rows, world, loop, age, job, effects>>

-----------------------------------------------------------------------------
(* Vocabulary *)

Workers == Handlers \cup {Loop}

Statuses == {"none", "pending", "paid", "failed", "refund_pending", "refunded"}

\* closed: the provider will never take the money (never initiated, refused, or
\* the page expired); open: a payment page or prompt the buyer has not
\* answered; submitted: the operator is processing; the other two are final
\* ("failed" includes PayDunya's "cancelled").
DepositStates == {"closed", "open", "submitted", "completed", "failed"}

Ops == {"none", "create", "webhook", "poll", "check", "refund", "refundhook",
        "pending", "failed"}

\* ask: about to call the provider; link: about to write payment_reference; a
\* status name: about to write that status; effects: the row says paid, the
\* effects of the confirmation have not started.
Pcs == {"idle", "ask", "link", "paid", "failed", "effects", "refund_pending", "refunded"}

Jobs == [op: Ops, pc: Pcs, sale: Sales \cup {NoSale}, seen: Statuses,
         ref: Refunds \cup {NoRefund}]

IdleJob == [op |-> "none", pc |-> "idle", sale |-> NoSale, seen |-> "none",
            ref |-> NoRefund]

Reading(op, s) == [op |-> op, pc |-> "ask", sale |-> s, seen |-> status[s],
                   ref |-> NoRefund]

\* The loop is parked on its ticker and no request is in progress.
Quiet == list = "none" /\ \A w \in Workers : job[w] = IdleJob

\* Nobody works on sale s, and the loop is not about to.
Free(s) == s \notin todo /\ \A w \in Workers : job[w].sale # s

MayStart(w, s) == job[w] = IdleJob /\ (Overlap \/ Free(s))

\* Worker w goes on to pc; a job with nothing left to do is over.
Goto(w, pc) ==
    job' = [job EXCEPT ![w] = IF pc = "idle" THEN IdleJob ELSE [@ EXCEPT !.pc = pc]]

\* What the status endpoint answers for the reference in the row.  PawaPay learns
\* of a deposit when the buyer answers, PayDunya when the invoice is created.
Report(s) ==
    IF \/ ~linked[s] \/ deposit[s] = "closed"
       \/ deposit[s] = "open" /\ s \notin PayDunyaSales
    THEN "not_found" ELSE deposit[s]

\* Mutant: a deposit the operator has only accepted counts as paid.
Verdict_TrustsSubmitted(op, s, seen) ==
    IF Report(s) \in {"submitted", "completed"} THEN "paid" ELSE "idle"

\* Mutant: an answer "failed" is not acted upon.
Verdict_IgnoresFailure(op, s, seen) ==
    IF Report(s) = "completed" /\ seen = (IF op = "failed" THEN "failed" ELSE "pending")
    THEN "paid"
    ELSE IF Report(s) = "not_found" /\ op \in {"poll", "pending"} /\ age[s] > GraceAge
    THEN "failed"
    ELSE "idle"

\* What a worker does with the provider's answer for sale s, read in status seen:
\* the status it will write, or "idle" when it stops there.
Verdict(op, s, seen) ==
    IF Report(s) = "completed" /\ seen = (IF op = "failed" THEN "failed" ELSE "pending")
    THEN "paid"
    ELSE IF \/ Report(s) = "failed" /\ op # "failed"
            \/ Report(s) = "not_found" /\ op \in {"poll", "pending"} /\ age[s] > GraceAge
    THEN "failed"
    ELSE "idle"

-----------------------------------------------------------------------------
(* Checkout *)

\* SaleHandler.Create, up to the insert.
Create(h, s) ==
    /\ MayStart(h, s)
    /\ status[s] = "none"
    /\ status' = [status EXCEPT ![s] = "pending"]
    /\ linked' = [linked EXCEPT ![s] = s \notin PayDunyaSales]
    /\ job' = [job EXCEPT ![h] = [Reading("create", s) EXCEPT !.seen = "pending"]]
    /\ UNCHANGED <<manual, refundRef, world, loop, age, effects>>

\* initiateCheckout: the provider opens a page or prompts the phone.  An error
\* leads to MarkFailed, even when the provider did receive the call.  PawaPay is
\* given the reference of the row; PayDunya returns one, which must be saved.
InitiateDeposit(h) ==
    LET s == job[h].sale
        Opened == \E d \in {"open", "submitted"} : deposit' = [deposit EXCEPT ![s] = d]
    IN  /\ job[h].op = "create" /\ job[h].pc = "ask"
        /\ \/ Opened /\ Goto(h, IF s \in PayDunyaSales THEN "link" ELSE "idle")
           \/ Goto(h, "failed") /\ UNCHANGED deposit
           \/ Ambiguous /\ Opened /\ Goto(h, "failed")
        /\ UNCHANGED <<rows, refund, chargedAt, loop, age, effects>>

\* SetPaymentReference, also when the second call (softpay) to PayDunya failed.
LinkDeposit(h) ==
    /\ job[h].pc = "link"
    /\ linked' = [linked EXCEPT ![job[h].sale] = TRUE]
    /\ Goto(h, "idle") \/ (Ambiguous /\ Goto(h, "failed"))
    /\ UNCHANGED <<status, manual, refundRef, world, loop, age, effects>>

-----------------------------------------------------------------------------
(* Settling a pending sale *)

\* Mutant: the idempotence guard on the row is missing.
ReadSale_Unguarded(h, op, s) ==
    /\ MayStart(h, s)
    /\ status[s] # "none"
    /\ job' = [job EXCEPT ![h] = Reading(op, s)]
    /\ UNCHANGED <<rows, world, loop, age, effects>>

\* The deposit callback and the polling page go on only with a row read as
\* pending; the administrator's check also re-examines a failed PawaPay sale.
ReadSale(h, op, s) ==
    /\ MayStart(h, s)
    /\ op \in {"webhook", "poll", "check"}
    /\ \/ status[s] = "pending"
       \/ op = "check" /\ status[s] = "failed" /\ s \notin PayDunyaSales
    /\ job' = [job EXCEPT ![h] = Reading(op, s)]
    /\ UNCHANGED <<rows, world, loop, age, effects>>

\* GetDepositStatus / GetInvoiceStatus.
AskDeposit(h) ==
    /\ job[h].op \in {"webhook", "poll", "check"} /\ job[h].pc = "ask"
    /\ \/ Goto(h, Verdict(job[h].op, job[h].sale, job[h].seen))
       \/ Unreachable /\ Goto(h, "idle")
    /\ UNCHANGED <<rows, world, loop, age, effects>>

\* Mutant: a bare UpdateStatus, as in the incident of 2026-09-05.
WritePaid_StatusOnly(w) ==
    /\ job[w].pc = "paid"
    /\ status' = [status EXCEPT ![job[w].sale] = "paid"]
    /\ Goto(w, "idle")
    /\ UNCHANGED <<linked, manual, refundRef, world, loop, age, effects>>

\* confirmPaidSaleUnguarded: UpdateStatus(paid), whatever the row says by now.
WritePaid(w) ==
    /\ job[w].pc = "paid"
    /\ status' = [status EXCEPT ![job[w].sale] = "paid"]
    /\ Goto(w, "effects")
    /\ UNCHANGED <<linked, manual, refundRef, world, loop, age, effects>>

\* ... then the emails, the donation pool, the notifications, YES and Summit.
RunEffects(w) ==
    /\ job[w].pc = "effects"
    /\ effects' = [effects EXCEPT ![job[w].sale] = @ + 1]
    /\ Goto(w, "idle")
    /\ UNCHANGED <<rows, world, loop, age>>

\* SaleRepo.MarkFailed, whatever the row says by now.
WriteFailed(w) ==
    /\ job[w].pc = "failed"
    /\ status' = [status EXCEPT ![job[w].sale] = "failed"]
    /\ Goto(w, "idle")
    /\ UNCHANGED <<linked, manual, refundRef, world, loop, age, effects>>

\* Mutant: the WHERE clause of the manual confirmation loses its status test.
MarkSalePaid_AnyStatus(s) ==
    /\ Overlap \/ Free(s)
    /\ status[s] # "none"
    /\ status' = [status EXCEPT ![s] = "paid"]
    /\ manual' = [manual EXCEPT ![s] = TRUE]
    /\ UNCHANGED <<linked, refundRef, world, loop, age, job, effects>>

\* AdminHandler.MarkSalePaid: the one compare-and-set of the table.
MarkSalePaid(s) ==
    /\ Overlap \/ Free(s)
    /\ status[s] \in {"pending", "failed"}
    /\ status' = [status EXCEPT ![s] = "paid"]
    /\ manual' = [manual EXCEPT ![s] = TRUE]
    /\ UNCHANGED <<linked, refundRef, world, loop, age, job, effects>>

-----------------------------------------------------------------------------
(* Background reconciliation: the pending sales, then the recently failed ones *)

PendingList == {s \in Sales \ PayDunyaSales :
                    status[s] = "pending" /\ age[s] <= ReconcileMaxAge}

RecentFailedList == {s \in Sales \ PayDunyaSales :
                    status[s] = "failed" /\ age[s] <= RecheckWindow}

\* The ticker fires: snapshot of the pending sales.
StartPass ==
    /\ list = "none" /\ job[Loop] = IdleJob /\ clock = ReconcileEvery
    /\ Overlap \/ \A s \in PendingList : Free(s)
    /\ list' = "pending" /\ todo' = PendingList /\ clock' = 0
    /\ UNCHANGED <<rows, world, age, job, effects>>

\* The next sale of the list.  A query that fails leaves it to a later pass.
ReconcileSale(s) ==
    /\ list # "none" /\ job[Loop] = IdleJob /\ s \in todo
    /\ todo' = todo \ {s}
    /\ \E pc \in {Verdict(list, s, list)} \cup (IF Unreachable THEN {"idle"} ELSE {}) :
          job' = [job EXCEPT ![Loop] =
                    IF pc = "idle" THEN IdleJob
                    ELSE [op |-> list, pc |-> pc, sale |-> s, seen |-> list,
                          ref |-> NoRefund]]
    /\ UNCHANGED <<rows, world, list, clock, age, effects>>

\* Mutant: the recently failed sales are not rechecked (before 2026-09-11).
NextList_NoRecheck ==
    /\ list # "none" /\ job[Loop] = IdleJob /\ todo = {}
    /\ list' = "none"
    /\ UNCHANGED <<rows, world, todo, clock, age, job, effects>>

\* End of a list: reconcileRecentFailedDepositsPass follows the pending one.
NextList ==
    /\ list # "none" /\ job[Loop] = IdleJob /\ todo = {}
    /\ \/ /\ list = "pending" /\ list' = "failed" /\ todo' = RecentFailedList
          /\ Overlap \/ \A s \in RecentFailedList : Free(s)
       \/ list = "failed" /\ list' = "none" /\ UNCHANGED todo
    /\ UNCHANGED <<rows, world, clock, age, job, effects>>

-----------------------------------------------------------------------------
(* Refunds *)

\* Mutant: the refund does not look at the status of the sale.
ReadRefundable_AnyStatus(h, s) ==
    /\ MayStart(h, s)
    /\ status[s] # "none" /\ s \notin PayDunyaSales
    /\ job' = [job EXCEPT ![h] = Reading("refund", s)]
    /\ UNCHANGED <<rows, world, loop, age, effects>>

\* AdminHandler.RefundSale: only a row read as paid; PayDunya has no refund API.
ReadRefundable(h, s) ==
    /\ MayStart(h, s)
    /\ status[s] = "paid" /\ s \notin PayDunyaSales
    /\ job' = [job EXCEPT ![h] = Reading("refund", s)]
    /\ UNCHANGED <<rows, world, loop, age, effects>>

\* InitiateRefund under a fresh identifier; only an acceptance is recorded.
InitiateRefund(h) ==
    /\ job[h].op = "refund" /\ job[h].pc = "ask"
    /\ \/ \E r \in Refunds :
            /\ refund[r].sale = NoSale
            /\ refund' = [refund EXCEPT ![r] = [sale |-> job[h].sale, state |-> "submitted"]]
            /\ \/ job' = [job EXCEPT ![h].pc = "refund_pending", ![h].ref = r]
               \/ Ambiguous /\ Goto(h, "idle")
       \/ Goto(h, "idle") /\ UNCHANGED refund
    /\ UNCHANGED <<rows, deposit, chargedAt, loop, age, effects>>

\* Mutant: a status the column's CHECK constraint does not know.
WriteRefundPending_Misspelt(h) ==
    /\ job[h].pc = "refund_pending"
    /\ status' = [status EXCEPT ![job[h].sale] = "refunding"]
    /\ refundRef' = [refundRef EXCEPT ![job[h].sale] = job[h].ref]
    /\ Goto(h, "idle")
    /\ UNCHANGED <<linked, manual, world, loop, age, effects>>

\* SaleRepo.SetRefundReference: reference and status in one statement.
WriteRefundPending(h) ==
    /\ job[h].pc = "refund_pending"
    /\ status' = [status EXCEPT ![job[h].sale] = "refund_pending"]
    /\ refundRef' = [refundRef EXCEPT ![job[h].sale] = job[h].ref]
    /\ Goto(h, "idle")
    /\ UNCHANGED <<linked, manual, world, loop, age, effects>>

\* PawaPayRefundWebhook finds the sale by its current reference.
ReadRefundCallback(h, s) ==
    /\ MayStart(h, s)
    /\ refundRef[s] # NoRefund /\ status[s] # "refunded"
    /\ job' = [job EXCEPT ![h] = [Reading("refundhook", s) EXCEPT !.ref = refundRef[s]]]
    /\ UNCHANGED <<rows, world, loop, age, effects>>

\* Mutant: the callback's word is taken for the provider's answer.
AskRefund_TrustsCallback(h) ==
    /\ job[h].op = "refundhook" /\ job[h].pc = "ask"
    /\ Goto(h, "refunded")
    /\ UNCHANGED <<rows, world, loop, age, effects>>

\* GetRefundStatus: a refund that failed, or is not final, changes nothing.
AskRefund(h) ==
    /\ job[h].op = "refundhook" /\ job[h].pc = "ask"
    /\ \/ Goto(h, IF refund[job[h].ref].state = "completed" THEN "refunded" ELSE "idle")
       \/ Unreachable /\ Goto(h, "idle")
    /\ UNCHANGED <<rows, world, loop, age, effects>>

WriteRefunded(h) ==
    /\ job[h].pc = "refunded"
    /\ status' = [status EXCEPT ![job[h].sale] = "refunded"]
    /\ Goto(h, "idle")
    /\ UNCHANGED <<linked, manual, refundRef, world, loop, age, effects>>

-----------------------------------------------------------------------------
(* Environment: buyer, provider, time, deployments *)

DepositMoves == {<<"open", "submitted">>, <<"open", "closed">>, <<"open", "failed">>,
                 <<"submitted", "completed">>, <<"submitted", "failed">>}

DepositProgress(s) ==
    \E d \in DepositStates :
        /\ <<deposit[s], d>> \in DepositMoves
        /\ deposit' = [deposit EXCEPT ![s] = d]
        /\ chargedAt' = IF d = "completed" THEN [chargedAt EXCEPT ![s] = age[s]]
                        ELSE chargedAt
        /\ UNCHANGED <<rows, refund, loop, age, job, effects>>

RefundProgress(r) ==
    /\ refund[r].state = "submitted"
    /\ \E o \in {"completed", "failed"} : refund' = [refund EXCEPT ![r].state = o]
    /\ UNCHANGED <<rows, deposit, chargedAt, loop, age, job, effects>>

\* One tick.  The ticker is not missed: a pass that is due starts first.
Tick ==
    /\ Prompt => Quiet
    /\ clock < ReconcileEvery
    /\ clock' = clock + 1
    /\ age' = [s \in Sales |-> IF status[s] = "none" \/ age[s] = MaxAge THEN age[s]
                               ELSE age[s] + 1]
    /\ UNCHANGED <<rows, world, list, todo, job, effects>>

\* Worker w stops where it is: its replica is killed or its statement fails.  A
\* failed statement sends the loop to its next sale; a restarted loop has a new
\* ticker.
Crash(w) ==
    /\ Crashes
    /\ job[w] # IdleJob \/ (w = Loop /\ list # "none")
    /\ Goto(w, "idle")
    /\ \/ UNCHANGED loop
       \/ w = Loop /\ list' = "none" /\ todo' = {} /\ clock' = 0
    /\ UNCHANGED <<rows, world, age, effects>>

-----------------------------------------------------------------------------
Init ==
    /\ status = [s \in Sales |-> "none"]
    /\ linked = [s \in Sales |-> FALSE]
    /\ manual = [s \in Sales |-> FALSE]
    /\ refundRef = [s \in Sales |-> NoRefund]
    /\ age = [s \in Sales |-> 0]
    /\ deposit = [s \in Sales |-> "closed"]
    /\ refund = [r \in Refunds |-> [sale |-> NoSale, state |-> "submitted"]]
    /\ job = [w \in Workers |-> IdleJob]
    /\ list = "none" /\ todo = {} /\ clock = 0
    /\ effects = [s \in Sales |-> 0]
    /\ chargedAt = [s \in Sales |-> 0]

\* The steps a worker takes on its own once it has started.
Proceed(w) == WritePaid(w) \/ RunEffects(w) \/ WriteFailed(w)

Answer(h) ==
    \/ InitiateDeposit(h) \/ LinkDeposit(h) \/ AskDeposit(h) \/ InitiateRefund(h)
    \/ WriteRefundPending(h) \/ AskRefund(h) \/ WriteRefunded(h)

Request(h) ==
    \E s \in Sales :
        \/ Create(h, s)
        \/ \E op \in {"webhook", "poll", "check"} : ReadSale(h, op, s)
        \/ ReadRefundable(h, s)
        \/ ReadRefundCallback(h, s)

Reconcile == StartPass \/ NextList \/ \E s \in Sales : ReconcileSale(s)

Next ==
    \/ \E h \in Handlers : Request(h) \/ Answer(h)
    \/ \E w \in Workers : Proceed(w) \/ Crash(w)
    \/ \E s \in Sales : MarkSalePaid(s) \/ DepositProgress(s)
    \/ \E r \in Refunds : RefundProgress(r)
    \/ Reconcile
    \/ Tick

Spec == Init /\ [][Next]_vars

\* Requests end (30 s client timeouts), the loop and the clock go on.  Nothing
\* is assumed of buyers, administrators, providers or callbacks.
Fairness ==
    /\ \A h \in Handlers : WF_vars(Answer(h))
    /\ \A w \in Workers : WF_vars(Proceed(w))
    /\ WF_vars(Reconcile)
    /\ WF_vars(Tick)

FairSpec == Spec /\ Fairness

-----------------------------------------------------------------------------
(* Properties *)

\* Every variable has its type: the row, the provider's truth, the workers.
TypeOK ==
    /\ status \in [Sales -> Statuses]
    /\ linked \in [Sales -> BOOLEAN]
    /\ manual \in [Sales -> BOOLEAN]
    /\ refundRef \in [Sales -> Refunds \cup {NoRefund}]
    /\ age \in [Sales -> 0..MaxAge]
    /\ deposit \in [Sales -> DepositStates]
    /\ refund \in [Refunds -> [sale: Sales \cup {NoSale},
                               state: {"submitted", "completed", "failed"}]]
    /\ job \in [Workers -> Jobs]
    /\ list \in {"none", "pending", "failed"}
    /\ todo \subseteq Sales
    /\ clock \in 0..ReconcileEvery
    /\ effects \in [Sales -> Nat]
    /\ chargedAt \in [Sales -> 0..MaxAge]

\* Someone stands behind the payment: the provider took the money under the
\* reference of the row, or an administrator said so.
Backed(s) == (linked[s] /\ deposit[s] = "completed") \/ manual[s]

\* A sale counts as earned (or as earned and returned) only if it is backed,
\* whatever callbacks, polls, checks and passes overlap: callbacks are wake-up
\* calls and every confirmation re-asks the provider.
EarnedIsBacked ==
    \A s \in Sales : status[s] \in {"paid", "refund_pending", "refunded"} => Backed(s)

\* No money goes back to a buyer for a sale nobody paid: a refund the provider
\* knows belongs to a backed sale, even when the row changed after the
\* administrator's request read it.
RefundIsBacked ==
    \A r \in Refunds : refund[r].sale # NoSale => Backed(refund[r].sale)

\* "refunded" is only written over a refund that the provider completed for this
\* very sale, although a second refund may have replaced refund_reference
\* between the callback's read and its write.
RefundedIsTrue ==
    \A s \in Sales : status[s] = "refunded" =>
        \E r \in Refunds : refund[r].sale = s /\ refund[r].state = "completed"

\* A sale whose refund was recorded is not refunded again, whatever was lost or
\* interrupted before the record.  (Requests for one sale that do not overlap; two
\* administrators who both read "paid" refund twice.)
RefundedOnce ==
    [][\A r \in Refunds :
          refund[r].sale = NoSale /\ refund'[r].sale # NoSale
            => refundRef[refund'[r].sale] = NoRefund]_refund

\* The buyer and the vendor of a sale are told of its payment once: by the
\* provider's confirmation, with which the donation pool grows, or by the
\* administrator's, which only sends the e-mails; never by both.  (Requests for
\* one sale that do not overlap.)
ConfirmedOnce ==
    \A s \in Sales : effects[s] + (IF manual[s] THEN 1 ELSE 0) <= 1

\* The status only moves forward; the one way back is a failed sale whose money
\* did arrive.  (Requests for one sale that do not overlap.)
ForwardMoves ==
    {<<"none", "pending">>, <<"pending", "paid">>, <<"pending", "failed">>,
     <<"failed", "paid">>, <<"paid", "refund_pending">>,
     <<"refund_pending", "refunded">>}

MovesForward ==
    [][\A s \in Sales : status'[s] = status[s] \/ <<status[s], status'[s]>> \in ForwardMoves]_status

\* What buyer, vendor and administrators may count on: one step decides of one sale,
\* a paid one was pending or failed before, and only a refund takes it out of that
\* state.  The writes carry no condition; that they keep this promise rests on what
\* each worker has read.  (Requests for one sale that do not overlap.)
Outcome == INSTANCE OrderOutcome WITH Orders <- Sales, outcome <- status

KeepsOutcome == Outcome!Spec

\* ConfirmPaidSale does nothing for a sale that is already paid, as the comment
\* of CheckoutStatus has it.
ConfirmIsIdempotent ==
    [][\A w \in Workers : WritePaid(w) => status[job[w].sale] # "paid"]_vars

\* A buyer whose money was taken early enough is not left with a failed or
\* forgotten order: once the recheck window has closed, a PawaPay deposit that
\* completed at least one reconciliation period (and the tick in progress)
\* before the end of the window is an earned sale.
NoStrandedCharge ==
    \A s \in Sales \ PayDunyaSales :
        /\ deposit[s] = "completed"
        /\ chargedAt[s] + ReconcileEvery < RecheckWindow
        /\ age[s] > RecheckWindow
        => status[s] \in {"paid", "refund_pending", "refunded"}

\* A PawaPay sale whose outcome the provider knows does not stay pending, with
\* no callback and nobody polling, as long as a pass can still see it.
OutcomeReachesRow ==
    \A s \in Sales \ PayDunyaSales :
        (/\ status[s] = "pending" /\ deposit[s] \in {"completed", "failed"}
         /\ age[s] + ReconcileEvery < ReconcileMaxAge)
            ~> status[s] # "pending"

\* A sale the loop or a callback confirmed has its effects run: nobody sees
\* "paid" without the emails, the pool and the notifications being started.
PaidHasEffects ==
    \A s \in Sales : (status[s] = "paid" /\ ~manual[s]) ~> effects[s] > 0

=============================================================================
