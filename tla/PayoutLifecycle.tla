--------------------------- MODULE PayoutLifecycle ---------------------------
(***************************************************************************)
(* The life of a payout of DIARRA, from a vendor's request (or an          *)
(* administrator's) to its payment, its failure or its refund, and the     *)
(* balance it is drawn from.                                               *)
(*                                                                         *)
(* As for sales, every repository call is one auto-committed statement: a  *)
(* request reads the row, calls the provider, then writes, in steps that   *)
(* other requests and the reconciliation loop may separate.  Unlike a      *)
(* deposit, a payout may be sent several times: each attempt at PawaPay or *)
(* PayDunya has a new reference and is a transfer of its own here.         *)
(*                                                                         *)
(* One vendor; every payout is worth one unit of his earnings.             *)
(***************************************************************************)
EXTENDS Naturals, FiniteSets

CONSTANTS
    Payouts,        \* rows of the payouts table
    DirectPayouts,  \* those an administrator sends to a third party, in his name
    PayPalPayouts,  \* those sent through PayPal
    Handlers,       \* HTTP requests that may be in progress together
    Loop,           \* the goroutine of RunPayoutReconcileLoop
    Transfers,      \* provider references that may be generated (bound)
    NoPayout,
    NoTransfer,
    MaxEarned,      \* bound on the vendor's earnings
    Overlap,        \* may two requests for one payout, or for the balance and
                    \* anything of the vendor, be in progress together?
    Ambiguous,      \* may the provider act on a call whose answer is lost?
    Unreachable,    \* may a status query fail?
    Crashes         \* may a replica die, or a statement fail, in mid-request?

ASSUME PayoutConstants ==
    /\ DirectPayouts \subseteq Payouts /\ PayPalPayouts \subseteq Payouts
    /\ NoPayout \notin Payouts
    /\ NoTransfer \notin Transfers
    /\ Loop \notin Handlers
    /\ MaxEarned \in Nat
    /\ {Overlap, Ambiguous, Unreachable, Crashes} \subseteq BOOLEAN

VARIABLES
    status,     \* payouts.status, "none" before the insert
    ref,        \* payouts.provider_reference
    manual,     \* payouts.is_manual
    old,        \* requested more than payoutReconcileMaxAge (3 days) ago
    earned,     \* units of vendor_amount_cfa over the vendor's paid sales
    transfer,   \* the transfers the providers know
    job,        \* the request or loop iteration each worker is executing
    walking,    \* is the loop inside a pass?
    todo        \* rows of the pass not reached yet, with the reference they had

rows == <<status, ref, manual>>
loop == <<walking, todo>>
vars == <<rows, old, earned, transfer, job, loop>>

-----------------------------------------------------------------------------
(* Vocabulary *)

Workers == Handlers \cup {Loop}

Statuses == {"none", "requested", "processing", "paid", "failed", "refunded"}

Ops == {"none", "create", "direct", "settle", "retry", "webhook", "check", "event", "pass"}

\* list: about to sum the payouts; insert: about to insert the row; send, ask:
\* about to call the provider; link: about to save the reference; paid, failed:
\* about to write that status.
Pcs == {"idle", "list", "insert", "send", "link", "ask", "paid", "failed"}

Jobs == [op: Ops, pc: Pcs, payout: Payouts \cup {NoPayout},
         ref: Transfers \cup {NoTransfer}, room: 0..MaxEarned]

IdleJob == [op |-> "none", pc |-> "idle", payout |-> NoPayout, ref |-> NoTransfer,
            room |-> 0]

\* A request of the vendor has summed his balance and not used it yet.
Summing == \E w \in Workers : job[w].pc \in {"list", "insert"}

Quiet == todo = {} /\ \A w \in Workers : job[w] = IdleJob

\* Nobody works on payout p, the pass is not about to, and no balance is being
\* summed that p may be part of.
Free(p) ==
    /\ \A t \in Transfers : <<p, t>> \notin todo
    /\ \A w \in Workers : job[w].payout # p
    /\ ~Summing

MayStart(w, p) == job[w] = IdleJob /\ (Overlap \/ Free(p))

Begin(w, op, pc, p) ==
    job' = [job EXCEPT ![w] = [op |-> op, pc |-> pc, payout |-> p, ref |-> ref[p], room |-> 0]]

Goto(w, pc) ==
    job' = [job EXCEPT ![w] = IF pc = "idle" THEN IdleJob ELSE [@ EXCEPT !.pc = pc]]

TransfersOf(p) == {t \in Transfers : transfer[t].payout = p}

\* What the rows of the vendor hold back from his earnings.
Committed ==
    Cardinality({p \in Payouts \ DirectPayouts : status[p] \notin {"none", "failed", "refunded"}})

\* Mutant: a transfer the provider has only accepted counts as completed.
Verdict_TrustsAccepted(t) ==
    IF transfer[t].state \in {"submitted", "completed"} THEN "paid" ELSE "failed"

\* What to write once the provider has answered for transfer t.
Verdict(t) ==
    IF transfer[t].state = "completed" THEN "paid"
    ELSE IF transfer[t].state = "failed" THEN "failed"
    ELSE "idle"

-----------------------------------------------------------------------------
(* Requests for a payout *)

\* PayoutHandler.Create: totalEarned first ...
AskBalance(h) ==
    /\ job[h] = IdleJob /\ (Overlap \/ Quiet)
    /\ job' = [job EXCEPT ![h] = [IdleJob EXCEPT !.op = "create", !.pc = "list",
                                                 !.room = earned]]
    /\ UNCHANGED <<rows, old, earned, transfer, loop>>

\* Mutant: the comparison is off by one.
SumPayouts_OffByOne(h) ==
    /\ job[h].pc = "list"
    /\ Goto(h, IF job[h].room >= Committed THEN "insert" ELSE "idle")
    /\ UNCHANGED <<rows, old, earned, transfer, loop>>

\* ... then the payouts already requested ...
SumPayouts(h) ==
    /\ job[h].pc = "list"
    /\ Goto(h, IF job[h].room > Committed THEN "insert" ELSE "idle")
    /\ UNCHANGED <<rows, old, earned, transfer, loop>>

\* ... then the insert, which nothing ties to the two sums.  (It fails when the
\* bound on rows is reached.)
InsertRequest(h) ==
    /\ job[h].pc = "insert"
    /\ LET fresh == {p \in Payouts \ DirectPayouts : status[p] = "none"}
       IN  \/ \E p \in fresh : status' = [status EXCEPT ![p] = "requested"]
           \/ fresh = {} /\ UNCHANGED status
    /\ Goto(h, "idle")
    /\ UNCHANGED <<ref, manual, old, earned, transfer, loop>>

\* AdminHandler.CreateManualPayout: a payment already made elsewhere.
CreateManual(p) ==
    /\ Overlap \/ Free(p)
    /\ p \notin DirectPayouts /\ status[p] = "none"
    /\ status' = [status EXCEPT ![p] = "paid"]
    /\ manual' = [manual EXCEPT ![p] = TRUE]
    /\ UNCHANGED <<ref, old, earned, transfer, job, loop>>

\* AdminHandler.CreateDirectPayout: the row, then the call to the provider.
CreateDirect(h, p) ==
    /\ MayStart(h, p)
    /\ p \in DirectPayouts /\ status[p] = "none"
    /\ status' = [status EXCEPT ![p] = "requested"]
    /\ Begin(h, "direct", "send", p)
    /\ UNCHANGED <<ref, manual, old, earned, transfer, loop>>

-----------------------------------------------------------------------------
(* Sending the money *)

\* Mutant: a payout still in progress may be sent again.
ReadSettleable_InProgress(h, p) ==
    /\ MayStart(h, p)
    /\ \/ status[p] \in {"requested", "processing"} /\ Begin(h, "settle", "send", p)
       \/ status[p] = "failed" /\ Begin(h, "retry", "send", p)
    /\ UNCHANGED <<rows, old, earned, transfer, loop>>

\* SettlePayoutAuto and RetryPayout.
ReadSettleable(h, p) ==
    /\ MayStart(h, p)
    /\ \/ status[p] = "requested" /\ Begin(h, "settle", "send", p)
       \/ status[p] = "failed" /\ Begin(h, "retry", "send", p)
    /\ UNCHANGED <<rows, old, earned, transfer, loop>>

\* PayPal takes one batch per sender_batch_id, which is made of the payout's id;
\* the other providers are given a new identifier each time.
Accepts(p) == p \in PayPalPayouts => TransfersOf(p) = {}

\* initiatePayoutWithProvider: a refusal and a lost answer look the same.
Send(h) ==
    LET p == job[h].payout
        Sent(t) == /\ Accepts(p) /\ transfer[t].payout = NoPayout
                   /\ transfer' = [transfer EXCEPT ![t] = [payout |-> p, state |-> "submitted"]]
    IN  /\ job[h].pc = "send"
        /\ \/ \E t \in Transfers :
                 Sent(t) /\ job' = [job EXCEPT ![h].pc = "link", ![h].ref = t]
           \/ Goto(h, "failed") /\ UNCHANGED transfer
           \/ Ambiguous /\ Goto(h, "failed") /\ \E t \in Transfers : Sent(t)
        /\ UNCHANGED <<rows, old, earned, loop>>

\* Mutant: the reference is not saved.
LinkTransfer_StatusOnly(h) ==
    /\ job[h].pc = "link"
    /\ status' = [status EXCEPT ![job[h].payout] = "processing"]
    /\ Goto(h, "idle")
    /\ UNCHANGED <<ref, manual, old, earned, transfer, loop>>

\* SetProviderReference and SetPayPalBatchID: whatever the row says by now.
LinkTransfer(h) ==
    /\ job[h].pc = "link"
    /\ ref' = [ref EXCEPT ![job[h].payout] = job[h].ref]
    /\ status' = [status EXCEPT ![job[h].payout] = "processing"]
    /\ Goto(h, "idle")
    /\ UNCHANGED <<manual, old, earned, transfer, loop>>

-----------------------------------------------------------------------------
(* Recording the outcome *)

\* Mutant: the guard on settled rows is missing.
ReadReferenced_Unguarded(h, op, p) ==
    /\ MayStart(h, p)
    /\ ref[p] # NoTransfer
    /\ Begin(h, op, "ask", p)
    /\ UNCHANGED <<rows, old, earned, transfer, loop>>

\* The callbacks of PawaPay and PayDunya find the row by its current reference,
\* CheckPayoutProvider reads the reference from the row; both leave alone a row
\* read as paid or failed, and only those.
ReadReferenced(h, op, p) ==
    /\ MayStart(h, p)
    /\ ref[p] # NoTransfer /\ status[p] \notin {"paid", "failed"}
    /\ op = "check" \/ p \notin PayPalPayouts
    /\ Begin(h, op, "ask", p)
    /\ UNCHANGED <<rows, old, earned, transfer, loop>>

\* GetPayoutStatus, GetDisbursementStatus, GetPayoutBatch.
AskTransfer(h) ==
    /\ job[h].pc = "ask"
    /\ \/ Goto(h, Verdict(job[h].ref))
       \/ Unreachable /\ Goto(h, "idle")
    /\ UNCHANGED <<rows, old, earned, transfer, loop>>

\* PayPal signs its events: one about an item is believed without a query, and
\* the row is found by its own id.
PayPalEvent(h, p, t) ==
    /\ MayStart(h, p)
    /\ p \in PayPalPayouts /\ transfer[t].payout = p
    /\ transfer[t].state # "submitted"
    /\ status[p] \notin {"none", "paid", "failed"}
    /\ Begin(h, "event", Verdict(t), p)
    /\ UNCHANGED <<rows, old, earned, transfer, loop>>

\* Mutant: a status the column's CHECK constraint does not know.
WritePaid_Misspelt(w) ==
    /\ job[w].pc = "paid"
    /\ status' = [status EXCEPT ![job[w].payout] = "completed"]
    /\ Goto(w, "idle")
    /\ UNCHANGED <<ref, manual, old, earned, transfer, loop>>

\* PayoutRepo.UpdateStatus, whatever the row says by now.
WritePaid(w) ==
    /\ job[w].pc = "paid"
    /\ status' = [status EXCEPT ![job[w].payout] = "paid"]
    /\ Goto(w, "idle")
    /\ UNCHANGED <<ref, manual, old, earned, transfer, loop>>

WriteFailed(w) ==
    /\ job[w].pc = "failed"
    /\ status' = [status EXCEPT ![job[w].payout] = "failed"]
    /\ Goto(w, "idle")
    /\ UNCHANGED <<ref, manual, old, earned, transfer, loop>>

\* PayoutRepo.SettleManually: a compare-and-set.
SettleManually(p) ==
    /\ Overlap \/ Free(p)
    /\ status[p] \in {"requested", "processing", "failed"}
    /\ status' = [status EXCEPT ![p] = "paid"]
    /\ manual' = [manual EXCEPT ![p] = TRUE]
    /\ UNCHANGED <<ref, old, earned, transfer, job, loop>>

\* PayoutRepo.MarkRefunded: a compare-and-set.
MarkRefunded(p) ==
    /\ Overlap \/ Free(p)
    /\ status[p] \in {"paid", "failed"}
    /\ status' = [status EXCEPT ![p] = "refunded"]
    /\ UNCHANGED <<ref, manual, old, earned, transfer, job, loop>>

-----------------------------------------------------------------------------
(* Background reconciliation *)

\* Mutant: the age test of the query is the wrong way round.
ListProcessing_OldOnly ==
    {<<p, ref[p]>> : p \in {q \in Payouts : /\ status[q] = "processing" /\ old[q]
                                           /\ ref[q] # NoTransfer}}

ListProcessing ==
    {<<p, ref[p]>> : p \in {q \in Payouts : /\ status[q] = "processing" /\ ~old[q]
                                           /\ ref[q] # NoTransfer}}

\* The ticker fires: snapshot of the payouts in progress.
StartPass ==
    /\ job[Loop] = IdleJob /\ ~walking
    /\ Overlap \/ \A pt \in ListProcessing : Free(pt[1])
    /\ walking' = TRUE /\ todo' = ListProcessing
    /\ UNCHANGED <<rows, old, earned, transfer, job>>

\* The next row of the pass, under the reference it had in the snapshot; a query
\* that fails leaves it to a later pass.
ReconcilePayout(p, t) ==
    /\ walking /\ job[Loop] = IdleJob /\ <<p, t>> \in todo
    /\ todo' = todo \ {<<p, t>>}
    /\ \E pc \in {Verdict(t)} \cup (IF Unreachable THEN {"idle"} ELSE {}) :
          job' = [job EXCEPT ![Loop] =
                    IF pc = "idle" THEN IdleJob
                    ELSE [IdleJob EXCEPT !.op = "pass", !.pc = pc, !.payout = p, !.ref = t]]
    /\ UNCHANGED <<rows, old, earned, transfer, walking>>

EndPass ==
    /\ walking /\ job[Loop] = IdleJob /\ todo = {}
    /\ walking' = FALSE
    /\ UNCHANGED <<rows, old, earned, transfer, job, todo>>

-----------------------------------------------------------------------------
(* Environment: sales, providers, time, deployments *)

\* A sale of the vendor is paid, or leaves "paid" for a refund.
SalesMove ==
    /\ Overlap \/ ~Summing
    /\ earned' \in {n \in 0..MaxEarned : n = earned + 1 \/ n + 1 = earned}
    /\ UNCHANGED <<rows, old, transfer, job, loop>>

TransferProgress(t) ==
    /\ transfer[t].payout # NoPayout /\ transfer[t].state = "submitted"
    /\ \E o \in {"completed", "failed"} : transfer' = [transfer EXCEPT ![t].state = o]
    /\ UNCHANGED <<rows, old, earned, job, loop>>

GrowOld(p) ==
    /\ status[p] # "none" /\ ~old[p]
    /\ old' = [old EXCEPT ![p] = TRUE]
    /\ UNCHANGED <<rows, earned, transfer, job, loop>>

\* A request is cut off by a crash or a failed statement; a restart also ends
\* the pass in progress.
Crash(w) ==
    /\ Crashes
    /\ job[w] # IdleJob \/ (w = Loop /\ walking)
    /\ Goto(w, "idle")
    /\ \/ UNCHANGED loop
       \/ w = Loop /\ walking' = FALSE /\ todo' = {}
    /\ UNCHANGED <<rows, old, earned, transfer>>

-----------------------------------------------------------------------------
Init ==
    /\ status = [p \in Payouts |-> "none"]
    /\ ref = [p \in Payouts |-> NoTransfer]
    /\ manual = [p \in Payouts |-> FALSE]
    /\ old = [p \in Payouts |-> FALSE]
    /\ earned = 0
    /\ transfer = [t \in Transfers |-> [payout |-> NoPayout, state |-> "submitted"]]
    /\ job = [w \in Workers |-> IdleJob]
    /\ walking = FALSE /\ todo = {}

Request(h) ==
    \/ AskBalance(h)
    \/ \E p \in Payouts :
        \/ CreateDirect(h, p) \/ ReadSettleable(h, p)
        \/ \E op \in {"webhook", "check"} : ReadReferenced(h, op, p)
        \/ \E t \in Transfers : PayPalEvent(h, p, t)

Answer(h) ==
    SumPayouts(h) \/ InsertRequest(h) \/ Send(h) \/ LinkTransfer(h) \/ AskTransfer(h)

Proceed(w) == WritePaid(w) \/ WriteFailed(w)

Reconcile ==
    \/ StartPass \/ EndPass
    \/ \E p \in Payouts, t \in Transfers : ReconcilePayout(p, t)

Next ==
    \/ \E h \in Handlers : Request(h) \/ Answer(h)
    \/ \E w \in Workers : Proceed(w) \/ Crash(w)
    \/ \E p \in Payouts : CreateManual(p) \/ SettleManually(p) \/ MarkRefunded(p) \/ GrowOld(p)
    \/ \E t \in Transfers : TransferProgress(t)
    \/ Reconcile
    \/ SalesMove

Spec == Init /\ [][Next]_vars

\* Requests end (30 s client timeouts) and the ticker keeps firing.  Nothing is
\* assumed of vendors, administrators, providers or callbacks.
Fairness ==
    /\ \A h \in Handlers : WF_vars(Answer(h))
    /\ \A w \in Workers : WF_vars(Proceed(w))
    /\ WF_vars(Reconcile)

FairSpec == Spec /\ Fairness

-----------------------------------------------------------------------------
(* Properties *)

\* Every variable has its type; the statuses are those of migration 032.
TypeOK ==
    /\ status \in [Payouts -> Statuses]
    /\ ref \in [Payouts -> Transfers \cup {NoTransfer}]
    /\ manual \in [Payouts -> BOOLEAN]
    /\ old \in [Payouts -> BOOLEAN]
    /\ earned \in 0..MaxEarned
    /\ transfer \in [Transfers -> [payout: Payouts \cup {NoPayout},
                                   state: {"submitted", "completed", "failed"}]]
    /\ job \in [Workers -> Jobs]
    /\ walking \in BOOLEAN
    /\ todo \subseteq Payouts \X Transfers

\* A vendor is told "paid" only when money went out for that payout: a transfer
\* of it completed, or an administrator settled it, although the loop acts on a
\* reference that a retry may have replaced.
PaidIsTrue ==
    \A p \in Payouts : status[p] = "paid" =>
        manual[p] \/ \E t \in TransfersOf(p) : transfer[t].state = "completed"

\* A payout in progress can be followed: its reference is that of a transfer made
\* for it, so that a callback, a check or the loop will find its outcome.
ProcessingIsSent ==
    \A p \in Payouts : status[p] = "processing" => ref[p] \in TransfersOf(p)

\* The money of a payout is sent once at a time: a new attempt is made only when
\* the earlier ones have failed.  (Requests for one payout that do not overlap, no
\* lost answer, no crash.)
Live(t) == transfer[t].payout # NoPayout /\ transfer[t].state # "failed"

NoDoubleSend ==
    \A t1, t2 \in Transfers :
        Live(t1) /\ Live(t2) /\ transfer[t1].payout = transfer[t2].payout => t1 = t2

\* A payout that was paid is never announced as failed, nor sent again: the one
\* way out of "paid" is the administrator's refund.  (Same assumptions; an
\* administrator may settle by hand a payout whose transfer then fails.)
PaidStaysSettled ==
    [][\A p \in Payouts : status[p] = "paid" => status'[p] \in {"paid", "refunded"}]_status

\* What vendor and administration may count on: money leaves again, and "failed" is
\* said, only when nothing that left before can arrive; "paid" only of money that
\* left, or by hand.  The writes carry no condition; that they keep this promise
\* rests on what each worker has read.  (Same assumptions.)
Outcome == INSTANCE PayoutOutcome
               WITH outcome <- status, byHand <- manual,
                    live <- [p \in Payouts |-> {t \in TransfersOf(p) : Live(t)}]

KeepsPayoutOutcome == Outcome!Spec

\* A request is recorded only within the balance: what the vendor's rows hold
\* back, with it, does not exceed what his paid sales earned.  (Same assumptions;
\* nothing else of the vendor moves between the sums and the insert.)
InsertWithinBalance ==
    [][\A p \in Payouts \ DirectPayouts :
          status[p] = "none" /\ status'[p] = "requested"
            => Cardinality({q \in Payouts \ DirectPayouts :
                              status'[q] \in {"requested", "processing", "paid"}}) <= earned'
      ]_status

\* A payout whose outcome the provider knows does not stay in progress, with no
\* callback and nobody checking, as long as a pass can still see it.
OutcomeReachesPayout ==
    \A p \in Payouts :
        (status[p] = "processing" /\ ref[p] # NoTransfer /\ transfer[ref[p]].state # "submitted")
            ~> (status[p] # "processing" \/ old[p])

\* A refunded payout no longer counts in what the vendor has requested, as
\* migration 032 and model.Payout have it.
RefundedStaysOut ==
    [][\A p \in Payouts : status[p] = "refunded" => status'[p] \in {"refunded", "failed"}]_status

=============================================================================
