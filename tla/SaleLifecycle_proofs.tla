------------------------ MODULE SaleLifecycle_proofs ------------------------
(***************************************************************************)
(* Type correctness, safety and recovery of SaleLifecycle, for any number  *)
(* of sales, requests and refunds, and for every setting of the clock and  *)
(* of the adversity (overlap, lost answers, crashes); confirmations and    *)
(* recovery for the settings their theorems name.                          *)
(***************************************************************************)
EXTENDS SaleLifecycle, TLAPS

JobsOK == job \in [Workers -> Jobs]

-----------------------------------------------------------------------------
(* Lemmas about the vocabulary *)

\* Handlers and the loop are workers.
LEMMA WorkersAre == /\ Loop \in Workers
                    /\ \A h \in Handlers : h \in Workers
  BY DEF Workers

\* The idle job is a job.
LEMMA IdleIsJob == IdleJob \in Jobs
  BY DEF IdleJob, Jobs, Ops, Pcs, Statuses

\* A request that has just read a row holds a job, the one Reading describes.
LEMMA ReadingIsJob ==
  ASSUME NEW op \in Ops, NEW s \in Sales, status \in [Sales -> Statuses]
  PROVE  /\ Reading(op, s) \in Jobs
         /\ Reading(op, s).op = op /\ Reading(op, s).pc = "ask"
         /\ Reading(op, s).sale = s /\ Reading(op, s).ref = NoRefund
  BY DEF Reading, Jobs, Pcs, Statuses

\* Going on changes the job of one worker, and of that job the pc only.
LEMMA GotoStep ==
  ASSUME JobsOK, NEW w \in Workers, NEW pc \in Pcs, Goto(w, pc)
  PROVE  /\ job' \in [Workers -> Jobs]
         /\ \A v \in Workers : v # w => job'[v] = job[v]
         /\ pc = "idle" => job'[w] = IdleJob
         /\ pc # "idle" => /\ job'[w].pc = pc
                           /\ job'[w].op = job[w].op
                           /\ job'[w].sale = job[w].sale
                           /\ job'[w].ref = job[w].ref
  <1>1. job[w] \in Jobs
    BY DEF JobsOK
  <1>2. [job[w] EXCEPT !.pc = pc] \in Jobs
    BY <1>1 DEF Jobs
  <1>3. job' = [job EXCEPT ![w] = IF pc = "idle" THEN IdleJob
                                  ELSE [job[w] EXCEPT !.pc = pc]]
    BY DEF Goto
  <1> QED
    BY <1>1, <1>2, <1>3, IdleIsJob DEF JobsOK, Jobs

\* An answer leads to a payment only if the deposit completed, and to nothing
\* that is not a payment, a failure or a stop.
LEMMA VerdictIsSound ==
  ASSUME NEW op, NEW s \in Sales, NEW seen
  PROVE  /\ Verdict(op, s, seen) \in {"paid", "failed", "idle"}
         /\ Verdict(op, s, seen) = "paid" => linked[s] /\ deposit[s] = "completed"
  BY DEF Verdict, Report

-----------------------------------------------------------------------------
(* Type correctness *)

\* TypeOK holds initially.
LEMMA InitTypeOK == Init => TypeOK
  BY SaleConstants, IdleIsJob DEF Init, TypeOK, Statuses, DepositStates

\* The request steps of a handler (checkout, callbacks, buttons) keep the types.
LEMMA RequestTypeOK ==
  ASSUME TypeOK, NEW h \in Handlers, Request(h)
  PROVE  TypeOK'
  <1> USE DEF TypeOK
  <1>h. h \in Workers
    BY WorkersAre
  <1> PICK s \in Sales : \/ Create(h, s)
                         \/ \E op \in {"webhook", "poll", "check"} : ReadSale(h, op, s)
                         \/ ReadRefundable(h, s)
                         \/ ReadRefundCallback(h, s)
    BY DEF Request
  <1>1. CASE Create(h, s)
    <2>1. [Reading("create", s) EXCEPT !.seen = "pending"] \in Jobs
      BY ReadingIsJob DEF Ops, Jobs, Statuses
    <2>2. status' \in [Sales -> Statuses] /\ linked' \in [Sales -> BOOLEAN]
      BY <1>1 DEF Create, Statuses
    <2> QED
      BY <1>1, <1>h, <2>1, <2>2 DEF Create, rows, world, loop
  <1>2. ASSUME NEW op \in {"webhook", "poll", "check"}, ReadSale(h, op, s)
        PROVE  TypeOK'
    <2>1. Reading(op, s) \in Jobs
      BY ReadingIsJob DEF Ops
    <2> QED
      BY <1>2, <1>h, <2>1 DEF ReadSale, rows, world, loop
  <1>3. CASE ReadRefundable(h, s)
    <2>1. Reading("refund", s) \in Jobs
      BY ReadingIsJob DEF Ops
    <2> QED
      BY <1>3, <1>h, <2>1 DEF ReadRefundable, rows, world, loop
  <1>4. CASE ReadRefundCallback(h, s)
    <2>1. [Reading("refundhook", s) EXCEPT !.ref = refundRef[s]] \in Jobs
      <3>1. Reading("refundhook", s) \in Jobs
        BY ReadingIsJob DEF Ops
      <3>2. refundRef[s] \in Refunds \cup {NoRefund}
        OBVIOUS
      <3> QED
        BY <3>1, <3>2 DEF Jobs
    <2> QED
      BY <1>4, <1>h, <2>1 DEF ReadRefundCallback, rows, world, loop
  <1> QED
    BY <1>1, <1>2, <1>3, <1>4

\* The steps in which a handler hears from a provider or writes its conclusion.
LEMMA AnswerTypeOK ==
  ASSUME TypeOK, NEW h \in Handlers, Answer(h)
  PROVE  TypeOK'
  <1> USE DEF TypeOK, JobsOK
  <1>h. h \in Workers
    BY WorkersAre
  <1>j. job[h] \in Jobs
    BY <1>h
  <1>1. CASE InitiateDeposit(h)
    <2>1. job' \in [Workers -> Jobs]
      BY <1>1, <1>h, GotoStep DEF InitiateDeposit, Pcs
    <2>2. deposit' \in [Sales -> DepositStates]
      BY <1>1 DEF InitiateDeposit, DepositStates
    <2> QED
      BY <1>1, <2>1, <2>2 DEF InitiateDeposit, rows, loop
  <1>2. CASE LinkDeposit(h)
    <2>1. job' \in [Workers -> Jobs]
      BY <1>2, <1>h, GotoStep DEF LinkDeposit, Pcs
    <2> QED
      BY <1>2, <2>1 DEF LinkDeposit, world, loop
  <1>3. CASE AskDeposit(h)
    <2>1. PICK pc : pc \in {Verdict(job[h].op, job[h].sale, job[h].seen), "idle"} /\ Goto(h, pc)
      BY <1>3 DEF AskDeposit
    <2>2. pc \in Pcs
      BY <2>1 DEF Pcs, Verdict
    <2>3. job' \in [Workers -> Jobs]
      BY <2>1, <2>2, <1>h, GotoStep
    <2> QED
      BY <1>3, <2>3 DEF AskDeposit, rows, world, loop
  <1>4. CASE InitiateRefund(h)
    <2>1. job' \in [Workers -> Jobs]
      <3>1. CASE Goto(h, "idle")
        BY <3>1, <1>h, GotoStep DEF Pcs
      <3>2. ASSUME NEW r \in Refunds,
                   job' = [job EXCEPT ![h].pc = "refund_pending", ![h].ref = r]
            PROVE  job' \in [Workers -> Jobs]
        BY <3>2, <1>h, <1>j DEF Jobs, Pcs
      <3> QED
        BY <1>4, <3>1, <3>2 DEF InitiateRefund
    <2>2. refund' \in [Refunds -> [sale: Sales \cup {NoSale},
                                   state: {"submitted", "completed", "failed"}]]
      BY <1>4, <1>j DEF InitiateRefund, Jobs
    <2> QED
      BY <1>4, <2>1, <2>2 DEF InitiateRefund, rows, loop
  <1>5. CASE WriteRefundPending(h)
    <2>1. job' \in [Workers -> Jobs]
      BY <1>5, <1>h, GotoStep DEF WriteRefundPending, Pcs
    <2>2. refundRef' \in [Sales -> Refunds \cup {NoRefund}] /\ status' \in [Sales -> Statuses]
      BY <1>5, <1>j DEF WriteRefundPending, Jobs, Statuses
    <2> QED
      BY <1>5, <2>1, <2>2 DEF WriteRefundPending, world, loop
  <1>6. CASE AskRefund(h)
    <2>1. PICK pc \in {"refunded", "idle"} : Goto(h, pc)
      BY <1>6 DEF AskRefund
    <2>2. job' \in [Workers -> Jobs]
      BY <2>1, <1>h, GotoStep DEF Pcs
    <2> QED
      BY <1>6, <2>2 DEF AskRefund, rows, world, loop
  <1>7. CASE WriteRefunded(h)
    <2>1. job' \in [Workers -> Jobs]
      BY <1>7, <1>h, GotoStep DEF WriteRefunded, Pcs
    <2>2. status' \in [Sales -> Statuses]
      BY <1>7 DEF WriteRefunded, Statuses
    <2> QED
      BY <1>7, <2>1, <2>2 DEF WriteRefunded, world, loop
  <1> QED
    BY <1>1, <1>2, <1>3, <1>4, <1>5, <1>6, <1>7 DEF Answer

\* The writes every worker makes, and its crashes.
LEMMA ProceedTypeOK ==
  ASSUME TypeOK, NEW w \in Workers, Proceed(w) \/ Crash(w)
  PROVE  TypeOK'
  <1> USE DEF TypeOK, JobsOK
  <1>1. CASE WritePaid(w)
    <2>1. job' \in [Workers -> Jobs]
      BY <1>1, GotoStep DEF WritePaid, Pcs
    <2>2. status' \in [Sales -> Statuses]
      BY <1>1 DEF WritePaid, Statuses
    <2> QED
      BY <1>1, <2>1, <2>2 DEF WritePaid, world, loop
  <1>2. CASE RunEffects(w)
    <2>1. job' \in [Workers -> Jobs]
      BY <1>2, GotoStep DEF RunEffects, Pcs
    <2>2. effects' \in [Sales -> Nat]
      <3>1. effects' = [s \in Sales |-> IF s = job[w].sale THEN effects[s] + 1 ELSE effects[s]]
        BY <1>2 DEF RunEffects
      <3>2. \A s \in Sales : effects[s] \in Nat /\ effects[s] + 1 \in Nat
        OBVIOUS
      <3> QED
        BY <3>1, <3>2
    <2> QED
      BY <1>2, <2>1, <2>2 DEF RunEffects, rows, world, loop
  <1>3. CASE WriteFailed(w)
    <2>1. job' \in [Workers -> Jobs]
      BY <1>3, GotoStep DEF WriteFailed, Pcs
    <2>2. status' \in [Sales -> Statuses]
      BY <1>3 DEF WriteFailed, Statuses
    <2> QED
      BY <1>3, <2>1, <2>2 DEF WriteFailed, world, loop
  <1>4. CASE Crash(w)
    <2>1. job' \in [Workers -> Jobs]
      BY <1>4, GotoStep DEF Crash, Pcs
    <2> QED
      BY <1>4, <2>1, SaleConstants DEF Crash, rows, world, loop
  <1> QED
    BY <1>1, <1>2, <1>3, <1>4 DEF Proceed

\* The loop, the administrator's confirmation, the provider and the clock.
LEMMA OtherTypeOK ==
  ASSUME TypeOK,
         \/ Reconcile \/ Tick
         \/ \E s \in Sales : MarkSalePaid(s) \/ DepositProgress(s)
         \/ \E r \in Refunds : RefundProgress(r)
  PROVE  TypeOK'
  <1> USE DEF TypeOK, JobsOK
  <1>1. CASE StartPass
    BY <1>1, SaleConstants DEF StartPass, PendingList, rows, world
  <1>2. CASE NextList
    BY <1>2 DEF NextList, RecentFailedList, rows, world
  <1>3. ASSUME NEW s \in Sales, ReconcileSale(s)
        PROVE  TypeOK'
    <2>1. PICK pc \in {Verdict(list, s, list), "idle"} :
             job' = [job EXCEPT ![Loop] =
                       IF pc = "idle" THEN IdleJob
                       ELSE [op |-> list, pc |-> pc, sale |-> s, seen |-> list,
                             ref |-> NoRefund]]
      BY <1>3 DEF ReconcileSale
    <2>2. pc \in Pcs
      BY <2>1, VerdictIsSound DEF Pcs
    <2>3. list \in Ops /\ list \in Statuses
      BY <1>3 DEF ReconcileSale, Ops, Statuses
    <2>4. job' \in [Workers -> Jobs]
      BY <2>1, <2>2, <2>3, IdleIsJob, WorkersAre DEF Jobs
    <2> QED
      BY <1>3, <2>4 DEF ReconcileSale, rows, world
  <1>4. CASE Tick
    <2>1. clock' \in 0..ReconcileEvery
      BY <1>4, SaleConstants DEF Tick
    <2>2. age' \in [Sales -> 0..MaxAge]
      <3>1. age' = [s \in Sales |-> IF status[s] = "none" \/ age[s] = MaxAge THEN age[s]
                                    ELSE age[s] + 1]
        BY <1>4 DEF Tick
      <3>2. ASSUME NEW s \in Sales
            PROVE  (IF status[s] = "none" \/ age[s] = MaxAge THEN age[s]
                    ELSE age[s] + 1) \in 0..MaxAge
        <4>1. age[s] \in 0..MaxAge /\ MaxAge \in Nat
          BY SaleConstants
        <4> HIDE DEF TypeOK
        <4> QED
          BY <4>1
      <3> QED
        BY <3>1, <3>2
    <2> QED
      BY <1>4, <2>1, <2>2 DEF Tick, rows, world
  <1>5. ASSUME NEW s \in Sales, MarkSalePaid(s)
        PROVE  TypeOK'
    BY <1>5 DEF MarkSalePaid, Statuses, world, loop
  <1>6. ASSUME NEW s \in Sales, DepositProgress(s)
        PROVE  TypeOK'
    BY <1>6 DEF DepositProgress, rows, loop
  <1>7. ASSUME NEW r \in Refunds, RefundProgress(r)
        PROVE  TypeOK'
    BY <1>7 DEF RefundProgress, rows, loop
  <1> QED
    BY <1>1, <1>2, <1>3, <1>4, <1>5, <1>6, <1>7 DEF Reconcile

\* Every step keeps the types.
LEMMA NextTypeOK == TypeOK /\ [Next]_vars => TypeOK'
  <1> SUFFICES ASSUME TypeOK, [Next]_vars
               PROVE  TypeOK'
    OBVIOUS
  <1>1. CASE UNCHANGED vars
    BY <1>1 DEF TypeOK, vars, rows, world, loop
  <1>2. CASE Next
    BY <1>2, RequestTypeOK, AnswerTypeOK, ProceedTypeOK, OtherTypeOK DEF Next
  <1> QED
    BY <1>1, <1>2

\* Every variable of the sale machine keeps its type, whatever overlaps or fails:
\* no status outside the column's CHECK constraint is ever written.
THEOREM TypeCorrect == Spec => []TypeOK
  BY InitTypeOK, NextTypeOK, PTL DEF Spec

-----------------------------------------------------------------------------
(* Safety.  EarnedIsBacked is not inductive: it rests on what the workers have *)
(* read, and on the fact that only the request that created a sale may open a  *)
(* deposit for it, and only once.                                              *)

Creating(w) == job[w].op = "create" /\ job[w].pc = "ask"

\* What a worker is about to write is justified by what it has learnt.
SoundJob(w) ==
  LET j == job[w]
  IN  /\ j.pc # "idle" => j.sale \in Sales /\ status[j.sale] # "none"
      /\ Creating(w) => deposit[j.sale] = "closed"
      /\ j.pc = "paid" \/ (j.op = "refund" /\ j.pc = "ask") => Backed(j.sale)
      /\ j.pc = "refund_pending" \/ (j.op = "refundhook" /\ j.pc = "ask") =>
            j.ref \in Refunds /\ refund[j.ref].sale = j.sale
      /\ j.pc = "refunded" =>
            /\ j.ref \in Refunds /\ refund[j.ref].sale = j.sale
            /\ refund[j.ref].state = "completed"

SoundJobs == \A w \in Workers : SoundJob(w)

OneCreator == \A v, w \in Workers :
                Creating(v) /\ Creating(w) /\ job[v].sale = job[w].sale => v = w

\* A sale without a row has no deposit.
NoRowNoDeposit == \A s \in Sales : status[s] = "none" => deposit[s] = "closed" /\ ~manual[s]

\* refund_reference is a refund of that sale.
RefIsOwn == \A s \in Sales : refundRef[s] # NoRefund => refund[refundRef[s]].sale = s

\* The loop walks over rows that exist.
TodoHasRows == \A s \in todo : status[s] # "none"

\* The inductive invariant.
SaleInv ==
  /\ TypeOK
  /\ EarnedIsBacked /\ RefundIsBacked /\ RefundedIsTrue
  /\ SoundJobs /\ OneCreator /\ NoRowNoDeposit /\ RefIsOwn
  /\ TodoHasRows

\* What no step ever takes back.
Monotone ==
  /\ \A s \in Sales : Backed(s) => Backed(s)'
  /\ \A s \in Sales : status[s] # "none" => status'[s] # "none"
  /\ \A r \in Refunds : refund[r].sale # NoSale =>
        /\ refund'[r].sale = refund[r].sale
        /\ refund[r].state = "completed" => refund'[r].state = "completed"

\* A worker that is not concerned by a step stays sound.
LEMMA BystanderStaysSound ==
  ASSUME SaleInv, Monotone, NEW w \in Workers, job'[w] = job[w],
         Creating(w) => deposit'[job[w].sale] = deposit[job[w].sale]
  PROVE  SoundJob(w)'
  <1>1. SoundJob(w) /\ job[w] \in Jobs
    BY DEF SaleInv, SoundJobs, TypeOK
  <1>2. job[w].sale \in Sales => job[w].sale # NoSale
    BY SaleConstants
  <1>3. Creating(w)' <=> Creating(w)
    BY DEF Creating
  <1> QED
    BY <1>1, <1>2, <1>3 DEF SoundJob, Monotone, Jobs, Creating

\* A worker that goes on is sound if what it will write is justified, and it no
\* longer may open a deposit.
LEMMA WorkerStaysSound ==
  ASSUME SaleInv, Monotone, NEW w \in Workers, NEW pc \in Pcs \ {"ask"}, Goto(w, pc),
         pc # "idle" => job[w].pc # "idle",
         \A s \in Sales : pc = "paid" /\ s = job[w].sale => Backed(s)',
         pc # "refund_pending",
         pc = "refunded" => /\ job[w].ref \in Refunds
                            /\ refund'[job[w].ref].sale = job[w].sale
                            /\ refund'[job[w].ref].state = "completed"
  PROVE  /\ SoundJob(w)' /\ ~Creating(w)'
         /\ \A v \in Workers : v # w => job'[v] = job[v]
  <1>1. JobsOK
    BY DEF SaleInv, TypeOK, JobsOK
  <1>2. /\ \A v \in Workers : v # w => job'[v] = job[v]
        /\ pc = "idle" => job'[w] = IdleJob
        /\ pc # "idle" => /\ job'[w].pc = pc
                          /\ job'[w].op = job[w].op
                          /\ job'[w].sale = job[w].sale
                          /\ job'[w].ref = job[w].ref
    BY <1>1, GotoStep
  <1>3. CASE pc = "idle"
    BY <1>2, <1>3 DEF SoundJob, Creating, IdleJob
  <1>4. CASE pc # "idle"
    <2>1. job[w].sale \in Sales /\ status'[job[w].sale] # "none"
      BY <1>4 DEF SaleInv, SoundJobs, SoundJob, Monotone
    <2>2. ~Creating(w)'
      BY <1>2, <1>4 DEF Creating
    <2>3. job'[w].pc = "paid" => Backed(job[w].sale)'
      <3>1. SUFFICES ASSUME pc = "paid"
                     PROVE  Backed(job[w].sale)'
        BY <1>2, <1>4
      <3>2. PICK s \in Sales : s = job[w].sale
        BY <2>1
      <3>3. Backed(s)'
        BY <3>1, <3>2
      <3> QED
        BY <1>2, <1>4, <3>2, <3>3 DEF Backed
    <2>4. job'[w].pc = "refunded" =>
             /\ job'[w].ref \in Refunds /\ refund'[job'[w].ref].sale = job'[w].sale
             /\ refund'[job'[w].ref].state = "completed"
      BY <1>2, <1>4
    <2> QED
      BY <1>2, <1>4, <2>1, <2>2, <2>3, <2>4 DEF SoundJob
  <1> QED
    BY <1>2, <1>3, <1>4

\* No second creator appears when the jobs that change do not create.
LEMMA CreatorStaysAlone ==
  ASSUME SaleInv, NEW w \in Workers, ~Creating(w)',
         \A v \in Workers : v # w => job'[v] = job[v]
  PROVE  OneCreator'
  BY DEF SaleInv, OneCreator, Creating

\* A step that leaves the rows and the provider alone preserves the invariant
\* when the job it changes is sound.
LEMMA LocalStep ==
  ASSUME SaleInv, TypeOK', UNCHANGED <<rows, deposit, refund>>, todo' \subseteq todo,
         NEW w \in Workers,
         \A v \in Workers : v # w => job'[v] = job[v],
         SoundJob(w)', ~Creating(w)'
  PROVE  SaleInv'
  <1>1. Monotone
    BY DEF Monotone, Backed, rows
  <1>2. /\ EarnedIsBacked' /\ RefundIsBacked' /\ RefundedIsTrue'
        /\ NoRowNoDeposit' /\ RefIsOwn' /\ TodoHasRows'
    BY DEF SaleInv, EarnedIsBacked, RefundIsBacked, RefundedIsTrue, NoRowNoDeposit, RefIsOwn,
           TodoHasRows, Backed, rows
  <1>3. SoundJobs'
    BY <1>1, BystanderStaysSound DEF SoundJobs
  <1>4. OneCreator'
    BY CreatorStaysAlone
  <1> QED
    BY <1>2, <1>3, <1>4 DEF SaleInv

\* A step that leaves the rows, the provider and the jobs alone.
LEMMA SilentStep ==
  ASSUME SaleInv, TypeOK', UNCHANGED <<rows, deposit, refund, job>>,
         \A s \in todo' : status[s] # "none"
  PROVE  SaleInv'
  BY DEF SaleInv, TodoHasRows, EarnedIsBacked, RefundIsBacked, RefundedIsTrue, NoRowNoDeposit, RefIsOwn,
         SoundJobs, SoundJob, OneCreator, Creating, Backed, rows

\* Reading a row, or hearing from a provider, preserves the invariant.
LEMMA ReadPreserves ==
  ASSUME SaleInv, TypeOK', NEW h \in Handlers, NEW s \in Sales,
         \/ \E op \in {"webhook", "poll", "check"} : ReadSale(h, op, s)
         \/ ReadRefundable(h, s)
         \/ ReadRefundCallback(h, s)
  PROVE  SaleInv'
  <1>h. h \in Workers /\ job \in [Workers -> Jobs] /\ status \in [Sales -> Statuses]
    BY WorkersAre DEF SaleInv, TypeOK
  <1>1. ASSUME NEW op \in {"webhook", "poll", "check"}, ReadSale(h, op, s)
        PROVE  SaleInv'
    <2>1. job'[h] = Reading(op, s) /\ \A v \in Workers : v # h => job'[v] = job[v]
      BY <1>1, <1>h DEF ReadSale
    <2>2. UNCHANGED <<rows, deposit, refund, todo>> /\ status[s] # "none"
      BY <1>1 DEF ReadSale, world, loop
    <2>3. SoundJob(h)' /\ ~Creating(h)'
      BY <2>1, <2>2 DEF Reading, SoundJob, Creating, rows
    <2> QED
      BY <1>h, <2>1, <2>2, <2>3, LocalStep
  <1>2. CASE ReadRefundable(h, s)
    <2>1. job'[h] = Reading("refund", s) /\ \A v \in Workers : v # h => job'[v] = job[v]
      BY <1>2, <1>h DEF ReadRefundable
    <2>2. UNCHANGED <<rows, deposit, refund, todo>> /\ status[s] = "paid"
      BY <1>2 DEF ReadRefundable, world, loop
    <2>3. Backed(s)
      BY <2>2 DEF SaleInv, EarnedIsBacked
    <2>4. SoundJob(h)' /\ ~Creating(h)'
      BY <2>1, <2>2, <2>3 DEF Reading, SoundJob, Creating, Backed, rows
    <2> QED
      BY <1>h, <2>1, <2>2, <2>4, LocalStep
  <1>3. CASE ReadRefundCallback(h, s)
    <2>1. /\ job'[h] = [Reading("refundhook", s) EXCEPT !.ref = refundRef[s]]
          /\ \A v \in Workers : v # h => job'[v] = job[v]
      BY <1>3, <1>h DEF ReadRefundCallback
    <2>2. UNCHANGED <<rows, deposit, refund, todo>> /\ refundRef[s] # NoRefund
      BY <1>3 DEF ReadRefundCallback, world, loop
    <2>3. refundRef[s] \in Refunds /\ refund[refundRef[s]].sale = s
      BY <2>2 DEF SaleInv, RefIsOwn, TypeOK
    <2>4. status[s] # "none"
      <3>1. Backed(s)
        BY <2>3, SaleConstants DEF SaleInv, RefundIsBacked
      <3> QED
        BY <3>1 DEF SaleInv, NoRowNoDeposit, Backed
    <2>5. /\ job'[h].op = "refundhook" /\ job'[h].pc = "ask" /\ job'[h].sale = s
          /\ job'[h].ref = refundRef[s]
      BY <2>1 DEF Reading
    <2>6. SoundJob(h)' /\ ~Creating(h)'
      BY <2>2, <2>3, <2>4, <2>5 DEF SoundJob, Creating, rows
    <2> QED
      BY <1>h, <2>1, <2>2, <2>6, LocalStep
  <1> QED
    BY <1>1, <1>2, <1>3

\* So does what a worker concludes without writing.
LEMMA ConcludePreserves ==
  ASSUME SaleInv, TypeOK', NEW w \in Workers,
         \/ AskDeposit(w) \/ AskRefund(w) \/ RunEffects(w) \/ Crash(w)
  PROVE  SaleInv'
  <1>u. UNCHANGED <<rows, deposit, refund>> /\ todo' \subseteq todo
    BY DEF AskDeposit, AskRefund, RunEffects, Crash, world, loop
  <1>m. Monotone
    BY <1>u DEF Monotone, Backed, rows
  <1>s. job[w].pc # "idle" => job[w].sale \in Sales
    BY DEF SaleInv, SoundJobs, SoundJob
  <1>1. CASE AskDeposit(w)
    <2>1. PICK pc : /\ pc \in {Verdict(job[w].op, job[w].sale, job[w].seen), "idle"}
                    /\ Goto(w, pc)
      BY <1>1 DEF AskDeposit
    <2>2. job[w].pc = "ask" /\ job[w].sale \in Sales
      BY <1>1, <1>s DEF AskDeposit
    <2>3. /\ pc \in {"paid", "failed", "idle"}
          /\ pc = "paid" => linked[job[w].sale] /\ deposit[job[w].sale] = "completed"
      BY <2>1, <2>2, VerdictIsSound
    <2>4. \A s \in Sales : pc = "paid" /\ s = job[w].sale => Backed(s)'
      BY <2>3, <1>m DEF Backed, Monotone
    <2>5. pc \in Pcs \ {"ask"}
      BY <2>3 DEF Pcs
    <2>6. /\ SoundJob(w)' /\ ~Creating(w)'
          /\ \A v \in Workers : v # w => job'[v] = job[v]
      BY <1>m, <2>1, <2>2, <2>3, <2>4, <2>5, WorkerStaysSound
    <2> QED
      BY <1>u, <2>6, LocalStep
  <1>2. CASE AskRefund(w)
    <2>1. PICK pc \in {"refunded", "idle"} :
             /\ Goto(w, pc)
             /\ pc = "refunded" => refund[job[w].ref].state = "completed"
      BY <1>2 DEF AskRefund
    <2>2. job[w].ref \in Refunds /\ refund[job[w].ref].sale = job[w].sale /\ job[w].pc = "ask"
      BY <1>2 DEF AskRefund, SaleInv, SoundJobs, SoundJob
    <2>3. pc \in Pcs \ {"ask"}
      BY <2>1 DEF Pcs
    <2>4. /\ SoundJob(w)' /\ ~Creating(w)'
          /\ \A v \in Workers : v # w => job'[v] = job[v]
      BY <1>u, <1>m, <2>1, <2>2, <2>3, WorkerStaysSound
    <2> QED
      BY <1>u, <2>4, LocalStep
  <1>3. CASE RunEffects(w) \/ Crash(w)
    <2>1. Goto(w, "idle")
      BY <1>3 DEF RunEffects, Crash
    <2>2. /\ SoundJob(w)' /\ ~Creating(w)'
          /\ \A v \in Workers : v # w => job'[v] = job[v]
      BY <1>m, <2>1, WorkerStaysSound DEF Pcs
    <2> QED
      BY <1>u, <2>2, LocalStep
  <1> QED
    BY <1>1, <1>2, <1>3

\* So does a pass of the loop.
LEMMA ReconcilePreserves ==
  ASSUME SaleInv, TypeOK', Reconcile
  PROVE  SaleInv'
  <1>1. CASE StartPass
    BY <1>1, SilentStep DEF StartPass, PendingList, world
  <1>2. CASE NextList
    <2>1. \A s \in todo' : status[s] # "none"
      BY <1>2 DEF NextList, RecentFailedList
    <2> QED
      BY <1>2, <2>1, SilentStep DEF NextList, world
  <1>3. ASSUME NEW s \in Sales, ReconcileSale(s)
        PROVE  SaleInv'
    <2>u. UNCHANGED <<rows, deposit, refund>> /\ todo' \subseteq todo
      BY <1>3 DEF ReconcileSale, world
    <2>w. Loop \in Workers /\ job \in [Workers -> Jobs] /\ list # "refundhook" /\ list # "refund"
      BY WorkersAre DEF SaleInv, TypeOK
    <2>1. PICK pc \in {Verdict(list, s, list), "idle"} :
             job' = [job EXCEPT ![Loop] =
                       IF pc = "idle" THEN IdleJob
                       ELSE [op |-> list, pc |-> pc, sale |-> s, seen |-> list,
                             ref |-> NoRefund]]
      BY <1>3 DEF ReconcileSale
    <2>2. pc \in {"paid", "failed", "idle"} /\ (pc = "paid" => Backed(s))
      BY <2>1, VerdictIsSound DEF Backed
    <2>3. status[s] # "none"
      BY <1>3 DEF ReconcileSale, SaleInv, TodoHasRows
    <2>4. /\ \A v \in Workers : v # Loop => job'[v] = job[v]
          /\ pc = "idle" => job'[Loop] = IdleJob
          /\ pc # "idle" => job'[Loop].pc = pc /\ job'[Loop].op = list /\ job'[Loop].sale = s
      BY <2>1, <2>w
    <2>5. SoundJob(Loop)' /\ ~Creating(Loop)'
      BY <2>u, <2>2, <2>3, <2>4 DEF SoundJob, Creating, Backed, IdleJob, rows
    <2> QED
      BY <2>u, <2>w, <2>4, <2>5, LocalStep
  <1> QED
    BY <1>1, <1>2, <1>3 DEF Reconcile

\* Writing the row of one sale preserves the invariant when the new row is true
\* and the writer stays sound.
LEMMA RowWrite ==
  ASSUME SaleInv, TypeOK', Monotone, NEW w \in Workers, NEW s \in Sales,
         UNCHANGED <<deposit, refund, todo, manual>>,
         \A x \in Sales \ {s} : status'[x] = status[x] /\ refundRef'[x] = refundRef[x],
         status'[s] # "none",
         status'[s] \in {"paid", "refund_pending", "refunded"} => Backed(s)',
         status'[s] = "refunded" =>
            \E r \in Refunds : refund[r].sale = s /\ refund[r].state = "completed",
         refundRef'[s] # NoRefund => refund[refundRef'[s]].sale = s,
         \A v \in Workers : v # w => job'[v] = job[v],
         SoundJob(w)', ~Creating(w)'
  PROVE  SaleInv'
  <1>1. EarnedIsBacked'
    BY DEF SaleInv, EarnedIsBacked, Monotone
  <1>2. RefundIsBacked'
    <2> SUFFICES ASSUME NEW r \in Refunds, refund[r].sale # NoSale
                 PROVE  Backed(refund[r].sale)'
      BY DEF RefundIsBacked
    <2>1. refund[r].sale \in Sales /\ Backed(refund[r].sale)
      BY DEF SaleInv, TypeOK, RefundIsBacked
    <2>2. PICK x \in Sales : x = refund[r].sale
      BY <2>1
    <2>3. Backed(x)'
      BY <2>1, <2>2 DEF Monotone
    <2> QED
      BY <2>2, <2>3 DEF Backed
  <1>3. RefundedIsTrue' /\ RefIsOwn'
    BY DEF SaleInv, RefundedIsTrue, RefIsOwn
  <1>4. NoRowNoDeposit' /\ TodoHasRows'
    BY DEF SaleInv, NoRowNoDeposit, TodoHasRows, TypeOK, Monotone
  <1>5. SoundJobs'
    BY BystanderStaysSound DEF SoundJobs
  <1>6. OneCreator'
    BY CreatorStaysAlone
  <1> QED
    BY <1>1, <1>2, <1>3, <1>4, <1>5, <1>6 DEF SaleInv

\* The writes of a worker: payment, failure, reference, refund.
LEMMA WritePreserves ==
  ASSUME SaleInv, TypeOK', NEW w \in Workers,
         \/ WritePaid(w) \/ WriteFailed(w) \/ LinkDeposit(w)
         \/ WriteRefundPending(w) \/ WriteRefunded(w)
  PROVE  SaleInv'
  <1> DEFINE s == job[w].sale
  <1>t. status \in [Sales -> Statuses] /\ linked \in [Sales -> BOOLEAN]
        /\ refundRef \in [Sales -> Refunds \cup {NoRefund}]
    BY DEF SaleInv, TypeOK
  <1>j. SoundJob(w) /\ job[w].pc # "idle"
    BY DEF SaleInv, SoundJobs, WritePaid, WriteFailed, LinkDeposit, WriteRefundPending, WriteRefunded
  <1>s. s \in Sales /\ status[s] # "none"
    BY <1>j DEF SoundJob
  <1>u. UNCHANGED <<deposit, refund, todo, manual>>
    BY DEF WritePaid, WriteFailed, LinkDeposit, WriteRefundPending, WriteRefunded, world, loop
  <1>l. \A x \in Sales : linked[x] => linked'[x]
    BY <1>t DEF WritePaid, WriteFailed, LinkDeposit, WriteRefundPending, WriteRefunded
  <1>o. /\ \A x \in Sales \ {s} : status'[x] = status[x] /\ refundRef'[x] = refundRef[x]
        /\ status'[s] # "none"
    BY <1>s, <1>t DEF WritePaid, WriteFailed, LinkDeposit, WriteRefundPending, WriteRefunded
  <1>m. Monotone
    BY <1>u, <1>l, <1>o, <1>s DEF Monotone, Backed
  <1>1. \E pc \in {"idle", "effects", "failed"} : Goto(w, pc)
    BY DEF WritePaid, WriteFailed, LinkDeposit, WriteRefundPending, WriteRefunded
  <1>2. /\ SoundJob(w)' /\ ~Creating(w)'
        /\ \A v \in Workers : v # w => job'[v] = job[v]
    BY <1>1, <1>j, <1>m, WorkerStaysSound DEF Pcs
  <1>3. status'[s] \in {"paid", "refund_pending", "refunded"} => Backed(s)
    <2>1. CASE WritePaid(w)
      BY <2>1, <1>j DEF WritePaid, SoundJob
    <2>2. CASE WriteFailed(w)
      BY <2>2, <1>s, <1>t DEF WriteFailed
    <2>3. CASE LinkDeposit(w)
      BY <2>3, <1>s DEF LinkDeposit, SaleInv, EarnedIsBacked
    <2>4. CASE WriteRefundPending(w) \/ WriteRefunded(w)
      <3>1. job[w].ref \in Refunds /\ refund[job[w].ref].sale = s
        BY <2>4, <1>j DEF WriteRefundPending, WriteRefunded, SoundJob
      <3>2. s # NoSale
        BY <1>s, SaleConstants
      <3> QED
        BY <3>1, <3>2 DEF SaleInv, RefundIsBacked
    <2> QED
      BY <2>1, <2>2, <2>3, <2>4
  <1>4. status'[s] = "refunded" =>
           \E r \in Refunds : refund[r].sale = s /\ refund[r].state = "completed"
    <2>1. CASE WriteRefunded(w)
      BY <2>1, <1>j DEF WriteRefunded, SoundJob
    <2>2. CASE LinkDeposit(w)
      BY <2>2, <1>s DEF LinkDeposit, SaleInv, RefundedIsTrue
    <2>3. CASE WritePaid(w) \/ WriteFailed(w) \/ WriteRefundPending(w)
      BY <2>3, <1>s, <1>t DEF WritePaid, WriteFailed, WriteRefundPending
    <2> QED
      BY <2>1, <2>2, <2>3
  <1>5. refundRef'[s] # NoRefund => refund[refundRef'[s]].sale = s
    <2>1. CASE WriteRefundPending(w)
      BY <2>1, <1>j, <1>s, <1>t DEF WriteRefundPending, SoundJob
    <2>2. CASE ~WriteRefundPending(w)
      BY <2>2, <1>s DEF WritePaid, WriteFailed, LinkDeposit, WriteRefunded, SaleInv, RefIsOwn
    <2> QED
      BY <2>1, <2>2
  <1>6. PICK x \in Sales : x = s
    BY <1>s
  <1>7. status'[x] \in {"paid", "refund_pending", "refunded"} => Backed(x)'
    BY <1>3, <1>6, <1>m DEF Monotone
  <1> HIDE DEF s
  <1> QED
    BY <1>m, <1>u, <1>o, <1>2, <1>4, <1>5, <1>6, <1>7, RowWrite

\* A step in which what is true of payments and refunds only grows, and no row
\* is written, preserves what is said of the rows.
LEMMA RowsStayTrue ==
  ASSUME SaleInv, Monotone, UNCHANGED <<status, refundRef>>
  PROVE  EarnedIsBacked' /\ RefundedIsTrue' /\ RefIsOwn'
  <1>1. EarnedIsBacked'
    BY DEF SaleInv, EarnedIsBacked, Monotone
  <1>2. RefundedIsTrue'
    <2> SUFFICES ASSUME NEW s \in Sales, status[s] = "refunded"
                 PROVE  \E r \in Refunds : refund'[r].sale = s /\ refund'[r].state = "completed"
      BY DEF RefundedIsTrue
    <2>1. PICK r \in Refunds : refund[r].sale = s /\ refund[r].state = "completed"
      BY DEF SaleInv, RefundedIsTrue
    <2> QED
      BY <2>1, SaleConstants DEF Monotone
  <1>3. RefIsOwn'
    BY SaleConstants DEF SaleInv, RefIsOwn, TypeOK, Monotone
  <1> QED
    BY <1>1, <1>2, <1>3

\* Existing refunds stay backed when no refund is added.
LEMMA RefundsStayBacked ==
  ASSUME SaleInv, Monotone, \A r \in Refunds : refund'[r].sale = refund[r].sale
  PROVE  RefundIsBacked'
  <1> SUFFICES ASSUME NEW r \in Refunds, refund[r].sale # NoSale
               PROVE  Backed(refund[r].sale)'
    BY DEF RefundIsBacked
  <1>1. PICK x \in Sales : x = refund[r].sale /\ Backed(x)
    BY DEF SaleInv, TypeOK, RefundIsBacked
  <1>2. Backed(x)' /\ refund'[r].sale = x
    BY <1>1 DEF Monotone
  <1> QED
    BY <1>2 DEF Backed

\* The insert of a sale preserves the invariant.
LEMMA CreatePreserves ==
  ASSUME SaleInv, TypeOK', NEW h \in Handlers, NEW s \in Sales, Create(h, s)
  PROVE  SaleInv'
  <1>h. h \in Workers /\ job \in [Workers -> Jobs] /\ status \in [Sales -> Statuses]
        /\ linked \in [Sales -> BOOLEAN]
    BY WorkersAre DEF SaleInv, TypeOK
  <1>n. status[s] = "none" /\ deposit[s] = "closed" /\ ~manual[s]
    BY DEF Create, SaleInv, NoRowNoDeposit
  <1>u. UNCHANGED <<manual, refundRef, deposit, refund, todo>>
    BY DEF Create, world, loop
  <1>r. /\ status'[s] = "pending"
        /\ \A x \in Sales \ {s} : status'[x] = status[x] /\ linked'[x] = linked[x]
    BY <1>h DEF Create
  <1>j. /\ job'[h].op = "create" /\ job'[h].pc = "ask" /\ job'[h].sale = s
        /\ \A v \in Workers : v # h => job'[v] = job[v]
    BY <1>h DEF Create, Reading
  <1>m. Monotone
    BY <1>n, <1>u, <1>r DEF Monotone, Backed
  <1>1. EarnedIsBacked' /\ RefundedIsTrue' /\ RefIsOwn'
    BY <1>u, <1>r, <1>m DEF SaleInv, EarnedIsBacked, RefundedIsTrue, RefIsOwn, Monotone
  <1>2. RefundIsBacked'
    BY <1>u, <1>m, RefundsStayBacked
  <1>3. NoRowNoDeposit' /\ TodoHasRows'
    BY <1>u, <1>r, <1>m DEF SaleInv, NoRowNoDeposit, TodoHasRows, TypeOK, Monotone
  <1>4. SoundJob(h)'
    BY <1>j, <1>r, <1>n, <1>u DEF SoundJob, Creating
  <1>5. SoundJobs'
    BY <1>j, <1>m, <1>u, <1>4, BystanderStaysSound DEF SoundJobs
  <1>6. OneCreator'
    <2>1. \A v \in Workers : Creating(v) => job[v].sale # s
      BY <1>n DEF SaleInv, SoundJobs, SoundJob, Creating
    <2> QED
      BY <1>j, <2>1 DEF SaleInv, OneCreator, Creating
  <1> QED
    BY <1>1, <1>2, <1>3, <1>5, <1>6 DEF SaleInv

\* So does the opening of its deposit: nobody else is opening it.
LEMMA InitiateDepositPreserves ==
  ASSUME SaleInv, TypeOK', NEW h \in Handlers, InitiateDeposit(h)
  PROVE  SaleInv'
  <1> DEFINE s == job[h].sale
  <1>h. h \in Workers /\ deposit \in [Sales -> DepositStates]
    BY WorkersAre DEF SaleInv, TypeOK
  <1>c. Creating(h) /\ s \in Sales /\ status[s] # "none" /\ deposit[s] = "closed"
    BY <1>h DEF InitiateDeposit, Creating, SaleInv, SoundJobs, SoundJob
  <1>u. UNCHANGED <<rows, refund, todo>>
    BY DEF InitiateDeposit, loop
  <1>d. \A x \in Sales \ {s} : deposit'[x] = deposit[x]
    BY <1>h DEF InitiateDeposit
  <1>m. Monotone
    BY <1>c, <1>u, <1>d DEF Monotone, Backed, rows
  <1>1. \E pc \in {"idle", "link", "failed"} : Goto(h, pc)
    BY DEF InitiateDeposit
  <1>2. /\ SoundJob(h)' /\ ~Creating(h)'
        /\ \A v \in Workers : v # h => job'[v] = job[v]
    BY <1>1, <1>c, <1>h, <1>m, WorkerStaysSound DEF Pcs, Creating
  <1>3. EarnedIsBacked' /\ RefundedIsTrue' /\ RefIsOwn'
    BY <1>u, <1>m, RowsStayTrue DEF rows
  <1>4. RefundIsBacked'
    BY <1>u, <1>m, RefundsStayBacked
  <1>5. NoRowNoDeposit' /\ TodoHasRows'
    BY <1>u, <1>c, <1>d DEF SaleInv, NoRowNoDeposit, TodoHasRows, rows
  <1>6. \A v \in Workers : v # h => SoundJob(v)'
    <2> SUFFICES ASSUME NEW v \in Workers, v # h
                 PROVE  SoundJob(v)'
      OBVIOUS
    <2>1. Creating(v) => job[v].sale \in Sales \ {s}
      BY <1>h, <1>c DEF SaleInv, OneCreator, SoundJobs, SoundJob, Creating
    <2> QED
      BY <2>1, <1>d, <1>m, <1>2, BystanderStaysSound
  <1>7. OneCreator'
    BY <1>h, <1>2, CreatorStaysAlone
  <1> QED
    BY <1>2, <1>3, <1>4, <1>5, <1>6, <1>7 DEF SaleInv, SoundJobs

\* So does the administrator's confirmation of a pending or failed sale.
LEMMA MarkSalePaidPreserves ==
  ASSUME SaleInv, TypeOK', NEW s \in Sales, MarkSalePaid(s)
  PROVE  SaleInv'
  <1>t. status \in [Sales -> Statuses] /\ manual \in [Sales -> BOOLEAN]
    BY DEF SaleInv, TypeOK
  <1>u. UNCHANGED <<linked, refundRef, deposit, refund, todo, job>>
    BY DEF MarkSalePaid, world, loop
  <1>r. /\ status'[s] = "paid" /\ manual'[s]
        /\ \A x \in Sales \ {s} : status'[x] = status[x] /\ manual'[x] = manual[x]
    BY <1>t DEF MarkSalePaid
  <1>m. Monotone
    BY <1>t, <1>u, <1>r DEF Monotone, Backed
  <1>1. EarnedIsBacked' /\ RefundedIsTrue' /\ RefIsOwn'
    BY <1>u, <1>r, <1>m DEF SaleInv, EarnedIsBacked, RefundedIsTrue, RefIsOwn, Monotone, Backed
  <1>2. RefundIsBacked'
    BY <1>u, <1>m, RefundsStayBacked
  <1>3. NoRowNoDeposit' /\ TodoHasRows'
    BY <1>u, <1>r DEF SaleInv, TypeOK, NoRowNoDeposit, TodoHasRows
  <1>4. SoundJobs'
    BY <1>m, <1>u, BystanderStaysSound DEF SoundJobs
  <1>5. OneCreator'
    BY <1>u DEF SaleInv, OneCreator, Creating
  <1> QED
    BY <1>1, <1>2, <1>3, <1>4, <1>5 DEF SaleInv

\* So does asking the provider for a refund of a sale read as paid.
LEMMA InitiateRefundPreserves ==
  ASSUME SaleInv, TypeOK', NEW h \in Handlers, InitiateRefund(h)
  PROVE  SaleInv'
  <1> DEFINE s == job[h].sale
  <1>h. h \in Workers /\ job \in [Workers -> Jobs]
    BY WorkersAre DEF SaleInv, TypeOK
  <1>a. job[h].op = "refund" /\ job[h].pc = "ask"
    BY DEF InitiateRefund
  <1>b. s \in Sales /\ status[s] # "none" /\ Backed(s)
    BY <1>h, <1>a DEF SaleInv, SoundJobs, SoundJob
  <1>u. UNCHANGED <<rows, deposit, todo>>
    BY DEF InitiateRefund, loop
  <1>1. CASE Goto(h, "idle") /\ UNCHANGED refund
    <2>1. Monotone
      BY <1>u, <1>1 DEF Monotone, Backed, rows
    <2>2. /\ SoundJob(h)' /\ ~Creating(h)'
          /\ \A v \in Workers : v # h => job'[v] = job[v]
      BY <1>1, <1>h, <2>1, WorkerStaysSound DEF Pcs
    <2> QED
      BY <1>h, <1>u, <1>1, <2>2, LocalStep
  <1>2. ASSUME NEW r \in Refunds, refund[r].sale = NoSale,
               refund' = [refund EXCEPT ![r] = [sale |-> s, state |-> "submitted"]],
               \/ job' = [job EXCEPT ![h].pc = "refund_pending", ![h].ref = r]
               \/ Goto(h, "idle")
        PROVE  SaleInv'
    <2>1. /\ refund'[r].sale = s
          /\ \A q \in Refunds \ {r} : refund'[q] = refund[q]
      BY <1>2 DEF SaleInv, TypeOK
    <2>m. Monotone
      BY <1>u, <1>2, <2>1 DEF Monotone, Backed, rows
    <2>2. EarnedIsBacked' /\ RefundedIsTrue' /\ RefIsOwn'
      BY <1>u, <2>m, RowsStayTrue DEF rows
    <2>3. RefundIsBacked'
      BY <1>u, <1>b, <2>1 DEF SaleInv, RefundIsBacked, Backed, rows
    <2>4. NoRowNoDeposit' /\ TodoHasRows'
      BY <1>u DEF SaleInv, NoRowNoDeposit, TodoHasRows, rows
    <2>5. /\ SoundJob(h)' /\ ~Creating(h)'
          /\ \A v \in Workers : v # h => job'[v] = job[v]
      <3>1. CASE Goto(h, "idle")
        BY <3>1, <1>h, <2>m, WorkerStaysSound DEF Pcs
      <3>2. CASE job' = [job EXCEPT ![h].pc = "refund_pending", ![h].ref = r]
        <4>1. /\ job'[h].op = "refund" /\ job'[h].pc = "refund_pending"
              /\ job'[h].sale = s /\ job'[h].ref = r
              /\ \A v \in Workers : v # h => job'[v] = job[v]
          BY <3>2, <1>h, <1>a DEF Jobs
        <4> QED
          BY <4>1, <1>b, <1>u, <2>1 DEF SoundJob, Creating, rows
      <3> QED
        BY <1>2, <3>1, <3>2
    <2>6. SoundJobs'
      BY <1>u, <2>m, <2>5, BystanderStaysSound DEF SoundJobs
    <2>7. OneCreator'
      BY <1>h, <2>5, CreatorStaysAlone
    <2> QED
      BY <2>2, <2>3, <2>4, <2>6, <2>7 DEF SaleInv
  <1> QED
    BY <1>1, <1>2 DEF InitiateRefund

\* So does whatever the provider does with a deposit or a refund: both ends are
\* final.
LEMMA ProviderPreserves ==
  ASSUME SaleInv, TypeOK',
         \/ \E s \in Sales : DepositProgress(s)
         \/ \E r \in Refunds : RefundProgress(r)
  PROVE  SaleInv'
  <1>t. /\ deposit \in [Sales -> DepositStates]
        /\ refund \in [Refunds -> [sale: Sales \cup {NoSale},
                                  state: {"submitted", "completed", "failed"}]]
    BY DEF SaleInv, TypeOK
  <1>u. UNCHANGED <<rows, todo, job>>
    BY DEF DepositProgress, RefundProgress, loop
  <1>d. \A x \in Sales : /\ deposit[x] = "completed" => deposit'[x] = "completed"
                         /\ deposit[x] = "closed" => deposit'[x] = "closed"
    BY <1>t DEF DepositProgress, RefundProgress, DepositMoves
  <1>r. \A r \in Refunds : /\ refund'[r].sale = refund[r].sale
                           /\ refund[r].state = "completed" => refund'[r].state = "completed"
    <2>1. ASSUME NEW q \in Refunds, RefundProgress(q), NEW r \in Refunds
          PROVE  /\ refund'[r].sale = refund[r].sale
                 /\ refund[r].state = "completed" => refund'[r].state = "completed"
      <3>1. PICK o : refund' = [refund EXCEPT ![q].state = o]
        BY <2>1 DEF RefundProgress
      <3>2. refund[q].state = "submitted"
        BY <2>1 DEF RefundProgress
      <3>3. CASE r = q
        BY <1>t, <3>1, <3>2, <3>3
      <3>4. CASE r # q
        BY <1>t, <3>1, <3>4
      <3> QED
        BY <3>3, <3>4
    <2>2. ASSUME NEW s \in Sales, DepositProgress(s)
          PROVE  UNCHANGED refund
      BY <2>2 DEF DepositProgress
    <2> QED
      BY <2>1, <2>2
  <1>m. Monotone
    BY <1>u, <1>d, <1>r DEF Monotone, Backed, rows
  <1>1. EarnedIsBacked' /\ RefundedIsTrue' /\ RefIsOwn'
    BY <1>u, <1>m, RowsStayTrue DEF rows
  <1>2. RefundIsBacked'
    BY <1>m, <1>r, RefundsStayBacked
  <1>3. NoRowNoDeposit' /\ TodoHasRows'
    BY <1>u, <1>d DEF SaleInv, NoRowNoDeposit, TodoHasRows, rows
  <1>4. SoundJobs'
    <2> SUFFICES ASSUME NEW w \in Workers PROVE SoundJob(w)'
      BY DEF SoundJobs
    <2>1. Creating(w) => deposit'[job[w].sale] = deposit[job[w].sale]
      BY <1>d DEF SaleInv, SoundJobs, SoundJob, Creating
    <2> QED
      BY <1>u, <1>m, <2>1, BystanderStaysSound
  <1>5. OneCreator'
    BY <1>u DEF SaleInv, OneCreator, Creating
  <1> QED
    BY <1>1, <1>2, <1>3, <1>4, <1>5 DEF SaleInv

-----------------------------------------------------------------------------
(* The theorem *)

\* The inductive invariant holds initially.
LEMMA InitSaleInv == Init => SaleInv
  <1> SUFFICES ASSUME Init PROVE SaleInv
    OBVIOUS
  <1>1. TypeOK
    BY InitTypeOK
  <1>2. \A w \in Workers : job[w] = IdleJob
    BY DEF Init
  <1>3. SoundJobs /\ OneCreator
    BY <1>2 DEF SoundJobs, SoundJob, OneCreator, Creating, IdleJob
  <1>4. EarnedIsBacked /\ RefundIsBacked /\ RefundedIsTrue /\ NoRowNoDeposit /\ RefIsOwn
    BY DEF Init, EarnedIsBacked, RefundIsBacked, RefundedIsTrue, NoRowNoDeposit, RefIsOwn
  <1>5. TodoHasRows
    BY DEF Init, TodoHasRows
  <1> QED
    BY <1>1, <1>3, <1>4, <1>5 DEF SaleInv

\* Every step preserves it.
LEMMA NextSaleInv == SaleInv /\ [Next]_vars => SaleInv'
  <1> SUFFICES ASSUME SaleInv, [Next]_vars PROVE SaleInv'
    OBVIOUS
  <1>t. TypeOK'
    BY NextTypeOK DEF SaleInv
  <1>1. CASE UNCHANGED vars
    BY <1>1, <1>t, SilentStep DEF vars, world, loop, SaleInv, TodoHasRows
  <1>2. CASE Tick
    BY <1>2, <1>t, SilentStep DEF Tick, world, SaleInv, TodoHasRows
  <1>3. CASE Reconcile
    BY <1>3, <1>t, ReconcilePreserves
  <1>4. ASSUME NEW h \in Handlers, Request(h)
        PROVE  SaleInv'
    BY <1>4, <1>t, CreatePreserves, ReadPreserves DEF Request
  <1>5. ASSUME NEW h \in Handlers, Answer(h)
        PROVE  SaleInv'
    BY <1>5, <1>t, WorkersAre, InitiateDepositPreserves, InitiateRefundPreserves,
       ConcludePreserves, WritePreserves DEF Answer
  <1>6. ASSUME NEW w \in Workers, Proceed(w) \/ Crash(w)
        PROVE  SaleInv'
    BY <1>6, <1>t, ConcludePreserves, WritePreserves DEF Proceed
  <1>7. ASSUME NEW s \in Sales, MarkSalePaid(s) \/ DepositProgress(s)
        PROVE  SaleInv'
    BY <1>7, <1>t, MarkSalePaidPreserves, ProviderPreserves
  <1>8. ASSUME NEW r \in Refunds, RefundProgress(r)
        PROVE  SaleInv'
    BY <1>8, <1>t, ProviderPreserves
  <1> QED
    BY <1>1, <1>2, <1>3, <1>4, <1>5, <1>6, <1>7, <1>8 DEF Next

\* The inductive invariant holds of every behaviour.
THEOREM Invariance == Spec => []SaleInv
  BY InitSaleInv, NextSaleInv, PTL DEF Spec

\* A sale that counts as earned is backed by a completed deposit or by an
\* administrator, whatever callbacks, polls, checks, passes and crashes overlap.
THEOREM EarnedBacked == Spec => []EarnedIsBacked
  <1>1. SaleInv => EarnedIsBacked
    BY DEF SaleInv
  <1> QED
    BY <1>1, Invariance, PTL

\* No refund is ever asked for a sale nobody paid.
THEOREM RefundBacked == Spec => []RefundIsBacked
  <1>1. SaleInv => RefundIsBacked
    BY DEF SaleInv
  <1> QED
    BY <1>1, Invariance, PTL

\* A sale says "refunded" only if a refund of this very sale completed.
THEOREM RefundedTrue == Spec => []RefundedIsTrue
  <1>1. SaleInv => RefundedIsTrue
    BY DEF SaleInv
  <1> QED
    BY <1>1, Invariance, PTL

-----------------------------------------------------------------------------
(* Recovery.  NoStrandedCharge is about what a pass will do, so its invariant  *)
(* follows a charged sale through the pass: it is on the list being walked, or *)
(* in the hands of the loop, until its row says what it has earned.            *)

\* What the property is stated under: replicas that live, a provider that answers, a
\* request that ends within the tick it began in, and a window within the 3 days.
Steady == ~Crashes /\ ~Unreachable /\ Prompt /\ RecheckWindow <= ReconcileMaxAge

Earned(s) == status[s] \in {"paid", "refund_pending", "refunded"}

\* The pass under way is still to confirm sale s.
Awaited(s) == s \in todo \/ (job[Loop].pc = "paid" /\ job[Loop].sale = s)

\* A charged sale that is not earned has waited since the last pass at most, and the
\* pass under way will find it: on the first list if it is pending, on the second if
\* it has failed.
Found(s) ==
    IF list = "none" THEN age[s] <= chargedAt[s] + clock
    ELSE /\ age[s] <= chargedAt[s] + ReconcileEvery
         /\ IF list = "pending" THEN status[s] = "pending" => Awaited(s)
            ELSE status[s] = "failed" /\ Awaited(s)

\* A failure is written of a charged sale only in the tick of the charge: it was
\* decided before.
Recoverable(s) ==
    /\ status[s] # "none" => linked[s]
    /\ deposit[s] = "completed" =>
         /\ chargedAt[s] <= age[s]
         /\ \A w \in Workers : job[w].pc = "failed" /\ job[w].sale = s => age[s] = chargedAt[s]
         /\ /\ age[s] > chargedAt[s] /\ chargedAt[s] + ReconcileEvery < RecheckWindow
            /\ ~Earned(s)
            => Found(s)

RecoveryInv ==
    /\ \A s \in Sales \ PayDunyaSales : Recoverable(s)
    /\ \A w \in Workers : job[w].pc = "link" => job[w].sale \in PayDunyaSales

\* A charged PawaPay sale has a row, and the provider's answer about it is a payment.
LEMMA ChargeIsReported ==
  ASSUME SaleInv, RecoveryInv, NEW s \in Sales \ PayDunyaSales, deposit[s] = "completed"
  PROVE  /\ status[s] # "none" /\ linked[s] /\ Report(s) = "completed"
         /\ \A op, seen : Verdict(op, s, seen) # "failed"
  <1>1. status[s] # "none"
    BY DEF SaleInv, NoRowNoDeposit
  <1>2. linked[s]
    BY <1>1 DEF RecoveryInv, Recoverable
  <1>3. Report(s) = "completed"
    BY <1>2 DEF Report
  <1> QED
    BY <1>1, <1>2, <1>3 DEF Verdict

\* The step of a worker leaves a sale recoverable if it decides no failure of a
\* charged one, writes none that was not decided in the tick of the charge, and if
\* the loop only lets go of a sale it was to confirm once it is earned.
LEMMA WorkerStepRecovers ==
  ASSUME SaleInv, RecoveryInv, NEW s \in Sales \ PayDunyaSales, NEW w \in Workers,
         \A v \in Workers : v # w => job'[v] = job[v],
         UNCHANGED <<loop, age, chargedAt>>,
         deposit'[s] = "completed" => deposit[s] = "completed",
         status'[s] # "none" => linked'[s],
         deposit[s] = "completed" =>
            /\ \/ status'[s] = status[s] \/ Earned(s)'
               \/ age[s] = chargedAt[s]
            /\ job'[w].pc = "failed" => job'[w].sale # s
            /\ w = Loop /\ job[w].pc = "paid" /\ job[w].sale = s => Earned(s)'
  PROVE  Recoverable(s)'
  <1>1. Recoverable(s) /\ UNCHANGED <<list, todo, clock, age, chargedAt>>
    BY DEF RecoveryInv, loop
  <1>2. SUFFICES ASSUME deposit'[s] = "completed"
                 PROVE  /\ chargedAt[s] <= age[s]
                        /\ \A v \in Workers : job'[v].pc = "failed" /\ job'[v].sale = s
                                                => age[s] = chargedAt[s]
                        /\ /\ age[s] > chargedAt[s] /\ chargedAt[s] + ReconcileEvery < RecheckWindow
                           /\ ~Earned(s)'
                           => Found(s)'
    BY <1>1 DEF Recoverable
  <1>3. /\ deposit[s] = "completed" /\ chargedAt[s] <= age[s]
        /\ \A v \in Workers : job[v].pc = "failed" /\ job[v].sale = s => age[s] = chargedAt[s]
    BY <1>1, <1>2 DEF Recoverable
  <1>4. \A v \in Workers : job'[v].pc = "failed" /\ job'[v].sale = s => age[s] = chargedAt[s]
    BY <1>3
  <1>5. ASSUME age[s] > chargedAt[s], chargedAt[s] + ReconcileEvery < RecheckWindow, ~Earned(s)'
        PROVE  Found(s)'
    <2>0. age[s] \in Nat /\ chargedAt[s] \in Nat
      BY SaleConstants DEF SaleInv, TypeOK
    <2>1. status'[s] = status[s]
      BY <1>3, <1>5, <2>0
    <2>2. ~Earned(s)
      BY <1>5, <2>1 DEF Earned
    <2>3. Found(s)
      BY <1>1, <1>3, <1>5, <2>2 DEF Recoverable
    <2>4. Awaited(s) => Awaited(s)'
      BY <1>1, <1>3, <1>5, WorkersAre DEF Awaited
    <2> QED
      BY <1>1, <2>1, <2>3, <2>4 DEF Found
  <1> QED
    BY <1>3, <1>4, <1>5

\* A step that leaves the jobs, the loop and the clock alone.
LEMMA RowStepRecovers ==
  ASSUME SaleInv, RecoveryInv, UNCHANGED <<loop, age, job>>,
         \A s \in Sales \ PayDunyaSales :
            /\ status'[s] # "none" => linked'[s]
            /\ deposit[s] = "completed" => status'[s] = status[s] \/ Earned(s)'
            /\ deposit'[s] = "completed" =>
                  \/ deposit[s] = "completed" /\ chargedAt'[s] = chargedAt[s]
                  \/ chargedAt'[s] = age[s]
  PROVE  RecoveryInv'
  <1>1. ASSUME NEW s \in Sales \ PayDunyaSales
        PROVE  Recoverable(s)'
    <2>1. Recoverable(s) /\ UNCHANGED <<list, todo, clock, age, job>>
      BY DEF RecoveryInv, loop
    <2>2. age[s] \in Nat
      BY SaleConstants DEF SaleInv, TypeOK
    <2>3. CASE deposit'[s] # "completed"
      BY <2>3 DEF Recoverable
    <2>4. CASE deposit[s] = "completed" /\ chargedAt'[s] = chargedAt[s]
      <3>1. Found(s) /\ status'[s] = status[s] => Found(s)'
        BY <2>1, <2>4 DEF Found, Awaited
      <3>2. Earned(s)' \/ (status'[s] = status[s] /\ (Earned(s)' <=> Earned(s)))
        BY <2>4 DEF Earned
      <3> QED
        BY <2>1, <2>4, <3>1, <3>2 DEF Recoverable
    <2>5. CASE chargedAt'[s] = age[s]
      BY <2>1, <2>2, <2>5 DEF Recoverable
    <2> QED
      BY <2>3, <2>4, <2>5
  <1> QED
    BY <1>1 DEF RecoveryInv

\* A handler begins: what it reads is not yet a decision.
LEMMA RequestRecovers ==
  ASSUME SaleInv, RecoveryInv, NEW h \in Handlers, Request(h)
  PROVE  RecoveryInv'
  <1> PICK x \in Sales : \/ Create(h, x)
                         \/ \E op \in {"webhook", "poll", "check"} : ReadSale(h, op, x)
                         \/ ReadRefundable(h, x) \/ ReadRefundCallback(h, x)
    BY DEF Request
  <1>1. h \in Workers /\ h # Loop
    BY WorkersAre, SaleConstants
  <1>2. status \in [Sales -> Statuses] /\ linked \in [Sales -> BOOLEAN] /\ job \in [Workers -> Jobs]
    BY DEF SaleInv, TypeOK
  <1>3. /\ job'[h].pc = "ask" /\ \A v \in Workers : v # h => job'[v] = job[v]
        /\ UNCHANGED <<loop, age, chargedAt, deposit>>
    BY <1>1, <1>2 DEF Create, ReadSale, ReadRefundable, ReadRefundCallback, Reading, world
  <1>4. ASSUME NEW s \in Sales \ PayDunyaSales
        PROVE  Recoverable(s)'
    <2>1. status[s] # "none" => linked[s]
      BY DEF RecoveryInv, Recoverable
    <2>2. CASE Create(h, x) /\ x = s
      <3>1. deposit[s] # "completed"
        BY <2>2 DEF Create, SaleInv, NoRowNoDeposit
      <3>2. linked'[s]
        BY <1>2, <2>2 DEF Create
      <3> QED
        BY <1>1, <1>3, <3>1, <3>2, WorkerStepRecovers
    <2>3. CASE ~ (Create(h, x) /\ x = s)
      <3>1. status'[s] = status[s] /\ linked'[s] = linked[s]
        BY <1>2, <2>3 DEF Create, ReadSale, ReadRefundable, ReadRefundCallback, rows
      <3> QED
        BY <1>1, <1>3, <2>1, <3>1, WorkerStepRecovers
    <2> QED
      BY <2>2, <2>3
  <1>5. \A w \in Workers : job'[w].pc = "link" => job'[w].sale \in PayDunyaSales
    BY <1>3 DEF RecoveryInv
  <1> QED
    BY <1>4, <1>5 DEF RecoveryInv

\* A worker that goes on without touching the rows: a failure it decides is of a sale
\* that was not charged.
LEMMA GoingOnRecovers ==
  ASSUME SaleInv, RecoveryInv, NEW w \in Workers, NEW pc \in Pcs, Goto(w, pc),
         UNCHANGED <<rows, loop, age, chargedAt>>,
         \A s \in Sales \ PayDunyaSales : deposit'[s] = "completed" => deposit[s] = "completed",
         job[w].pc # "paid",
         pc = "failed" => \A s \in Sales \ PayDunyaSales :
                             deposit[s] = "completed" => job[w].sale # s,
         pc = "link" => job[w].sale \in PayDunyaSales
  PROVE  RecoveryInv'
  <1>1. JobsOK
    BY DEF SaleInv, TypeOK, JobsOK
  <1>2. /\ \A v \in Workers : v # w => job'[v] = job[v]
        /\ pc = "idle" => job'[w] = IdleJob
        /\ pc # "idle" => job'[w].pc = pc /\ job'[w].sale = job[w].sale
    BY <1>1, GotoStep
  <1>3. job'[w].pc = pc
    BY <1>2 DEF IdleJob
  <1>4. ASSUME NEW s \in Sales \ PayDunyaSales
        PROVE  Recoverable(s)'
    <2>1. status'[s] = status[s] /\ (status'[s] # "none" => linked'[s])
      BY DEF RecoveryInv, Recoverable, rows
    <2>2. deposit[s] = "completed" /\ job'[w].pc = "failed" => job'[w].sale # s
      BY <1>2, <1>3
    <2> QED
      BY <1>2, <2>1, <2>2, WorkerStepRecovers
  <1>5. \A v \in Workers : job'[v].pc = "link" => job'[v].sale \in PayDunyaSales
    BY <1>2, <1>3 DEF RecoveryInv
  <1> QED
    BY <1>4, <1>5 DEF RecoveryInv

\* A worker that writes a status and is done with the sale: it earns it, or it fails it
\* as decided in the tick of its charge.
LEMMA WritingRecovers ==
  ASSUME SaleInv, RecoveryInv, NEW w \in Workers, NEW pc \in {"idle", "effects"}, Goto(w, pc),
         UNCHANGED <<linked, loop, age, chargedAt, deposit>>,
         NEW new \in {"paid", "failed", "refund_pending", "refunded"},
         status' = [status EXCEPT ![job[w].sale] = new],
         job[w].pc # "idle",
         new = "failed" <=> job[w].pc = "failed"
  PROVE  RecoveryInv'
  <1>1. JobsOK /\ status \in [Sales -> Statuses] /\ job[w].sale \in Sales /\ status[job[w].sale] # "none"
    BY DEF SaleInv, TypeOK, JobsOK, SoundJobs, SoundJob
  <1>2. /\ \A v \in Workers : v # w => job'[v] = job[v]
        /\ pc = "idle" => job'[w] = IdleJob
        /\ pc # "idle" => job'[w].pc = pc
    BY <1>1, GotoStep DEF Pcs
  <1>3. job'[w].pc \notin {"failed", "link"}
    BY <1>2 DEF IdleJob
  <1>4. ASSUME NEW s \in Sales \ PayDunyaSales
        PROVE  Recoverable(s)'
    <2>1. CASE s = job[w].sale
      <3>1. status'[s] = new /\ linked'[s]
        BY <1>1, <2>1 DEF RecoveryInv, Recoverable
      <3>2. new # "failed" => Earned(s)'
        BY <3>1 DEF Earned
      <3>3. deposit[s] = "completed" /\ new = "failed" => age[s] = chargedAt[s]
        BY <2>1 DEF RecoveryInv, Recoverable
      <3> QED
        BY <1>2, <1>3, <3>1, <3>2, <3>3, WorkerStepRecovers
    <2>2. CASE s # job[w].sale
      <3>1. status'[s] = status[s] /\ (status'[s] # "none" => linked'[s])
        BY <1>1, <2>2 DEF RecoveryInv, Recoverable
      <3> QED
        BY <1>2, <1>3, <2>2, <3>1, WorkerStepRecovers
    <2> QED
      BY <2>1, <2>2
  <1>5. \A v \in Workers : job'[v].pc = "link" => job'[v].sale \in PayDunyaSales
    BY <1>2, <1>3 DEF RecoveryInv
  <1> QED
    BY <1>4, <1>5 DEF RecoveryInv

\* The answers of the providers, and the writes that follow them.
LEMMA AnswerRecovers ==
  ASSUME SaleInv, RecoveryInv, Steady, NEW h \in Handlers, Answer(h)
  PROVE  RecoveryInv'
  <1>h. h \in Workers /\ job[h] \in Jobs /\ h # Loop
    BY WorkersAre, SaleConstants DEF SaleInv, TypeOK
  <1>1. CASE InitiateDeposit(h)
    <2> DEFINE x == job[h].sale
    <2>1. x \in Sales /\ deposit[x] = "closed" /\ job[h].pc = "ask"
      BY <1>h, <1>1 DEF InitiateDeposit, SaleInv, SoundJobs, SoundJob, Creating
    <2>2. PICK pc \in {"link", "idle", "failed"} : Goto(h, pc) /\ (pc = "link" => x \in PayDunyaSales)
      BY <1>1 DEF InitiateDeposit
    <2>3. UNCHANGED <<rows, loop, age, chargedAt>>
      BY <1>1 DEF InitiateDeposit
    <2>4. deposit' = deposit \/ \E d \in {"open", "submitted"} : deposit' = [deposit EXCEPT ![x] = d]
      BY <1>1 DEF InitiateDeposit
    <2>5. \A s \in Sales \ PayDunyaSales : deposit'[s] = "completed" => deposit[s] = "completed"
      BY <2>4 DEF SaleInv, TypeOK
    <2> QED
      BY <1>h, <2>1, <2>2, <2>3, <2>5, GoingOnRecovers DEF Pcs
  <1>2. CASE LinkDeposit(h)
    <2>1. job[h].sale \in PayDunyaSales /\ job[h].pc = "link"
      BY <1>2, <1>h DEF LinkDeposit, RecoveryInv
    <2>2. PICK pc \in {"idle", "failed"} : Goto(h, pc)
      BY <1>2 DEF LinkDeposit
    <2>3. /\ linked' = [linked EXCEPT ![job[h].sale] = TRUE] /\ status' = status
          /\ UNCHANGED <<loop, age, chargedAt, deposit>>
      BY <1>2 DEF LinkDeposit, world
    <2>4. JobsOK /\ linked \in [Sales -> BOOLEAN]
      BY DEF SaleInv, TypeOK, JobsOK
    <2>5. /\ \A v \in Workers : v # h => job'[v] = job[v]
          /\ pc = "idle" => job'[h] = IdleJob
          /\ pc # "idle" => job'[h].pc = pc /\ job'[h].sale = job[h].sale
      BY <1>h, <2>2, <2>4, GotoStep DEF Pcs
    <2>6. job'[h].pc = pc
      BY <2>5 DEF IdleJob
    <2>7. ASSUME NEW s \in Sales \ PayDunyaSales
          PROVE  Recoverable(s)'
      <3>1. s # job[h].sale /\ linked'[s] = linked[s] /\ (status[s] # "none" => linked[s])
        BY <2>1, <2>3, <2>4 DEF RecoveryInv, Recoverable
      <3>2. job'[h].pc = "failed" => job'[h].sale # s
        BY <2>5, <2>6, <3>1
      <3> QED
        BY <1>h, <2>3, <2>5, <3>1, <3>2, WorkerStepRecovers
    <2>8. \A v \in Workers : job'[v].pc = "link" => job'[v].sale \in PayDunyaSales
      BY <2>5, <2>6 DEF RecoveryInv
    <2> QED
      BY <2>7, <2>8 DEF RecoveryInv
  <1>3. CASE AskDeposit(h)
    <2>1. PICK pc \in {"paid", "failed", "idle"} :
             Goto(h, pc) /\ (pc = "failed" => Verdict(job[h].op, job[h].sale, job[h].seen) = "failed")
      BY <1>3 DEF AskDeposit, Verdict
    <2>2. job[h].pc = "ask" /\ UNCHANGED <<rows, loop, age, chargedAt, deposit>>
      BY <1>3 DEF AskDeposit, world
    <2>3. pc = "failed" => \A s \in Sales \ PayDunyaSales : deposit[s] = "completed" => job[h].sale # s
      BY <2>1, ChargeIsReported
    <2> QED
      BY <1>h, <2>1, <2>2, <2>3, GoingOnRecovers DEF Pcs
  <1>4. CASE InitiateRefund(h)
    <2>1. job[h].pc = "ask" /\ UNCHANGED <<rows, loop, age, chargedAt, deposit>>
      BY <1>4 DEF InitiateRefund
    <2>2. CASE Goto(h, "idle")
      BY <1>h, <2>1, <2>2, GoingOnRecovers DEF Pcs
    <2>3. CASE \E r \in Refunds : job' = [job EXCEPT ![h].pc = "refund_pending", ![h].ref = r]
      <3>1. /\ \A v \in Workers : v # h => job'[v] = job[v]
            /\ job'[h].pc = "refund_pending"
        BY <1>h, <2>3 DEF SaleInv, TypeOK, Jobs
      <3>2. ASSUME NEW s \in Sales \ PayDunyaSales
            PROVE  Recoverable(s)'
        <4>1. status'[s] = status[s] /\ (status'[s] # "none" => linked'[s])
          BY <2>1 DEF RecoveryInv, Recoverable, rows
        <4> QED
          BY <1>h, <2>1, <3>1, <4>1, WorkerStepRecovers
      <3> QED
        BY <3>1, <3>2 DEF RecoveryInv
    <2> QED
      BY <1>4, <2>2, <2>3 DEF InitiateRefund
  <1>5. CASE AskRefund(h)
    <2>1. PICK pc \in {"refunded", "idle"} : Goto(h, pc)
      BY <1>5 DEF AskRefund
    <2>2. job[h].pc = "ask" /\ UNCHANGED <<rows, loop, age, chargedAt, deposit>>
      BY <1>5 DEF AskRefund, world
    <2> QED
      BY <1>h, <2>1, <2>2, GoingOnRecovers DEF Pcs
  <1>6. CASE WriteRefundPending(h)
    BY <1>h, <1>6, WritingRecovers DEF WriteRefundPending, world
  <1>7. CASE WriteRefunded(h)
    BY <1>h, <1>7, WritingRecovers DEF WriteRefunded, world
  <1> QED
    BY <1>1, <1>2, <1>3, <1>4, <1>5, <1>6, <1>7 DEF Answer

\* The writes of any worker, and the effects of a confirmation.
LEMMA ProceedRecovers ==
  ASSUME SaleInv, RecoveryInv, NEW w \in Workers, Proceed(w)
  PROVE  RecoveryInv'
  <1>1. CASE WritePaid(w)
    BY <1>1, WritingRecovers DEF WritePaid, world
  <1>2. CASE WriteFailed(w)
    BY <1>2, WritingRecovers DEF WriteFailed, world
  <1>3. CASE RunEffects(w)
    BY <1>3, GoingOnRecovers DEF RunEffects, world, Pcs
  <1> QED
    BY <1>1, <1>2, <1>3 DEF Proceed

\* The loop: a pass starts on the pending sales, goes on to the failed ones, and
\* confirms every charged sale it meets.
LEMMA ReconcileRecovers ==
  ASSUME SaleInv, RecoveryInv, Steady, Reconcile
  PROVE  RecoveryInv'
  <1>0. /\ job \in [Workers -> Jobs] /\ status \in [Sales -> Statuses] /\ Loop \in Workers
        /\ \A s \in Sales : age[s] \in Nat /\ chargedAt[s] \in Nat
        /\ {RecheckWindow, ReconcileMaxAge} \subseteq Nat /\ ReconcileEvery \in Nat \ {0}
    BY WorkersAre, SaleConstants DEF SaleInv, TypeOK
  <1>1. ASSUME StartPass \/ NextList
        PROVE  RecoveryInv'
    <2>1. UNCHANGED <<rows, world, age, job>> /\ job[Loop] = IdleJob
      BY <1>1 DEF StartPass, NextList
    <2>2. UNCHANGED <<status, linked, deposit, chargedAt, age, job>>
      BY <2>1 DEF rows, world
    <2>3. ASSUME NEW s \in Sales \ PayDunyaSales, deposit[s] = "completed", age[s] > chargedAt[s],
                 chargedAt[s] + ReconcileEvery < RecheckWindow, ~Earned(s)
          PROVE  Found(s)'
      <3>1. Found(s) /\ status[s] # "none"
        BY <2>3, ChargeIsReported DEF RecoveryInv, Recoverable
      <3>2. status[s] \in {"pending", "failed"}
        BY <1>0, <2>3, <3>1 DEF Earned, Statuses
      <3>3. CASE StartPass
        <4>1. /\ list = "none" /\ clock = ReconcileEvery /\ list' = "pending" /\ todo' = PendingList
          BY <3>3 DEF StartPass
        <4>2. age[s] <= chargedAt[s] + ReconcileEvery
          BY <3>1, <4>1 DEF Found
        <4>3. status[s] = "pending" => s \in PendingList
          BY <1>0, <2>3, <4>2 DEF PendingList, Steady
        <4> QED
          BY <2>2, <4>1, <4>2, <4>3 DEF Found, Awaited
      <3>4. CASE NextList
        <4>1. list # "none" /\ todo = {} /\ ~Awaited(s)
          BY <2>1, <3>4 DEF NextList, Awaited, IdleJob
        <4>2. list = "pending" /\ status[s] = "failed" /\ age[s] <= chargedAt[s] + ReconcileEvery
          BY <3>1, <3>2, <4>1 DEF Found
        <4>3. list' = "failed" /\ todo' = RecentFailedList
          BY <3>4, <4>2 DEF NextList
        <4>4. s \in RecentFailedList
          BY <1>0, <2>3, <4>2 DEF RecentFailedList
        <4> QED
          BY <2>2, <4>2, <4>3, <4>4 DEF Found, Awaited
      <3> QED
        BY <1>1, <3>3, <3>4
    <2>4. ASSUME NEW s \in Sales \ PayDunyaSales
          PROVE  Recoverable(s)'
      <3>1. Recoverable(s)
        BY DEF RecoveryInv
      <3> QED
        BY <2>2, <2>3, <3>1 DEF Recoverable, Earned
    <2> QED
      BY <2>2, <2>4 DEF RecoveryInv
  <1>2. ASSUME NEW x \in Sales, ReconcileSale(x)
        PROVE  RecoveryInv'
    <2>1. /\ list # "none" /\ job[Loop] = IdleJob /\ x \in todo /\ todo' = todo \ {x}
          /\ UNCHANGED <<status, linked, deposit, chargedAt, age, list, clock>>
      BY <1>2 DEF ReconcileSale, rows, world
    <2> DEFINE pc == Verdict(list, x, list)
    <2>2. job' = [job EXCEPT ![Loop] =
                    IF pc = "idle" THEN IdleJob
                    ELSE [op |-> list, pc |-> pc, sale |-> x, seen |-> list, ref |-> NoRefund]]
      BY <1>2 DEF ReconcileSale, Steady
    <2>3. pc \in {"paid", "failed", "idle"}
      BY VerdictIsSound
    <2>4. /\ \A v \in Workers : v # Loop => job'[v] = job[v]
          /\ job'[Loop].pc = pc /\ (pc # "idle" => job'[Loop].sale = x)
      <3> HIDE DEF pc
      <3> QED
        BY <1>0, <2>2 DEF IdleJob
    <2>5. ASSUME NEW s \in Sales \ PayDunyaSales
          PROVE  Recoverable(s)'
      <3>1. Recoverable(s)
        BY DEF RecoveryInv
      <3>2. deposit[s] = "completed" /\ x = s => pc = "paid"
        <4>1. ASSUME deposit[s] = "completed", x = s
              PROVE  Report(x) = "completed"
          BY <4>1, ChargeIsReported
        <4>2. list \in {"pending", "failed"}
          BY <2>1 DEF SaleInv, TypeOK
        <4> QED
          BY <4>1, <4>2 DEF Verdict
      <3> HIDE DEF pc
      <3>3. deposit[s] = "completed" => \A v \in Workers :
               job'[v].pc = "failed" /\ job'[v].sale = s => job[v].pc = "failed" /\ job[v].sale = s
        BY <2>4, <3>2
      <3>4. deposit[s] = "completed" /\ Awaited(s) => Awaited(s)'
        <4>1. CASE x = s
          BY <2>3, <2>4, <3>2, <4>1 DEF Awaited
        <4>2. CASE x # s
          BY <2>1, <4>2 DEF Awaited, IdleJob
        <4> QED
          BY <4>1, <4>2
      <3>5. deposit[s] = "completed" /\ Found(s) => Found(s)'
        BY <2>1, <3>4 DEF Found
      <3> QED
        BY <2>1, <3>1, <3>3, <3>5 DEF Recoverable, Earned
    <2> HIDE DEF pc
    <2>6. \A v \in Workers : job'[v].pc = "link" => job'[v].sale \in PayDunyaSales
      BY <2>3, <2>4 DEF RecoveryInv
    <2> QED
      BY <2>5, <2>6 DEF RecoveryInv
  <1> QED
    BY <1>1, <1>2 DEF Reconcile

\* A tick finds everyone at rest, so no pass is under way and no failure decided.
LEMMA TickRecovers ==
  ASSUME SaleInv, RecoveryInv, Steady, Tick
  PROVE  RecoveryInv'
  <1>1. /\ list = "none" /\ \A w \in Workers : job[w] = IdleJob
        /\ clock' = clock + 1 /\ UNCHANGED <<status, linked, deposit, chargedAt, list, todo, job>>
    BY DEF Tick, Steady, Quiet, rows, world
  <1>2. /\ age \in [Sales -> 0..MaxAge] /\ chargedAt \in [Sales -> 0..MaxAge] /\ clock \in Nat /\ MaxAge \in Nat
    BY SaleConstants DEF SaleInv, TypeOK
  <1>3. ASSUME NEW s \in Sales \ PayDunyaSales
        PROVE  Recoverable(s)'
    <2>1. Recoverable(s)
      BY DEF RecoveryInv
    <2>2. age[s] \in Nat /\ chargedAt[s] \in Nat /\ age'[s] \in {age[s], age[s] + 1}
      BY <1>2 DEF Tick
    <2>3. deposit[s] = "completed" => chargedAt[s] <= age[s] /\ chargedAt[s] <= age'[s]
      BY <2>1, <2>2 DEF Recoverable
    <2>4. ASSUME deposit[s] = "completed", chargedAt[s] + ReconcileEvery < RecheckWindow, ~Earned(s)
          PROVE  age'[s] <= chargedAt[s] + clock'
      <3>1. CASE age[s] = chargedAt[s]
        BY <1>1, <1>2, <2>2, <3>1
      <3>2. CASE age[s] # chargedAt[s]
        <4>1. age[s] > chargedAt[s]
          BY <2>2, <2>3, <2>4, <3>2
        <4>2. age[s] <= chargedAt[s] + clock
          BY <1>1, <2>1, <2>4, <4>1 DEF Recoverable, Found
        <4> QED
          BY <1>1, <1>2, <2>2, <4>2
      <3> QED
        BY <3>1, <3>2
    <2>5. \A w \in Workers : job'[w].pc # "failed"
      BY <1>1 DEF IdleJob
    <2> QED
      BY <1>1, <2>1, <2>3, <2>4, <2>5 DEF Recoverable, Found, Earned
  <1>4. \A w \in Workers : job'[w].pc # "link"
    BY <1>1 DEF IdleJob
  <1> QED
    BY <1>3, <1>4 DEF RecoveryInv

\* The administrator and the providers.
LEMMA OthersRecover ==
  ASSUME SaleInv, RecoveryInv,
         \/ \E s \in Sales : MarkSalePaid(s) \/ DepositProgress(s)
         \/ \E r \in Refunds : RefundProgress(r)
  PROVE  RecoveryInv'
  <1>0. /\ status \in [Sales -> Statuses] /\ deposit \in [Sales -> DepositStates]
        /\ chargedAt \in [Sales -> 0..MaxAge]
        /\ \A s \in Sales \ PayDunyaSales : status[s] # "none" => linked[s]
    BY DEF SaleInv, TypeOK, RecoveryInv, Recoverable
  <1>1. ASSUME NEW x \in Sales, MarkSalePaid(x)
        PROVE  RecoveryInv'
    <2>1. /\ status' = [status EXCEPT ![x] = "paid"] /\ status[x] # "none"
          /\ UNCHANGED <<linked, deposit, chargedAt, loop, age, job>>
      BY <1>1 DEF MarkSalePaid, world
    <2>2. ASSUME NEW s \in Sales \ PayDunyaSales
          PROVE  /\ status'[s] # "none" => linked'[s]
                 /\ status'[s] = status[s] \/ Earned(s)'
      BY <1>0, <2>1 DEF Earned
    <2> QED
      BY <2>1, <2>2, RowStepRecovers
  <1>2. ASSUME NEW x \in Sales, DepositProgress(x)
        PROVE  RecoveryInv'
    <2>1. PICK d \in DepositStates :
             /\ <<deposit[x], d>> \in DepositMoves
             /\ deposit' = [deposit EXCEPT ![x] = d]
             /\ chargedAt' = IF d = "completed" THEN [chargedAt EXCEPT ![x] = age[x]] ELSE chargedAt
             /\ UNCHANGED <<rows, refund, loop, age, job, effects>>
      BY <1>2 DEF DepositProgress
    <2>2. ASSUME NEW s \in Sales \ PayDunyaSales, deposit'[s] = "completed"
          PROVE  \/ deposit[s] = "completed" /\ chargedAt'[s] = chargedAt[s]
                 \/ chargedAt'[s] = age[s]
      BY <1>0, <2>1, <2>2
    <2>3. UNCHANGED <<status, linked>>
      BY <2>1 DEF rows
    <2> QED
      BY <1>0, <2>1, <2>2, <2>3, RowStepRecovers
  <1>3. ASSUME NEW r \in Refunds, RefundProgress(r)
        PROVE  RecoveryInv'
    <2>1. UNCHANGED <<status, linked, deposit, chargedAt, loop, age, job>>
      BY <1>3 DEF RefundProgress, rows
    <2> QED
      BY <1>0, <2>1, RowStepRecovers
  <1> QED
    BY <1>1, <1>2, <1>3

\* Every step keeps the charged sales recoverable.
LEMMA NextRecovers ==
  ASSUME Steady, SaleInv, RecoveryInv, [Next]_vars
  PROVE  RecoveryInv'
  <1>1. CASE UNCHANGED vars
    BY <1>1 DEF vars, rows, world, loop, RecoveryInv, Recoverable, Found, Awaited, Earned
  <1>2. \A w \in Workers : ~ Crash(w)
    BY DEF Crash, Steady
  <1> QED
    BY <1>1, <1>2, RequestRecovers, AnswerRecovers, ProceedRecovers, ReconcileRecovers, TickRecovers,
       OthersRecover DEF Next

\* The money of a buyer charged at least one period before the window closes is found
\* by a pass: once the window has closed the order is earned, for any number of sales
\* and of overlapping requests, while replicas and providers answer (pending and
\* recently failed passes of RunDepositReconcileLoop).
THEOREM ChargesAreFound ==
  ASSUME ~Crashes, ~Unreachable, Prompt, RecheckWindow <= ReconcileMaxAge
  PROVE  Spec => []NoStrandedCharge
  <1>0. Steady
    BY DEF Steady
  <1>1. Init => RecoveryInv
    BY DEF Init, RecoveryInv, Recoverable, IdleJob
  <1>2. SaleInv /\ RecoveryInv /\ [Next]_vars => RecoveryInv'
    BY <1>0, NextRecovers
  <1>3. SaleInv /\ RecoveryInv => NoStrandedCharge
    <2> SUFFICES ASSUME SaleInv, RecoveryInv, NEW s \in Sales \ PayDunyaSales, deposit[s] = "completed",
                        chargedAt[s] + ReconcileEvery < RecheckWindow, age[s] > RecheckWindow, ~Earned(s)
                 PROVE  FALSE
      BY DEF NoStrandedCharge, Earned
    <2>1. /\ age[s] \in Nat /\ chargedAt[s] \in Nat /\ clock \in 0..ReconcileEvery
          /\ RecheckWindow \in Nat /\ ReconcileEvery \in Nat
      BY SaleConstants DEF SaleInv, TypeOK
    <2>2. age[s] > chargedAt[s] + ReconcileEvery
      BY <2>1
    <2>3. Found(s)
      BY <2>1, <2>2 DEF RecoveryInv, Recoverable
    <2> QED
      BY <2>1, <2>2, <2>3 DEF Found
  <1> QED
    BY <1>1, <1>2, <1>3, Invariance, PTL DEF Spec

-----------------------------------------------------------------------------
(* Confirmations.  PaidHasEffects is a liveness property; what makes it so is *)
(* that a confirmation is never dropped between its two statements, and that  *)
(* a refund presupposes one, also of a sale marked failed in between.         *)

\* An administrator decided, the effects ran, or the worker that wrote "paid" is
\* about to run them.
Announced(s) ==
  \/ manual[s] \/ effects[s] > 0
  \/ \E w \in Workers : job[w].pc = "effects" /\ job[w].sale = s

EarnedIsAnnounced == \A s \in Sales : Earned(s) => Announced(s)

AskingRefund(w) == job[w].op = "refund" /\ job[w].pc = "ask"

AnnouncedInv ==
  /\ EarnedIsAnnounced
  /\ \A w \in Workers : AskingRefund(w) => Announced(job[w].sale)
  /\ \A r \in Refunds : refund[r].sale # NoSale => Announced(refund[r].sale)

\* A step drops no confirmation if it lets a worker leave the effects only when they
\* ran, and earns a sale, or begins or sends a refund, only of one announced.
LEMMA StepAnnounces ==
  ASSUME SaleInv, AnnouncedInv,
         \A s \in Sales : /\ manual[s] => manual'[s]
                          /\ effects[s] > 0 => effects'[s] > 0
                          /\ Earned(s)' => \/ Earned(s) \/ Announced(s) \/ manual'[s]
                                           \/ \E w \in Workers : job'[w].pc = "effects" /\ job'[w].sale = s,
         \A w \in Workers : /\ job[w].pc = "effects" => job'[w] = job[w] \/ effects'[job[w].sale] > 0
                            /\ AskingRefund(w)' => job'[w] = job[w] \/ Announced(job[w].sale)',
         \A r \in Refunds : refund'[r].sale = refund[r].sale \/ Announced(refund[r].sale)'
  PROVE  AnnouncedInv'
  <1>1. \A s \in Sales : Announced(s) => Announced(s)'
    BY DEF Announced
  <1>2. EarnedIsAnnounced'
    BY <1>1 DEF AnnouncedInv, EarnedIsAnnounced, Announced
  <1>3. ASSUME NEW w \in Workers, AskingRefund(w)'
        PROVE  Announced(job[w].sale)'
    <2>1. CASE job'[w] = job[w]
      <3>1. AskingRefund(w) /\ job[w].sale \in Sales
        BY <1>3, <2>1 DEF AskingRefund, SaleInv, SoundJobs, SoundJob
      <3>2. PICK s \in Sales : s = job[w].sale
        BY <3>1
      <3>3. Announced(s)'
        BY <1>1, <3>1, <3>2 DEF AnnouncedInv
      <3> QED
        BY <2>1, <3>2, <3>3 DEF Announced
    <2> QED
      BY <1>3, <2>1
  <1>4. ASSUME NEW r \in Refunds, refund'[r].sale # NoSale
        PROVE  Announced(refund[r].sale)'
    <2>1. CASE refund'[r].sale = refund[r].sale
      <3>1. PICK s \in Sales : s = refund[r].sale
        BY <1>4, <2>1 DEF SaleInv, TypeOK
      <3>2. Announced(s)'
        BY <1>1, <1>4, <2>1, <3>1 DEF AnnouncedInv
      <3> QED
        BY <2>1, <3>1, <3>2 DEF Announced
    <2> QED
      BY <1>4, <2>1
  <1> QED
    BY <1>2, <1>3, <1>4 DEF AnnouncedInv

\* What a handler reads announces nothing, and a refund starts from an earned sale.
LEMMA RequestAnnounces ==
  ASSUME SaleInv, AnnouncedInv, NEW h \in Handlers, Request(h)
  PROVE  AnnouncedInv'
  <1> PICK x \in Sales : \/ Create(h, x)
                         \/ \E op \in {"webhook", "poll", "check"} : ReadSale(h, op, x)
                         \/ ReadRefundable(h, x) \/ ReadRefundCallback(h, x)
    BY DEF Request
  <1>1. h \in Workers /\ status \in [Sales -> Statuses] /\ job \in [Workers -> Jobs]
    BY WorkersAre DEF SaleInv, TypeOK
  <1>2. /\ job[h] = IdleJob /\ job'[h].pc = "ask" /\ job'[h].sale = x
        /\ \A v \in Workers : v # h => job'[v] = job[v]
        /\ UNCHANGED <<manual, refund, effects>>
    BY <1>1 DEF Create, ReadSale, ReadRefundable, ReadRefundCallback, Reading, MayStart, world, rows
  <1>3. \A s \in Sales : Earned(s)' => Earned(s)
    BY <1>1 DEF Create, ReadSale, ReadRefundable, ReadRefundCallback, rows, Earned
  <1>4. job'[h].op = "refund" => Announced(x)
    BY <1>1 DEF Create, ReadSale, ReadRefundable, ReadRefundCallback, Reading, Earned,
                AnnouncedInv, EarnedIsAnnounced
  <1>5. AskingRefund(h)' => Announced(job[h].sale)'
    BY <1>1, <1>2, <1>4 DEF AskingRefund, Announced, IdleJob
  <1> QED
    BY <1>2, <1>3, <1>5, StepAnnounces DEF IdleJob, AskingRefund

\* A worker that only moves on, without touching the row or the refunds.
LEMMA GoingOnAnnounces ==
  ASSUME SaleInv, AnnouncedInv, NEW w \in Workers, NEW pc \in Pcs \ {"ask"}, Goto(w, pc),
         UNCHANGED <<manual, refund, effects>>, job[w].pc # "effects",
         \A s \in Sales : Earned(s)' => \/ Earned(s) \/ Announced(s)
                                        \/ pc = "effects" /\ job[w].sale = s
  PROVE  AnnouncedInv'
  <1>1. /\ \A v \in Workers : v # w => job'[v] = job[v]
        /\ pc = "idle" => job'[w] = IdleJob
        /\ pc # "idle" => job'[w].pc = pc /\ job'[w].sale = job[w].sale
    BY GotoStep DEF SaleInv, TypeOK, JobsOK
  <1>2. ~AskingRefund(w)'
    BY <1>1 DEF AskingRefund, IdleJob
  <1> QED
    BY <1>1, <1>2, StepAnnounces

\* What a handler hears or writes: a refund is recorded of a sale that has one, and
\* sent for one that was read as paid.
LEMMA AnswerAnnounces ==
  ASSUME SaleInv, AnnouncedInv, NEW h \in Handlers, Answer(h)
  PROVE  AnnouncedInv'
  <1>1. h \in Workers /\ JobsOK /\ status \in [Sales -> Statuses]
    BY WorkersAre DEF SaleInv, TypeOK, JobsOK
  <1>2. ASSUME UNCHANGED <<manual, refund, effects, status>>, job[h].pc # "effects",
               NEW pc \in Pcs \ {"ask"}, Goto(h, pc)
        PROVE  AnnouncedInv'
    BY <1>1, <1>2, GoingOnAnnounces DEF Earned
  <1>3. CASE InitiateDeposit(h) \/ LinkDeposit(h)
    BY <1>2, <1>3 DEF InitiateDeposit, LinkDeposit, rows, world, Pcs
  <1>4. CASE AskDeposit(h)
    <2>1. Verdict(job[h].op, job[h].sale, job[h].seen) \in Pcs \ {"ask"}
      BY DEF Verdict, Pcs
    <2> QED
      BY <1>2, <1>4, <2>1 DEF AskDeposit, rows, world, Pcs
  <1>5. CASE AskRefund(h)
    BY <1>2, <1>5 DEF AskRefund, rows, world, Pcs
  <1>6. CASE WriteRefundPending(h) \/ WriteRefunded(h)
    <2>1. /\ job[h].ref \in Refunds /\ refund[job[h].ref].sale = job[h].sale /\ job[h].sale \in Sales
          /\ job[h].pc # "effects" /\ Goto(h, "idle") /\ UNCHANGED <<manual, refund, effects>>
          /\ \A s \in Sales : s # job[h].sale => status'[s] = status[s]
      BY <1>1, <1>6 DEF WriteRefundPending, WriteRefunded, SaleInv, SoundJobs, SoundJob, world
    <2>2. Announced(job[h].sale)
      BY <2>1, SaleConstants DEF AnnouncedInv
    <2>3. \A s \in Sales : Earned(s)' => Earned(s) \/ Announced(s)
      BY <2>1, <2>2 DEF Earned
    <2> QED
      BY <1>1, <2>1, <2>3, GoingOnAnnounces DEF Pcs
  <1>7. CASE InitiateRefund(h)
    <2>1. job[h].op = "refund" /\ job[h].pc = "ask" /\ job[h].sale \in Sales
          /\ UNCHANGED <<manual, effects, status>> /\ job[h] \in Jobs
      BY <1>1, <1>7 DEF InitiateRefund, SaleInv, SoundJobs, SoundJob, rows, JobsOK
    <2>2. PICK x \in Sales : x = job[h].sale
      BY <2>1
    <2>3. Announced(x)
      BY <1>1, <2>1, <2>2 DEF AnnouncedInv, AskingRefund
    <2>4. /\ \A v \in Workers : v # h => job'[v] = job[v]
          /\ job'[h].pc # "ask"
      BY <1>1, <1>7, <2>1 DEF InitiateRefund, Goto, IdleJob, JobsOK, Jobs
    <2>5. Announced(x)'
      BY <2>1, <2>3, <2>4 DEF Announced
    <2>6. \A r \in Refunds : refund'[r].sale = refund[r].sale \/ refund'[r].sale = x
      BY <1>7, <2>2 DEF InitiateRefund, SaleInv, TypeOK
    <2>7. \A r \in Refunds : refund'[r].sale = refund[r].sale \/ Announced(refund[r].sale)'
      BY <2>5, <2>6 DEF Announced
    <2> QED
      BY <2>1, <2>4, <2>7, StepAnnounces DEF Earned, AskingRefund
  <1> QED
    BY <1>3, <1>4, <1>5, <1>6, <1>7 DEF Answer

\* A payment announces itself, a failure takes nothing back.
LEMMA ProceedAnnounces ==
  ASSUME SaleInv, AnnouncedInv, NEW w \in Workers, Proceed(w)
  PROVE  AnnouncedInv'
  <1>1. JobsOK /\ status \in [Sales -> Statuses] /\ effects \in [Sales -> Nat]
    BY DEF SaleInv, TypeOK, JobsOK
  <1>2. CASE WritePaid(w) \/ WriteFailed(w)
    BY <1>1, <1>2, GoingOnAnnounces DEF WritePaid, WriteFailed, world, Pcs, Earned
  <1>3. CASE RunEffects(w)
    <2>1. /\ job[w].sale \in Sales /\ effects'[job[w].sale] > 0
          /\ \A s \in Sales : effects[s] > 0 => effects'[s] > 0
          /\ UNCHANGED <<status, manual, refund>>
      BY <1>1, <1>3 DEF RunEffects, SaleInv, SoundJobs, SoundJob, rows, world
    <2>2. job'[w] = IdleJob /\ \A v \in Workers : v # w => job'[v] = job[v]
      BY <1>1, <1>3, GotoStep DEF RunEffects, Pcs
    <2> QED
      BY <2>1, <2>2, StepAnnounces DEF Earned, AskingRefund, IdleJob
  <1> QED
    BY <1>2, <1>3 DEF Proceed

\* While no replica stops, no step drops a confirmation.
LEMMA NextAnnounces ==
  ASSUME ~Crashes, SaleInv, AnnouncedInv, [Next]_vars
  PROVE  AnnouncedInv'
  <1>1. ASSUME UNCHANGED <<manual, effects, job, status>>,
               \A r \in Refunds : refund'[r].sale = refund[r].sale
        PROVE  AnnouncedInv'
    BY <1>1, StepAnnounces DEF Earned
  <1>2. CASE UNCHANGED vars \/ Tick
    BY <1>1, <1>2 DEF vars, rows, world, Tick
  <1>3. CASE \E s \in Sales : DepositProgress(s)
    BY <1>1, <1>3 DEF DepositProgress, rows
  <1>4. CASE \E r \in Refunds : RefundProgress(r)
    BY <1>1, <1>4 DEF RefundProgress, rows, SaleInv, TypeOK
  <1>5. CASE StartPass \/ NextList
    BY <1>1, <1>5 DEF StartPass, NextList, rows, world
  <1>6. ASSUME NEW s \in Sales, ReconcileSale(s)
        PROVE  AnnouncedInv'
    <2>1. /\ job[Loop] = IdleJob /\ ~AskingRefund(Loop)' /\ UNCHANGED <<manual, effects, status, refund>>
          /\ \A v \in Workers : v # Loop => job'[v] = job[v]
      BY <1>6, WorkersAre DEF ReconcileSale, rows, world, AskingRefund, IdleJob, Verdict, SaleInv, TypeOK
    <2> QED
      BY <2>1, StepAnnounces DEF Earned, IdleJob
  <1>7. ASSUME NEW s \in Sales, MarkSalePaid(s)
        PROVE  AnnouncedInv'
    BY <1>7, StepAnnounces DEF MarkSalePaid, world, Earned, SaleInv, TypeOK
  <1> QED
    BY <1>2, <1>3, <1>4, <1>5, <1>6, <1>7, RequestAnnounces, AnswerAnnounces, ProceedAnnounces
       DEF Next, Reconcile, Crash

\* A sale counted as earned, refunds included, was announced (emails, pool,
\* notifications) or is about to be by the worker that wrote it, or an administrator
\* confirmed it, whatever overlaps: only a replica that stops between
\* UpdateStatus(paid) and the goroutines of confirmPaidSaleUnguarded drops one.
THEOREM EarnedAnnounced ==
  ASSUME ~Crashes
  PROVE  Spec => []EarnedIsAnnounced
  <1>1. Init => AnnouncedInv
    BY DEF Init, AnnouncedInv, EarnedIsAnnounced, Earned, AskingRefund, IdleJob
  <1>2. SaleInv /\ AnnouncedInv /\ [Next]_vars => AnnouncedInv'
    BY NextAnnounces
  <1>3. AnnouncedInv => EarnedIsAnnounced
    BY DEF AnnouncedInv
  <1> QED
    BY <1>1, <1>2, <1>3, Invariance, PTL DEF Spec
=============================================================================
