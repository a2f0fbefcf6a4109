------------------------- MODULE SaleSerial_proofs -------------------------
(***************************************************************************)
(* What SaleLifecycle promises while no two requests for one sale overlap, *)
(* whatever happens to the other sales meanwhile and whatever is lost,     *)
(* unreachable or interrupted by a crash: one confirmation, one refund,    *)
(* and a status that only moves forward.  Each of the three is false when  *)
(* requests for one sale overlap.                                          *)
(***************************************************************************)
EXTENDS SaleLifecycle_proofs

-----------------------------------------------------------------------------
(* The inductive invariant *)

\* One worker per sale.
Alone == \A v, w \in Workers : v # w => job[v].sale # job[w].sale \/ job[v].sale = NoSale

Settling(j) == (j.pc = "ask" /\ j.op \in {"create", "webhook", "poll", "check"})
               \/ j.pc \in {"link", "paid", "failed"}

Refunding(j) == (j.pc = "ask" /\ j.op = "refund") \/ j.pc = "refund_pending"

Returning(j) == (j.pc = "ask" /\ j.op = "refundhook") \/ j.pc = "refunded"

\* What a worker read is still so when it writes.
JobSerial(w) ==
  LET s == job[w].sale
  IN  /\ job[w].pc = "idle" => job[w] = IdleJob
      /\ Settling(job[w]) => status[s] \in {"pending", "failed"}
      /\ Refunding(job[w]) => status[s] = "paid"
      /\ Returning(job[w]) => status[s] = "refund_pending"
      /\ job[w].pc = "effects" => status[s] = "paid" /\ effects[s] = 0 /\ ~manual[s]

JobsSerial == \A w \in Workers : JobSerial(w)

\* The status says whether a sale was announced and whether it was refunded.
RowSerial(s) ==
  /\ status[s] \in {"none", "pending", "failed"} => effects[s] = 0 /\ ~manual[s]
  /\ refundRef[s] # NoRefund => status[s] \in {"refund_pending", "refunded"}
  /\ effects[s] \in {0, 1} /\ (manual[s] => effects[s] = 0)

RowsSerial == \A s \in Sales : RowSerial(s)

\* The rows a list has not reached are as they were in its snapshot, and the loop's.
TodoSerial ==
  \A s \in todo : list # "none" =>
     status[s] = list /\ \A w \in Workers : job[w].sale # s

SerialInv == Alone /\ JobsSerial /\ RowsSerial /\ TodoSerial

-----------------------------------------------------------------------------
(* Frames *)

\* An idle worker has nothing to know.
LEMMA IdleIsSerial ==
  ASSUME NEW w \in Workers, job'[w] = IdleJob PROVE JobSerial(w)'
  BY DEF JobSerial, IdleJob, Settling, Refunding, Returning

\* A worker has sale s to itself, and touches that one only.
LEMMA OneSaleSerial ==
  ASSUME SaleInv, SerialInv, NEW w \in Workers, NEW s \in Sales,
         \A v \in Workers : v # w => job'[v] = job[v] /\ job[v].sale # s,
         job'[w] = IdleJob \/ job'[w].sale = s,
         list' = "none" \/ (list' = list /\ todo' \subseteq todo \ {s}),
         \A x \in Sales : x # s => /\ status'[x] = status[x] /\ effects'[x] = effects[x]
                                   /\ manual'[x] = manual[x] /\ refundRef'[x] = refundRef[x],
         RowSerial(s)', JobSerial(w)'
  PROVE  SerialInv'
  <1> USE DEF SerialInv
  <1>1. Alone'
    BY DEF Alone, IdleJob
  <1>2. JobsSerial'
    <2> SUFFICES ASSUME NEW v \in Workers, v # w PROVE JobSerial(v)'
      BY DEF JobsSerial
    <2>1. job'[v] = job[v] /\ job[v].sale # s /\ JobSerial(v)
      BY DEF JobsSerial
    <2>2. CASE job[v].pc = "idle"
      BY <2>1, <2>2 DEF JobSerial, Settling, Refunding, Returning
    <2>3. CASE job[v].pc # "idle"
      <3>1. job[v].sale \in Sales
        BY <2>3 DEF SaleInv, SoundJobs, SoundJob
      <3> QED
        BY <2>1, <3>1 DEF JobSerial, Settling, Refunding, Returning
    <2> QED
      BY <2>2, <2>3
  <1>3. RowsSerial'
    <2> SUFFICES ASSUME NEW x \in Sales, x # s PROVE RowSerial(x)'
      BY DEF RowsSerial
    <2> QED
      BY DEF RowsSerial, RowSerial
  <1>4. TodoSerial'
    <2> SUFFICES ASSUME NEW x \in todo, x # s, list # "none", list' = list
                 PROVE  status'[x] = list /\ \A v \in Workers : job'[v].sale # x
      BY DEF TodoSerial
    <2>1. x \in Sales /\ x # NoSale
      BY SaleConstants DEF SaleInv, TypeOK
    <2>2. status[x] = list /\ \A v \in Workers : job[v].sale # x
      BY DEF TodoSerial
    <2>3. job'[w].sale # x
      BY <2>1 DEF IdleJob
    <2> QED
      BY <2>1, <2>2, <2>3
  <1> QED
    BY <1>1, <1>2, <1>3, <1>4

\* Nobody's job and no row changes.
LEMMA StillSerial ==
  ASSUME SerialInv, UNCHANGED <<job, status, manual, refundRef, effects>>,
         list' = "none" \/ (list' = list /\ todo' = todo)
  PROVE  SerialInv'
  BY DEF SerialInv, Alone, JobsSerial, JobSerial, RowsSerial, RowSerial, TodoSerial

\* The others leave alone the sale of a busy worker, and so does the rest of the pass.
LEMMA OthersElsewhere ==
  ASSUME SaleInv, SerialInv, NEW w \in Workers, job[w].pc # "idle"
  PROVE  /\ job[w].sale \in Sales
         /\ \A v \in Workers : v # w => job[v].sale # job[w].sale
         /\ list # "none" => job[w].sale \notin todo
  <1>1. job[w].sale \in Sales /\ job[w].sale # NoSale
    BY SaleConstants DEF SaleInv, SoundJobs, SoundJob
  <1> QED
    BY <1>1 DEF SerialInv, Alone, TodoSerial

-----------------------------------------------------------------------------
(* Requests that start *)

\* A request that starts has the sale to itself, and knows what its row says.
LEMMA RequestSerial ==
  ASSUME ~Overlap, SaleInv, SerialInv, NEW h \in Handlers, Request(h)
  PROVE  SerialInv'
  <1> USE DEF SerialInv
  <1>h. h \in Workers /\ JobsOK /\ status \in [Sales -> Statuses]
    BY WorkersAre DEF SaleInv, TypeOK, JobsOK
  <1> PICK s \in Sales : \/ Create(h, s)
                         \/ \E op \in {"webhook", "poll", "check"} : ReadSale(h, op, s)
                         \/ ReadRefundable(h, s)
                         \/ ReadRefundCallback(h, s)
    BY DEF Request
  <1>q. Free(s)
    BY DEF MayStart, Create, ReadSale, ReadRefundable, ReadRefundCallback
  <1>u. UNCHANGED <<manual, refundRef, effects, list, todo>>
    BY DEF Create, ReadSale, ReadRefundable, ReadRefundCallback, rows, loop
  <1>j. PICK j \in Jobs : /\ job' = [job EXCEPT ![h] = j]
                          /\ j.sale = s /\ j.pc = "ask"
                          /\ \/ j.op \in {"create", "webhook", "poll", "check"}
                                /\ status'[s] \in {"pending", "failed"}
                             \/ j.op = "refund" /\ status'[s] = "paid"
                             \/ j.op = "refundhook" /\ status'[s] = "refund_pending"
    <2>1. CASE Create(h, s)
      <3>1. [Reading("create", s) EXCEPT !.seen = "pending"] \in Jobs
        BY <1>h, ReadingIsJob DEF Ops, Jobs, Statuses
      <3>2. status'[s] = "pending"
        BY <2>1, <1>h DEF Create
      <3> QED
        BY <2>1, <3>1, <3>2 DEF Create, Reading
    <2>2. ASSUME NEW op \in {"webhook", "poll", "check"}, ReadSale(h, op, s)
          PROVE  \E j \in Jobs : /\ job' = [job EXCEPT ![h] = j]
                                 /\ j.sale = s /\ j.pc = "ask" /\ j.op = op
                                 /\ status'[s] \in {"pending", "failed"}
      <3>1. Reading(op, s) \in Jobs
        BY <1>h, ReadingIsJob DEF Ops
      <3> QED
        BY <2>2, <3>1 DEF ReadSale, Reading, rows
    <2>3. CASE ReadRefundable(h, s)
      <3>1. Reading("refund", s) \in Jobs
        BY <1>h, ReadingIsJob DEF Ops
      <3> QED
        BY <2>3, <3>1 DEF ReadRefundable, Reading, rows
    <2>4. CASE ReadRefundCallback(h, s)
      <3>1. [Reading("refundhook", s) EXCEPT !.ref = refundRef[s]] \in Jobs
        <4>1. Reading("refundhook", s) \in Jobs /\ refundRef[s] \in Refunds \cup {NoRefund}
          BY <1>h, ReadingIsJob DEF Ops, SaleInv, TypeOK
        <4> QED
          BY <4>1 DEF Jobs
      <3>2. status'[s] = "refund_pending"
        BY <2>4 DEF ReadRefundCallback, rows, RowsSerial, RowSerial
      <3> QED
        BY <2>4, <3>1, <3>2 DEF ReadRefundCallback, Reading
    <2> QED
      BY <2>1, <2>2, <2>3, <2>4
  <1>1. job'[h] = j /\ \A v \in Workers : v # h => job'[v] = job[v]
    BY <1>h, <1>j DEF JobsOK
  <1>2. JobSerial(h)'
    BY <1>1, <1>j DEF JobSerial, Settling, Refunding, Returning
  <1>3. \A x \in Sales : \/ status'[x] = status[x]
                         \/ x = s /\ status[x] = "none" /\ status'[x] = "pending"
    BY <1>h DEF Create, ReadSale, ReadRefundable, ReadRefundCallback, rows
  <1>4. RowSerial(s)'
    BY <1>u, <1>3 DEF RowsSerial, RowSerial
  <1> QED
    BY <1>q, <1>h, <1>u, <1>j, <1>1, <1>2, <1>3, <1>4, OneSaleSerial DEF Free

-----------------------------------------------------------------------------
(* Workers that go on *)

\* The steps of a worker that write no row.
LEMMA AnswerSerial ==
  ASSUME SaleInv, SerialInv, NEW w \in Workers,
         \/ InitiateDeposit(w) \/ LinkDeposit(w) \/ AskDeposit(w) \/ InitiateRefund(w)
         \/ AskRefund(w) \/ Crash(w)
  PROVE  SerialInv'
  <1> USE DEF SerialInv
  <1>b. JobsOK /\ job[w] \in Jobs /\ JobSerial(w)
    BY DEF SaleInv, TypeOK, JobsOK, JobsSerial
  <1>u. UNCHANGED <<status, manual, refundRef, effects>>
    BY DEF InitiateDeposit, LinkDeposit, AskDeposit, InitiateRefund, AskRefund, Crash, rows, world
  <1>l. list' = "none" \/ (list' = list /\ todo' = todo)
    BY DEF InitiateDeposit, LinkDeposit, AskDeposit, InitiateRefund, AskRefund, Crash, loop
  <1>r. ASSUME NEW s \in Sales PROVE RowSerial(s)'
    BY <1>u DEF RowsSerial, RowSerial
  <1>o. ASSUME job[w].pc # "idle", job'[w] = IdleJob \/ job'[w].sale = job[w].sale,
               \A v \in Workers : v # w => job'[v] = job[v], JobSerial(w)'
        PROVE  SerialInv'
    <2>1. PICK s \in Sales : s = job[w].sale /\ (\A v \in Workers : v # w => job[v].sale # s)
                             /\ (list # "none" => s \notin todo)
      BY <1>o, OthersElsewhere
    <2>2. list' = "none" \/ (list' = list /\ todo' \subseteq todo \ {s})
      BY <2>1, <1>l
    <2> QED
      BY <1>o, <1>r, <1>u, <2>1, <2>2, OneSaleSerial
  <1>1. ASSUME NEW pc \in Pcs, Goto(w, pc), job[w].pc # "idle",
               pc \in {"link", "paid", "failed"} => Settling(job[w]),
               pc = "refunded" => Returning(job[w]),
               pc \notin {"ask", "refund_pending", "effects"}
        PROVE  SerialInv'
    <2>1. /\ \A v \in Workers : v # w => job'[v] = job[v]
          /\ pc = "idle" => job'[w] = IdleJob
          /\ pc # "idle" => job'[w].pc = pc /\ job'[w].sale = job[w].sale
      BY <1>1, <1>b, GotoStep
    <2>2. JobSerial(w)'
      <3>1. CASE pc = "idle"
        BY <3>1, <2>1, IdleIsSerial
      <3>2. CASE pc # "idle"
        <4>1. pc \in {"link", "paid", "failed", "refunded"}
          BY <1>1, <3>2 DEF Pcs
        <4> QED
          BY <4>1, <3>2, <2>1, <1>1, <1>b, <1>u DEF JobSerial, Settling, Refunding, Returning
      <3> QED
        BY <3>1, <3>2
    <2> QED
      BY <1>1, <1>o, <2>1, <2>2
  <1>2. CASE InitiateDeposit(w)
    <2>1. PICK pc \in {"link", "idle", "failed"} : Goto(w, pc)
      BY <1>2 DEF InitiateDeposit
    <2>2. Settling(job[w]) /\ job[w].pc # "idle"
      BY <1>2 DEF InitiateDeposit, Settling
    <2> QED
      BY <1>1, <2>1, <2>2 DEF Pcs
  <1>3. CASE LinkDeposit(w)
    <2>1. PICK pc \in {"idle", "failed"} : Goto(w, pc)
      BY <1>3 DEF LinkDeposit
    <2>2. Settling(job[w]) /\ job[w].pc # "idle"
      BY <1>3 DEF LinkDeposit, Settling
    <2> QED
      BY <1>1, <2>1, <2>2 DEF Pcs
  <1>4. CASE AskDeposit(w)
    <2>1. PICK pc \in {"paid", "failed", "idle"} : Goto(w, pc)
      BY <1>4 DEF AskDeposit, Verdict
    <2>2. Settling(job[w]) /\ job[w].pc # "idle"
      BY <1>4 DEF AskDeposit, Settling
    <2> QED
      BY <1>1, <2>1, <2>2 DEF Pcs
  <1>5. CASE InitiateRefund(w)
    <2>1. CASE Goto(w, "idle")
      BY <1>1, <1>5, <2>1 DEF InitiateRefund, Pcs
    <2>2. ASSUME NEW r \in Refunds, job' = [job EXCEPT ![w].pc = "refund_pending", ![w].ref = r]
          PROVE  SerialInv'
      <3>1. \A v \in Workers : v # w => job'[v] = job[v]
        BY <2>2, <1>b DEF JobsOK
      <3>2. job'[w].pc = "refund_pending" /\ job'[w].sale = job[w].sale
        BY <2>2, <1>b DEF JobsOK, Jobs
      <3>3. JobSerial(w)'
        BY <3>2, <1>5, <1>b, <1>u DEF JobSerial, Settling, Refunding, Returning, InitiateRefund
      <3> QED
        BY <1>5, <1>o, <3>1, <3>2, <3>3 DEF InitiateRefund
    <2> QED
      BY <1>5, <2>1, <2>2 DEF InitiateRefund
  <1>6. CASE AskRefund(w)
    <2>1. PICK pc \in {"refunded", "idle"} : Goto(w, pc)
      BY <1>6 DEF AskRefund
    <2>2. Returning(job[w]) /\ job[w].pc # "idle"
      BY <1>6 DEF AskRefund, Returning
    <2> QED
      BY <1>1, <2>1, <2>2 DEF Pcs
  <1>7. CASE Crash(w)
    <2>1. Goto(w, "idle")
      BY <1>7 DEF Crash
    <2>2. CASE job[w].pc # "idle"
      BY <2>1, <2>2, <1>1 DEF Pcs
    <2>3. CASE job[w] = IdleJob
      <3>1. job' = job
        BY <2>1, <2>3, <1>b DEF Goto, JobsOK
      <3> QED
        BY <3>1, <1>u, <1>l, StillSerial
    <2> QED
      BY <2>2, <2>3, <1>b DEF JobSerial
  <1> QED
    BY <1>2, <1>3, <1>4, <1>5, <1>6, <1>7

\* The steps of a worker that write its row or announce it.
LEMMA WriteSerial ==
  ASSUME SaleInv, SerialInv, NEW w \in Workers,
         \/ WritePaid(w) \/ RunEffects(w) \/ WriteFailed(w)
         \/ WriteRefundPending(w) \/ WriteRefunded(w)
  PROVE  SerialInv'
  <1> USE DEF SerialInv
  <1>s. PICK s \in Sales : s = job[w].sale
    BY DEF WritePaid, RunEffects, WriteFailed, WriteRefundPending, WriteRefunded,
           SaleInv, SoundJobs, SoundJob
  <1>b. JobsOK /\ job[w] \in Jobs /\ JobSerial(w) /\ job[w] # IdleJob /\ job[w].sale = s
    BY <1>s DEF WritePaid, RunEffects, WriteFailed, WriteRefundPending, WriteRefunded, IdleJob,
           SaleInv, TypeOK, JobsOK, JobsSerial
  <1>t. /\ status \in [Sales -> Statuses] /\ effects \in [Sales -> Nat]
        /\ refundRef \in [Sales -> Refunds \cup {NoRefund}]
    BY DEF SaleInv, TypeOK
  <1>n. job[w].pc # "idle"
    BY DEF WritePaid, RunEffects, WriteFailed, WriteRefundPending, WriteRefunded
  <1>l. list' = list /\ todo' = todo /\ manual' = manual
    BY DEF WritePaid, RunEffects, WriteFailed, WriteRefundPending, WriteRefunded, loop, rows
  <1>g. PICK pc \in {"idle", "effects"} : Goto(w, pc) /\ (pc = "effects" => WritePaid(w))
    BY DEF WritePaid, RunEffects, WriteFailed, WriteRefundPending, WriteRefunded
  <1>1. /\ \A v \in Workers : v # w => job'[v] = job[v]
        /\ pc = "idle" => job'[w] = IdleJob
        /\ pc = "effects" => job'[w].pc = "effects" /\ job'[w].sale = s
    BY <1>b, <1>g, GotoStep DEF Pcs
  <1>2. \A x \in Sales : x # s => /\ status'[x] = status[x] /\ effects'[x] = effects[x]
                                  /\ refundRef'[x] = refundRef[x]
    BY <1>b, <1>t DEF WritePaid, RunEffects, WriteFailed, WriteRefundPending, WriteRefunded, rows
  <1>3. RowSerial(s)
    BY <1>b DEF RowsSerial
  <1>4. RowSerial(s)' /\ JobSerial(w)'
    <2>1. CASE WritePaid(w)
      <3>1. status'[s] = "paid" /\ effects'[s] = effects[s] /\ refundRef' = refundRef /\ pc = "effects"
        BY <2>1, <1>b, <1>t, <1>g, <1>1 DEF WritePaid, Goto, JobsOK, Jobs, IdleJob
      <3>2. effects[s] = 0 /\ ~manual[s] /\ refundRef[s] = NoRefund
        BY <2>1, <1>b, <1>3 DEF WritePaid, JobSerial, Settling, RowSerial
      <3>3. JobSerial(w)'
        BY <3>1, <3>2, <1>1, <1>l DEF JobSerial, Settling, Refunding, Returning
      <3> QED
        BY <3>1, <3>2, <3>3, <1>l DEF RowSerial
    <2>2. CASE RunEffects(w)
      <3>1. status' = status /\ effects'[s] = effects[s] + 1 /\ refundRef' = refundRef /\ pc = "idle"
        BY <2>2, <1>b, <1>t, <1>g DEF RunEffects, rows, WritePaid
      <3>2. status[s] = "paid" /\ effects[s] = 0 /\ ~manual[s]
        BY <2>2, <1>b DEF RunEffects, JobSerial
      <3>3. JobSerial(w)'
        BY <3>1, <1>1, IdleIsSerial
      <3> QED
        BY <3>1, <3>2, <3>3, <1>3, <1>l DEF RowSerial
    <2>3. CASE WriteFailed(w)
      <3>1. status'[s] = "failed" /\ effects' = effects /\ refundRef' = refundRef /\ pc = "idle"
        BY <2>3, <1>b, <1>t, <1>g DEF WriteFailed, WritePaid
      <3>2. effects[s] = 0 /\ ~manual[s] /\ refundRef[s] = NoRefund
        BY <2>3, <1>b, <1>3 DEF WriteFailed, JobSerial, Settling, RowSerial
      <3>3. JobSerial(w)'
        BY <3>1, <1>1, IdleIsSerial
      <3> QED
        BY <3>1, <3>2, <3>3, <1>l DEF RowSerial
    <2>4. CASE WriteRefundPending(w) \/ WriteRefunded(w)
      <3>1. status'[s] \in {"refund_pending", "refunded"} /\ effects' = effects /\ pc = "idle"
        BY <2>4, <1>b, <1>t, <1>g DEF WriteRefundPending, WriteRefunded, WritePaid
      <3>3. JobSerial(w)'
        BY <3>1, <1>1, IdleIsSerial
      <3> QED
        BY <3>1, <3>3, <1>3, <1>l DEF RowSerial
    <2> QED
      BY <2>1, <2>2, <2>3, <2>4
  <1>5. /\ \A v \in Workers : v # w => job[v].sale # s
        /\ list # "none" => s \notin todo
    BY <1>b, <1>n, OthersElsewhere
  <1>6. job'[w] = IdleJob \/ job'[w].sale = s
    BY <1>1, <1>g
  <1>7. list' = "none" \/ (list' = list /\ todo' \subseteq todo \ {s})
    BY <1>l, <1>5
  <1> QED
    BY <1>1, <1>2, <1>4, <1>5, <1>6, <1>7, <1>l, OneSaleSerial

-----------------------------------------------------------------------------
(* The loop, the administrator's button, the provider and the clock *)

\* They take sales nobody works on, read rows nobody is writing, or leave the rows alone.
LEMMA OtherSerial ==
  ASSUME ~Overlap, SaleInv, SerialInv,
         \/ Reconcile \/ Tick
         \/ \E s \in Sales : MarkSalePaid(s) \/ DepositProgress(s)
         \/ \E r \in Refunds : RefundProgress(r)
  PROVE  SerialInv'
  <1> USE DEF SerialInv
  <1>b. JobsOK /\ status \in [Sales -> Statuses] /\ todo \subseteq Sales
    BY DEF SaleInv, TypeOK, JobsOK
  <1>1. CASE StartPass \/ NextList
    <2>1. UNCHANGED <<job, status, manual, refundRef, effects>>
      BY <1>1 DEF StartPass, NextList, rows
    <2>2. list' # "none" => \A s \in todo' : status[s] = list' /\ Free(s)
      BY <1>1 DEF StartPass, NextList, PendingList, RecentFailedList
    <2>3. TodoSerial'
      BY <2>1, <2>2 DEF TodoSerial, Free
    <2> QED
      BY <2>1, <2>3 DEF Alone, JobsSerial, JobSerial, RowsSerial, RowSerial
  <1>2. ASSUME NEW s \in Sales, ReconcileSale(s)
        PROVE  SerialInv'
    <2>1. UNCHANGED <<status, manual, refundRef, effects, list>> /\ job[Loop] = IdleJob
          /\ list # "none" /\ s \in todo /\ todo' = todo \ {s}
      BY <1>2 DEF ReconcileSale, rows
    <2>2. PICK pc \in {Verdict(list, s, list), "idle"} :
             job' = [job EXCEPT ![Loop] =
                       IF pc = "idle" THEN IdleJob
                       ELSE [op |-> list, pc |-> pc, sale |-> s, seen |-> list,
                             ref |-> NoRefund]]
      BY <1>2 DEF ReconcileSale
    <2>3. \A w \in Workers : w # Loop => job'[w] = job[w] /\ job[w].sale # s
      BY <2>1, <2>2, <1>b DEF TodoSerial, JobsOK
    <2>4. \/ pc = "idle" /\ job'[Loop] = IdleJob
          \/ pc # "idle" /\ job'[Loop].pc = pc /\ job'[Loop].sale = s
      BY <2>2, <1>b, WorkersAre DEF JobsOK
    <2>5. status[s] = list /\ list \in {"pending", "failed"}
      BY <2>1 DEF TodoSerial, SaleInv, TypeOK
    <2>6. JobSerial(Loop)'
      <3>1. CASE pc = "idle"
        BY <3>1, <2>4, IdleIsSerial, WorkersAre
      <3>2. CASE pc # "idle"
        <4>1. pc \in {"paid", "failed"}
          BY <2>2, <3>2, VerdictIsSound
        <4> QED
          BY <4>1, <3>2, <2>1, <2>4, <2>5 DEF JobSerial, Settling, Refunding, Returning
      <3> QED
        BY <3>1, <3>2
    <2>7. RowSerial(s)'
      BY <2>1 DEF RowsSerial, RowSerial
    <2> QED
      BY <2>1, <2>3, <2>4, <2>6, <2>7, WorkersAre, OneSaleSerial
  <1>3. ASSUME NEW s \in Sales, MarkSalePaid(s)
        PROVE  SerialInv'
    <2>1. Free(s) /\ UNCHANGED <<job, refundRef, effects, list, todo>>
      BY <1>3 DEF MarkSalePaid, loop
    <2>2. /\ status[s] \in {"pending", "failed"} /\ status'[s] = "paid"
          /\ \A x \in Sales : x # s => status'[x] = status[x] /\ manual'[x] = manual[x]
      BY <1>3, <1>b DEF MarkSalePaid, SaleInv, TypeOK
    <2>3. RowSerial(s)'
      BY <2>1, <2>2 DEF RowsSerial, RowSerial
    <2>4. JobsSerial'
      <3> SUFFICES ASSUME NEW w \in Workers PROVE JobSerial(w)'
        BY DEF JobsSerial
      <3>1. JobSerial(w) /\ job'[w] = job[w] /\ job[w].sale # s
        BY <2>1 DEF JobsSerial, Free
      <3>2. job[w].pc # "idle" => job[w].sale \in Sales
        BY DEF SaleInv, SoundJobs, SoundJob
      <3> QED
        BY <2>1, <2>2, <3>1, <3>2 DEF JobSerial, Settling, Refunding, Returning
    <2>5. TodoSerial'
      BY <2>1, <2>2, <1>b DEF TodoSerial, Free
    <2>6. RowsSerial'
      BY <2>1, <2>2, <2>3 DEF RowsSerial, RowSerial
    <2> QED
      BY <2>1, <2>4, <2>5, <2>6 DEF Alone
  <1>4. CASE Tick \/ (\E s \in Sales : DepositProgress(s)) \/ (\E r \in Refunds : RefundProgress(r))
    <2>1. UNCHANGED <<job, status, manual, refundRef, effects, list, todo>>
      BY <1>4 DEF Tick, DepositProgress, RefundProgress, rows, loop
    <2> QED
      BY <2>1, StillSerial
  <1> QED
    BY <1>1, <1>2, <1>3, <1>4 DEF Reconcile

-----------------------------------------------------------------------------
(* The invariant *)

\* Nothing is in progress initially.
LEMMA InitSerial == Init => SerialInv
  <1> SUFFICES ASSUME Init PROVE SerialInv
    OBVIOUS
  <1>1. \A w \in Workers : job[w] = IdleJob /\ job[w].pc = "idle" /\ job[w].sale = NoSale
    BY DEF Init, IdleJob
  <1>2. Alone /\ JobsSerial /\ TodoSerial
    BY <1>1 DEF Init, Alone, JobsSerial, JobSerial, TodoSerial, Settling, Refunding, Returning
  <1>3. RowsSerial
    BY DEF Init, RowsSerial, RowSerial
  <1> QED
    BY <1>2, <1>3 DEF SerialInv

\* It is inductive.
LEMMA NextSerial ==
  ASSUME ~Overlap
  PROVE  SaleInv /\ SerialInv /\ [Next]_vars => SerialInv'
  <1> SUFFICES ASSUME SaleInv, SerialInv, [Next]_vars PROVE SerialInv'
    OBVIOUS
  <1>1. CASE UNCHANGED vars
    <2>1. UNCHANGED <<job, status, manual, refundRef, effects, list, todo>>
      BY <1>1 DEF vars, rows, loop
    <2> QED
      BY <2>1, StillSerial
  <1>2. ASSUME NEW h \in Handlers, Request(h) \/ Answer(h)
        PROVE  SerialInv'
    BY <1>2, RequestSerial, AnswerSerial, WriteSerial, WorkersAre DEF Answer
  <1>3. ASSUME NEW w \in Workers, Proceed(w) \/ Crash(w)
        PROVE  SerialInv'
    BY <1>3, AnswerSerial, WriteSerial DEF Proceed
  <1> QED
    BY <1>1, <1>2, <1>3, OtherSerial DEF Next

\* While no two requests for one sale overlap, what one read is still so when it
\* writes, whatever is done to the other sales in between.
THEOREM SerialInvariance ==
  ASSUME ~Overlap
  PROVE  Spec => []SerialInv
  BY InitSerial, NextSerial, Invariance, PTL DEF Spec

\* Buyer and vendor learn of a payment once: from the provider's confirmation
\* (confirmPaidSaleUnguarded), with which the donation pool grows, or from
\* MarkSalePaid, which leaves the pool alone; never from both.
THEOREM AnnouncedOnce ==
  ASSUME ~Overlap
  PROVE  Spec => []ConfirmedOnce
  <1>1. ASSUME SerialInv, NEW s \in Sales
        PROVE  effects[s] + (IF manual[s] THEN 1 ELSE 0) <= 1
    <2>1. RowSerial(s)
      BY <1>1 DEF SerialInv, RowsSerial
    <2>2. CASE manual[s]
      <3>1. effects[s] = 0
        BY <2>1, <2>2 DEF RowSerial
      <3>2. (IF manual[s] THEN 1 ELSE 0) = 1
        BY <2>2
      <3> QED
        BY <3>1, <3>2
    <2>3. CASE ~manual[s]
      <3>1. effects[s] \in {0, 1}
        BY <2>1 DEF RowSerial
      <3>2. (IF manual[s] THEN 1 ELSE 0) = 0
        BY <2>3
      <3> QED
        BY <3>1, <3>2
    <2> QED
      BY <2>2, <2>3
  <1> QED
    <2>1. SerialInv => ConfirmedOnce
      BY <1>1 DEF ConfirmedOnce
    <2> QED
      BY <2>1, SerialInvariance, PTL

\* A step decides of one sale, by a move forward: only WriteFailed may repeat what
\* the row says already.
LEMMA StatusMoves ==
  ASSUME SaleInv, SerialInv, [Next]_vars
  PROVE  \/ status' = status
         \/ \E s \in Sales, m \in ForwardMoves :
               status[s] = m[1] /\ status' = [status EXCEPT ![s] = m[2]]
  <1> DEFINE Forward(s, x) == \/ status' = status
                              \/ /\ <<status[s], x>> \in ForwardMoves
                                 /\ status' = [status EXCEPT ![s] = x]
  <1>t. status \in [Sales -> Statuses]
    BY DEF SaleInv, TypeOK
  <1>1. ASSUME UNCHANGED vars
        PROVE  status' = status
    BY <1>1 DEF vars, rows
  <1>2. ASSUME NEW h \in Handlers, Request(h)
        PROVE  \E s \in Sales : Forward(s, "pending")
    BY <1>2 DEF Request, Create, ReadSale, ReadRefundable, ReadRefundCallback, rows, ForwardMoves
  <1>3. ASSUME NEW w \in Workers, Answer(w) \/ Proceed(w) \/ Crash(w)
        PROVE  status' = status \/ \E s \in Sales, x \in Statuses : Forward(s, x)
    <2>s. JobSerial(w) /\ SoundJob(w)
      BY DEF SerialInv, JobsSerial, SaleInv, SoundJobs
    <2>1. CASE WritePaid(w) \/ WriteFailed(w)
      <3>1. job[w].sale \in Sales /\ status[job[w].sale] \in {"pending", "failed"}
        BY <2>s, <2>1 DEF WritePaid, WriteFailed, JobSerial, Settling, SoundJob
      <3>2. Forward(job[w].sale, "paid") \/ Forward(job[w].sale, "failed")
        BY <2>1, <3>1, <1>t DEF WritePaid, WriteFailed, ForwardMoves
      <3> QED
        BY <3>1, <3>2 DEF Statuses
    <2>2. CASE WriteRefundPending(w)
      <3>1. job[w].sale \in Sales /\ status[job[w].sale] = "paid"
        BY <2>s, <2>2 DEF WriteRefundPending, JobSerial, Refunding, SoundJob
      <3> QED
        BY <2>2, <3>1 DEF WriteRefundPending, ForwardMoves, Statuses
    <2>3. CASE WriteRefunded(w)
      <3>1. job[w].sale \in Sales /\ status[job[w].sale] = "refund_pending"
        BY <2>s, <2>3 DEF WriteRefunded, JobSerial, Returning, SoundJob
      <3> QED
        BY <2>3, <3>1 DEF WriteRefunded, ForwardMoves, Statuses
    <2>4. CASE \/ InitiateDeposit(w) \/ LinkDeposit(w) \/ AskDeposit(w) \/ InitiateRefund(w)
               \/ AskRefund(w) \/ Crash(w) \/ RunEffects(w)
      BY <2>4 DEF InitiateDeposit, LinkDeposit, AskDeposit, InitiateRefund, AskRefund, Crash,
                  RunEffects, rows
    <2> QED
      BY <1>3, <2>1, <2>2, <2>3, <2>4 DEF Answer, Proceed
  <1>4. ASSUME NEW s \in Sales, MarkSalePaid(s)
        PROVE  Forward(s, "paid")
    BY <1>4 DEF MarkSalePaid, ForwardMoves
  <1>5. ASSUME \/ Reconcile \/ Tick \/ \E s \in Sales : DepositProgress(s)
               \/ \E r \in Refunds : RefundProgress(r)
        PROVE  status' = status
    BY <1>5 DEF Reconcile, StartPass, NextList, ReconcileSale, Tick, DepositProgress,
                RefundProgress, rows
  <1>6. status' = status \/ \E s \in Sales, x \in Statuses : Forward(s, x)
    <2>1. {"pending", "paid"} \subseteq Statuses
      BY DEF Statuses
    <2> HIDE DEF Forward
    <2> QED
      BY <1>1, <1>2, <1>3, <1>4, <1>5, <2>1, WorkersAre DEF Next
  <1>7. ASSUME NEW s \in Sales, NEW x, <<status[s], x>> \in ForwardMoves
        PROVE  \E m \in ForwardMoves : status[s] = m[1] /\ x = m[2]
    BY <1>7
  <1> QED
    BY <1>6, <1>7

\* A sale never goes back: no late verdict is written over a later status.
THEOREM StatusForward ==
  ASSUME ~Overlap
  PROVE  Spec => MovesForward
  <1> DEFINE Forward == \A s \in Sales : status'[s] = status[s]
                                         \/ <<status[s], status'[s]>> \in ForwardMoves
  <1>1. ASSUME SaleInv, SerialInv, [Next]_vars, NEW s \in Sales
        PROVE  status'[s] = status[s] \/ <<status[s], status'[s]>> \in ForwardMoves
    <2>1. status \in [Sales -> Statuses]
      BY <1>1 DEF SaleInv, TypeOK
    <2>2. CASE status' # status
      <3>1. PICK x \in Sales, m \in ForwardMoves :
                   status[x] = m[1] /\ status' = [status EXCEPT ![x] = m[2]]
        BY <1>1, <2>2, StatusMoves
      <3>2. m = <<m[1], m[2]>>
        BY DEF ForwardMoves
      <3> QED
        BY <2>1, <3>1, <3>2
    <2> QED
      BY <2>2
  <1>2. SaleInv /\ SerialInv /\ [Next]_vars => [Forward]_status
    BY <1>1
  <1>3. [Forward]_status <=> [\A s \in Sales : status'[s] = status[s]
                                 \/ <<status[s], status'[s]>> \in ForwardMoves]_status
    OBVIOUS
  <1> HIDE DEF Forward
  <1> QED
    BY <1>2, <1>3, Invariance, SerialInvariance, PTL DEF Spec, MovesForward

\* The detailed lifecycle, with its unguarded writes, lost answers and crashes,
\* implements what the others count on: OrderOutcome.
THEOREM OutcomeKept ==
  ASSUME ~Overlap
  PROVE  Spec => KeepsOutcome
  <1>1. Init => Outcome!Init
    BY DEF Init, Outcome!Init
  <1>2. SaleInv /\ SerialInv /\ [Next]_vars => [Outcome!Next]_status
    <2> SUFFICES ASSUME SaleInv, SerialInv, [Next]_vars, status' # status
                 PROVE  Outcome!Next
      OBVIOUS
    <2>1. PICK s \in Sales, m \in ForwardMoves :
                 status[s] = m[1] /\ status' = [status EXCEPT ![s] = m[2]]
      BY StatusMoves
    <2>2. m \in Outcome!Moves
      BY DEF ForwardMoves, Outcome!Moves, Outcome!Placed, Outcome!Settled, Outcome!Returned
    <2> QED
      BY <2>1, <2>2 DEF Outcome!Next, Outcome!Move
  <1> QED
    BY <1>1, <1>2, Invariance, SerialInvariance, PTL DEF Spec, KeepsOutcome, Outcome!Spec

\* A sale whose refund was recorded is not refunded again: RefundSale starts from
\* a row read as paid, and SetRefundReference leaves that state for good.
THEOREM ReturnedOnce ==
  ASSUME ~Overlap
  PROVE  Spec => RefundedOnce
  <1> DEFINE Once == \A r \in Refunds :
                        refund[r].sale = NoSale /\ refund'[r].sale # NoSale
                          => refundRef[refund'[r].sale] = NoRefund
  <1>1. ASSUME SaleInv, SerialInv, [Next]_vars, NEW r \in Refunds,
               refund[r].sale = NoSale, refund'[r].sale # NoSale
        PROVE  refundRef[refund'[r].sale] = NoRefund
    <2> USE <1>1
    <2>t. refund \in [Refunds -> [sale: Sales \cup {NoSale},
                                  state: {"submitted", "completed", "failed"}]]
      BY DEF SaleInv, TypeOK
    <2>1. PICK w \in Workers : InitiateRefund(w)
      <3>1. CASE UNCHANGED vars
        BY <3>1 DEF vars, world
      <3>2. ASSUME NEW h \in Handlers, Request(h)
            PROVE  FALSE
        BY <3>2 DEF Request, Create, ReadSale, ReadRefundable, ReadRefundCallback, world
      <3>3. ASSUME NEW w \in Workers, Answer(w) \/ Proceed(w) \/ Crash(w)
            PROVE  InitiateRefund(w)
        BY <3>3 DEF Answer, Proceed, Crash, InitiateDeposit, LinkDeposit, AskDeposit, AskRefund,
                    WriteRefundPending, WriteRefunded, WritePaid, WriteFailed, RunEffects, world
      <3>4. CASE \/ Reconcile \/ Tick \/ \E s \in Sales : MarkSalePaid(s) \/ DepositProgress(s)
        BY <3>4 DEF Reconcile, StartPass, NextList, ReconcileSale, Tick, MarkSalePaid,
                    DepositProgress, world
      <3>5. ASSUME NEW x \in Refunds, RefundProgress(x)
            PROVE  FALSE
        BY <3>5, <2>t DEF RefundProgress
      <3> QED
        BY <3>1, <3>2, <3>3, <3>4, <3>5, WorkersAre DEF Next
    <2>2. job[w].sale \in Sales /\ status[job[w].sale] = "paid"
      BY <2>1 DEF InitiateRefund, SaleInv, SoundJobs, SoundJob, SerialInv, JobsSerial, JobSerial,
                  Refunding
    <2>3. refund'[r].sale = job[w].sale
      BY <2>1, <2>t DEF InitiateRefund
    <2> QED
      BY <2>2, <2>3 DEF SerialInv, RowsSerial, RowSerial
  <1>2. SaleInv /\ SerialInv /\ [Next]_vars => [Once]_refund
    BY <1>1
  <1>3. [Once]_refund <=> [\A r \in Refunds :
                        refund[r].sale = NoSale /\ refund'[r].sale # NoSale
                          => refundRef[refund'[r].sale] = NoRefund]_refund
    OBVIOUS
  <1> HIDE DEF Once
  <1> QED
    BY <1>2, <1>3, Invariance, SerialInvariance, PTL DEF Spec, RefundedOnce

=============================================================================
