----------------------- MODULE PayoutLifecycle_proofs -----------------------
(***************************************************************************)
(* Type correctness and safety of PayoutLifecycle, for any number of       *)
(* payouts, transfers and requests, and for every setting of the adversity *)
(* (overlap, lost answers, crashes).                                       *)
(***************************************************************************)
EXTENDS PayoutLifecycle, TLAPS

JobsOK == job \in [Workers -> Jobs]

TransferRecords == [payout: Payouts \cup {NoPayout}, state: {"submitted", "completed", "failed"}]

-----------------------------------------------------------------------------
(* Lemmas about the vocabulary *)

\* Handlers and the loop are workers.
LEMMA WorkersAre == Loop \in Workers /\ \A h \in Handlers : h \in Workers
  BY DEF Workers

\* The idle job is a job.
LEMMA IdleIsJob == IdleJob \in Jobs
  BY PayoutConstants DEF IdleJob, Jobs, Ops, Pcs

\* Going on changes the job of one worker, and of that job the pc only.
LEMMA GotoStep ==
  ASSUME JobsOK, NEW w \in Workers, NEW pc \in Pcs, Goto(w, pc)
  PROVE  /\ job' \in [Workers -> Jobs]
         /\ \A v \in Workers : v # w => job'[v] = job[v]
         /\ pc = "idle" => job'[w] = IdleJob
         /\ pc # "idle" => /\ job'[w].pc = pc
                           /\ job'[w].payout = job[w].payout
                           /\ job'[w].ref = job[w].ref
  <1>1. job[w] \in Jobs
    BY DEF JobsOK
  <1>2. [job[w] EXCEPT !.pc = pc] \in Jobs
    BY <1>1 DEF Jobs
  <1>3. job' = [job EXCEPT ![w] = IF pc = "idle" THEN IdleJob
                                  ELSE [job[w] EXCEPT !.pc = pc]]
    BY DEF Goto
  <1> QED
    BY <1>1, <1>2, <1>3, IdleIsJob DEF JobsOK, Jobs

\* A request that starts on a row takes the reference the row has.
LEMMA BeginStep ==
  ASSUME JobsOK, ref \in [Payouts -> Transfers \cup {NoTransfer}],
         NEW w \in Workers, NEW op \in Ops, NEW pc \in Pcs, NEW p \in Payouts,
         Begin(w, op, pc, p)
  PROVE  /\ job' \in [Workers -> Jobs]
         /\ \A v \in Workers : v # w => job'[v] = job[v]
         /\ job'[w].pc = pc /\ job'[w].payout = p /\ job'[w].ref = ref[p]
  <1> DEFINE j == [op |-> op, pc |-> pc, payout |-> p, ref |-> ref[p], room |-> 0]
  <1>1. j \in Jobs
    BY PayoutConstants DEF Jobs
  <1>2. job' = [job EXCEPT ![w] = j]
    BY DEF Begin
  <1> QED
    BY <1>1, <1>2 DEF JobsOK

\* A transfer's answer leads to a status or to nothing.
LEMMA VerdictIsSound ==
  ASSUME NEW t
  PROVE  /\ Verdict(t) \in {"paid", "failed", "idle"} /\ Verdict(t) \in Pcs
         /\ Verdict(t) = "paid" => transfer[t].state = "completed"
  BY DEF Verdict, Pcs

-----------------------------------------------------------------------------
(* Type correctness *)

\* TypeOK holds initially.
LEMMA InitTypeOK == Init => TypeOK
  <1> SUFFICES ASSUME Init PROVE TypeOK
    OBVIOUS
  <1>1. job \in [Workers -> Jobs]
    BY IdleIsJob DEF Init
  <1>2. earned \in 0..MaxEarned
    BY PayoutConstants DEF Init
  <1>3. transfer \in [Transfers -> TransferRecords]
    BY DEF Init, TransferRecords
  <1> QED
    BY <1>1, <1>2, <1>3 DEF Init, TypeOK, Statuses, TransferRecords

\* Requests keep the types when they start.
LEMMA RequestTypeOK ==
  ASSUME TypeOK, NEW h \in Handlers, Request(h)
  PROVE  TypeOK'
  <1> USE DEF TypeOK, JobsOK
  <1>h. h \in Workers
    BY WorkersAre
  <1>1. CASE AskBalance(h)
    <2>1. [IdleJob EXCEPT !.op = "create", !.pc = "list", !.room = earned] \in Jobs
      BY IdleIsJob DEF Jobs, Ops, Pcs
    <2> QED
      BY <1>1, <1>h, <2>1 DEF AskBalance, rows, loop
  <1>2. ASSUME NEW p \in Payouts, CreateDirect(h, p)
        PROVE  TypeOK'
    <2>1. job' \in [Workers -> Jobs]
      BY <1>2, <1>h, BeginStep DEF CreateDirect, Ops, Pcs
    <2> QED
      BY <1>2, <2>1 DEF CreateDirect, Statuses, loop
  <1>3. ASSUME NEW p \in Payouts, ReadSettleable(h, p)
        PROVE  TypeOK'
    <2>1. job' \in [Workers -> Jobs]
      BY <1>3, <1>h, BeginStep DEF ReadSettleable, Ops, Pcs
    <2> QED
      BY <1>3, <2>1 DEF ReadSettleable, rows, loop
  <1>4. ASSUME NEW p \in Payouts, NEW op \in {"webhook", "check"}, ReadReferenced(h, op, p)
        PROVE  TypeOK'
    <2>1. job' \in [Workers -> Jobs]
      BY <1>4, <1>h, BeginStep DEF ReadReferenced, Ops, Pcs
    <2> QED
      BY <1>4, <2>1 DEF ReadReferenced, rows, loop
  <1>5. ASSUME NEW p \in Payouts, NEW t \in Transfers, PayPalEvent(h, p, t)
        PROVE  TypeOK'
    <2>1. job' \in [Workers -> Jobs]
      BY <1>5, <1>h, BeginStep, VerdictIsSound DEF PayPalEvent, Ops
    <2> QED
      BY <1>5, <2>1 DEF PayPalEvent, rows, loop
  <1> QED
    BY <1>1, <1>2, <1>3, <1>4, <1>5 DEF Request

\* Every later step of a worker keeps them too.
LEMMA WorkerTypeOK ==
  ASSUME TypeOK, NEW w \in Workers, Answer(w) \/ Proceed(w) \/ Crash(w)
  PROVE  TypeOK'
  <1> USE DEF TypeOK, JobsOK
  <1>j. job[w] \in Jobs
    OBVIOUS
  <1>1. CASE SumPayouts(w)
    <2>1. job' \in [Workers -> Jobs]
      BY <1>1, GotoStep DEF SumPayouts, Pcs
    <2> QED
      BY <1>1, <2>1 DEF SumPayouts, rows, loop
  <1>2. CASE InsertRequest(w)
    <2>1. job' \in [Workers -> Jobs]
      BY <1>2, GotoStep DEF InsertRequest, Pcs
    <2>2. status' \in [Payouts -> Statuses]
      BY <1>2 DEF InsertRequest, Statuses
    <2> QED
      BY <1>2, <2>1, <2>2 DEF InsertRequest, loop
  <1>3. CASE Send(w)
    <2>1. job' \in [Workers -> Jobs]
      <3>1. CASE Goto(w, "failed")
        BY <3>1, GotoStep DEF Pcs
      <3>2. ASSUME NEW t \in Transfers, job' = [job EXCEPT ![w].pc = "link", ![w].ref = t]
            PROVE  job' \in [Workers -> Jobs]
        BY <3>2, <1>j DEF Jobs, Pcs
      <3> QED
        BY <1>3, <3>1, <3>2 DEF Send
    <2>2. transfer' \in [Transfers -> TransferRecords]
      BY <1>3, <1>j DEF Send, Jobs, TransferRecords
    <2> QED
      BY <1>3, <2>1, <2>2 DEF Send, TransferRecords, rows, loop
  <1>4. CASE LinkTransfer(w)
    <2>1. job' \in [Workers -> Jobs]
      BY <1>4, GotoStep DEF LinkTransfer, Pcs
    <2>2. ref' \in [Payouts -> Transfers \cup {NoTransfer}] /\ status' \in [Payouts -> Statuses]
      BY <1>4, <1>j DEF LinkTransfer, Jobs, Statuses
    <2> QED
      BY <1>4, <2>1, <2>2 DEF LinkTransfer, loop
  <1>5. CASE AskTransfer(w)
    <2>1. PICK pc \in Pcs : Goto(w, pc)
      BY <1>5, VerdictIsSound DEF AskTransfer, Pcs
    <2>2. job' \in [Workers -> Jobs]
      BY <2>1, GotoStep
    <2> QED
      BY <1>5, <2>2 DEF AskTransfer, rows, loop
  <1>6. CASE WritePaid(w) \/ WriteFailed(w)
    <2>1. job' \in [Workers -> Jobs]
      BY <1>6, GotoStep DEF WritePaid, WriteFailed, Pcs
    <2>2. status' \in [Payouts -> Statuses]
      BY <1>6 DEF WritePaid, WriteFailed, Statuses
    <2> QED
      BY <1>6, <2>1, <2>2 DEF WritePaid, WriteFailed, loop
  <1>7. CASE Crash(w)
    <2>1. job' \in [Workers -> Jobs]
      BY <1>7, GotoStep DEF Crash, Pcs
    <2> QED
      BY <1>7, <2>1 DEF Crash, rows, loop
  <1> QED
    BY <1>1, <1>2, <1>3, <1>4, <1>5, <1>6, <1>7 DEF Answer, Proceed

\* The steps that belong to no request: the administrator's one-statement
\* buttons, the loop's own steps, the sales, the providers and time.
Elsewhere ==
  \/ Reconcile \/ SalesMove
  \/ \E p \in Payouts : CreateManual(p) \/ SettleManually(p) \/ MarkRefunded(p) \/ GrowOld(p)
  \/ \E t \in Transfers : TransferProgress(t)

\* They keep the types.
LEMMA ElsewhereTypeOK ==
  ASSUME TypeOK, Elsewhere
  PROVE  TypeOK'
  <1> USE DEF TypeOK
  <1>1. CASE StartPass
    BY <1>1 DEF StartPass, ListProcessing, rows
  <1>2. CASE EndPass
    BY <1>2 DEF EndPass, rows
  <1>3. ASSUME NEW p \in Payouts, NEW t \in Transfers, ReconcilePayout(p, t)
        PROVE  TypeOK'
    <2>1. PICK pc \in {Verdict(t), "idle"} :
             job' = [job EXCEPT ![Loop] =
                       IF pc = "idle" THEN IdleJob
                       ELSE [IdleJob EXCEPT !.op = "pass", !.pc = pc, !.payout = p, !.ref = t]]
      BY <1>3 DEF ReconcilePayout
    <2>2. [IdleJob EXCEPT !.op = "pass", !.pc = pc, !.payout = p, !.ref = t] \in Jobs
      BY IdleIsJob, <2>1, VerdictIsSound DEF Jobs, Ops, Pcs
    <2>3. job' \in [Workers -> Jobs]
      BY <2>1, <2>2, IdleIsJob, WorkersAre
    <2> QED
      BY <1>3, <2>3 DEF ReconcilePayout, rows
  <1>4. CASE SalesMove
    BY <1>4 DEF SalesMove, rows, loop
  <1>5. ASSUME NEW p \in Payouts, CreateManual(p) \/ SettleManually(p)
        PROVE  TypeOK'
    BY <1>5 DEF CreateManual, SettleManually, Statuses, loop
  <1>6. ASSUME NEW p \in Payouts, MarkRefunded(p)
        PROVE  TypeOK'
    BY <1>6 DEF MarkRefunded, Statuses, loop
  <1>7. ASSUME NEW p \in Payouts, GrowOld(p)
        PROVE  TypeOK'
    BY <1>7 DEF GrowOld, rows, loop
  <1>8. ASSUME NEW t \in Transfers, TransferProgress(t)
        PROVE  TypeOK'
    BY <1>8 DEF TransferProgress, rows, loop
  <1> QED
    BY <1>1, <1>2, <1>3, <1>4, <1>5, <1>6, <1>7, <1>8 DEF Elsewhere, Reconcile

\* A step is silent, a request that starts, a worker that goes on, or elsewhere.
LEMMA NextCases ==
  ASSUME [Next]_vars
  PROVE  \/ UNCHANGED vars
         \/ \E h \in Handlers : Request(h)
         \/ \E w \in Workers : Answer(w) \/ Proceed(w) \/ Crash(w)
         \/ Elsewhere
  BY WorkersAre DEF Next, Elsewhere

\* Every step keeps the types.
LEMMA NextTypeOK == TypeOK /\ [Next]_vars => TypeOK'
  <1> SUFFICES ASSUME TypeOK, [Next]_vars PROVE TypeOK'
    OBVIOUS
  <1>1. CASE UNCHANGED vars
    BY <1>1 DEF TypeOK, vars, rows, loop
  <1> QED
    BY <1>1, NextCases, RequestTypeOK, WorkerTypeOK, ElsewhereTypeOK

\* Every variable of the payout machine keeps its type, whatever overlaps or
\* fails: no status outside the CHECK constraint of migration 032 is written.
THEOREM TypeCorrect == Spec => []TypeOK
  BY InitTypeOK, NextTypeOK, PTL DEF Spec

-----------------------------------------------------------------------------
(* Safety: the money behind a status *)

Completed(p) == \E t \in TransfersOf(p) : transfer[t].state = "completed"

\* What a worker is about to do is about a payout; the reference it carries is
\* that of a transfer of this payout; when it is about to write "paid", such a
\* transfer has completed.
SoundJob(w) ==
  /\ job[w].pc \in {"send", "link", "ask", "paid", "failed"} => job[w].payout \in Payouts
  /\ job[w].pc \in {"link", "ask"} => job[w].ref \in TransfersOf(job[w].payout)
  /\ job[w].pc = "paid" => Completed(job[w].payout)

SoundJobs == \A w \in Workers : SoundJob(w)

\* The references in the table and in the loop's snapshot are of transfers of the
\* same payout.
RefIsOwn == \A p \in Payouts : ref[p] # NoTransfer => ref[p] \in TransfersOf(p)

TodoIsOwn == \A p \in Payouts, t \in Transfers : <<p, t>> \in todo => t \in TransfersOf(p)

Sound == SoundJobs /\ RefIsOwn /\ TodoIsOwn

\* The inductive invariant.
PayoutInv == TypeOK /\ Sound /\ PaidIsTrue /\ ProcessingIsSent

-----------------------------------------------------------------------------
(* What every step does, piece by piece *)

\* A transfer never changes payout, and a completed one stays completed.
Grows ==
  \A p \in Payouts : /\ TransfersOf(p) \subseteq TransfersOf(p)'
                     /\ Completed(p) => Completed(p)'

\* A worker's job is left alone or becomes a sound one.
JobsStep == \A w \in Workers : job'[w] = job[w] \/ SoundJob(w)'

\* A reference is left alone or becomes that of a transfer of the payout, and the
\* loop takes its references from the table.
RefsStep ==
  /\ \A p \in Payouts : ref'[p] = ref[p] \/ ref'[p] \in TransfersOf(p)'
  /\ todo' \subseteq todo \cup ListProcessing

\* "paid" is written with a reason, "processing" with a reference.
StatusStep ==
  /\ \A p \in Payouts : manual[p] => manual'[p]
  /\ \A p \in Payouts : status'[p] = "paid" =>
        status[p] = "paid" \/ manual'[p] \/ Completed(p)
  /\ \A p \in Payouts : status'[p] = "processing" =>
        (status[p] = "processing" /\ ref'[p] = ref[p]) \/ ref'[p] \in TransfersOf(p)'

\* Such a step preserves the invariant.
LEMMA Preserve ==
  ASSUME PayoutInv, TypeOK', Grows, JobsStep, RefsStep, StatusStep
  PROVE  PayoutInv'
  <1> USE DEF PayoutInv, Sound
  <1>1. SoundJobs'
    <2> SUFFICES ASSUME NEW w \in Workers, job'[w] = job[w] PROVE SoundJob(w)'
      BY DEF JobsStep, SoundJobs
    <2>1. SoundJob(w)
      BY DEF SoundJobs
    <2>2. ASSUME job[w].payout \in Payouts
          PROVE  /\ TransfersOf(job[w].payout) \subseteq TransfersOf(job[w].payout)'
                 /\ Completed(job[w].payout) => Completed(job[w].payout)'
      <3>1. PICK p \in Payouts : p = job[w].payout
        BY <2>2
      <3>2. /\ TransfersOf(p) \subseteq TransfersOf(p)'
            /\ Completed(p) => Completed(p)'
        BY DEF Grows
      <3> QED
        BY <3>1, <3>2 DEF TransfersOf, Completed
    <2> QED
      BY <2>1, <2>2 DEF SoundJob
  <1>2. RefIsOwn'
    BY DEF RefIsOwn, RefsStep, Grows
  <1>3. TodoIsOwn'
    BY DEF TodoIsOwn, RefIsOwn, RefsStep, Grows, ListProcessing, TypeOK
  <1>4. PaidIsTrue'
    <2> SUFFICES ASSUME NEW p \in Payouts, status'[p] = "paid"
                 PROVE  manual'[p] \/ Completed(p)'
      BY DEF PaidIsTrue, Completed
    <2>1. status[p] = "paid" => manual[p] \/ Completed(p)
      BY DEF PaidIsTrue, Completed
    <2> QED
      BY <2>1 DEF StatusStep, Grows
  <1>5. ProcessingIsSent'
    BY DEF ProcessingIsSent, StatusStep, Grows
  <1> QED
    BY <1>1, <1>2, <1>3, <1>4, <1>5

\* Nothing is lost when the transfers do not change.
LEMMA SameTransfers ==
  ASSUME UNCHANGED transfer PROVE Grows
  BY DEF Grows, TransfersOf, Completed

\* Nor when a worker sends: the transfer it takes belonged to nobody.
LEMMA SendGrows ==
  ASSUME TypeOK, NEW w \in Workers, Send(w) PROVE Grows
  <1>1. CASE UNCHANGED transfer
    BY <1>1, SameTransfers
  <1>2. ASSUME NEW t \in Transfers, transfer[t].payout = NoPayout,
               transfer' = [transfer EXCEPT ![t] = [payout |-> job[w].payout,
                                                   state |-> "submitted"]]
        PROVE  Grows
    <2>1. \A s \in Transfers : s # t => transfer'[s] = transfer[s]
      BY <1>2 DEF TypeOK
    <2>2. \A p \in Payouts : t \notin TransfersOf(p)
      BY <1>2, PayoutConstants DEF TransfersOf
    <2> QED
      BY <2>1, <2>2 DEF Grows, TransfersOf, Completed
  <1> QED
    BY <1>1, <1>2 DEF Send

\* Nor when a provider settles a transfer it had not settled.
LEMMA ProgressGrows ==
  ASSUME TypeOK, NEW t \in Transfers, TransferProgress(t) PROVE Grows
  <1>1. \A s \in Transfers : s # t => transfer'[s] = transfer[s]
    BY DEF TypeOK, TransferProgress
  <1>2. transfer'[t].payout = transfer[t].payout /\ transfer[t].state = "submitted"
    BY DEF TypeOK, TransferProgress
  <1> QED
    BY <1>1, <1>2 DEF Grows, TransfersOf, Completed

\* A worker that goes idle leaves nothing to be sound about.
LEMMA IdleIsSound ==
  ASSUME NEW w \in Workers, job'[w] = IdleJob PROVE SoundJob(w)'
  BY DEF SoundJob, IdleJob

-----------------------------------------------------------------------------
(* The steps preserve the invariant *)

\* A request that starts carries the reference of its row, or a verdict its own
\* provider signed.
LEMMA RequestSafe ==
  ASSUME PayoutInv, NEW h \in Handlers, Request(h)
  PROVE  PayoutInv'
  <1> USE DEF PayoutInv
  <1>t. TypeOK'
    BY RequestTypeOK
  <1>h. h \in Workers /\ JobsOK /\ ref \in [Payouts -> Transfers \cup {NoTransfer}]
    BY WorkersAre DEF TypeOK, JobsOK
  <1>g. Grows /\ RefsStep
    BY SameTransfers DEF Request, AskBalance, CreateDirect, ReadSettleable, ReadReferenced,
          PayPalEvent, rows, loop, RefsStep
  <1>s. StatusStep
    BY DEF Request, AskBalance, CreateDirect, ReadSettleable, ReadReferenced, PayPalEvent,
          rows, loop, StatusStep, TypeOK
  <1>j. JobsStep
    <2>1. CASE AskBalance(h)
      <3>1. \A v \in Workers : v # h => job'[v] = job[v]
        BY <2>1 DEF AskBalance, TypeOK
      <3>2. job'[h].pc = "list"
        BY <2>1, <1>h DEF AskBalance, TypeOK, IdleJob
      <3> QED
        BY <3>1, <3>2 DEF JobsStep, SoundJob
    <2>2. ASSUME NEW p \in Payouts, CreateDirect(h, p) \/ ReadSettleable(h, p)
          PROVE  JobsStep
      <3>1. PICK op \in Ops : Begin(h, op, "send", p)
        BY <2>2 DEF CreateDirect, ReadSettleable, Ops
      <3>2. /\ \A v \in Workers : v # h => job'[v] = job[v]
            /\ job'[h].pc = "send" /\ job'[h].payout = p
        BY <3>1, <1>h, BeginStep DEF Pcs
      <3> QED
        BY <3>2 DEF JobsStep, SoundJob
    <2>3. ASSUME NEW p \in Payouts, NEW op \in {"webhook", "check"}, ReadReferenced(h, op, p)
          PROVE  JobsStep
      <3>1. /\ \A v \in Workers : v # h => job'[v] = job[v]
            /\ job'[h].pc = "ask" /\ job'[h].payout = p /\ job'[h].ref = ref[p]
        BY <2>3, <1>h, BeginStep DEF ReadReferenced, Pcs, Ops
      <3>2. ref[p] \in TransfersOf(p) /\ transfer' = transfer
        BY <2>3 DEF ReadReferenced, Sound, RefIsOwn
      <3> QED
        BY <3>1, <3>2 DEF JobsStep, SoundJob, TransfersOf
    <2>4. ASSUME NEW p \in Payouts, NEW t \in Transfers, PayPalEvent(h, p, t)
          PROVE  JobsStep
      <3>1. /\ \A v \in Workers : v # h => job'[v] = job[v]
            /\ job'[h].pc = Verdict(t) /\ job'[h].payout = p
        BY <2>4, <1>h, BeginStep, VerdictIsSound DEF PayPalEvent, Ops
      <3>2. t \in TransfersOf(p) /\ transfer' = transfer
        BY <2>4 DEF PayPalEvent, TransfersOf
      <3> QED
        BY <3>1, <3>2, VerdictIsSound DEF JobsStep, SoundJob, TransfersOf, Completed
    <2> QED
      BY <2>1, <2>2, <2>3, <2>4 DEF Request
  <1> QED
    BY <1>t, <1>g, <1>s, <1>j, Preserve

\* A worker that goes on: the provider's answer, then the write it led to.
LEMMA WorkerSafe ==
  ASSUME PayoutInv, NEW w \in Workers, Answer(w) \/ Proceed(w) \/ Crash(w)
  PROVE  PayoutInv'
  <1> USE DEF PayoutInv
  <1>t. TypeOK'
    BY WorkerTypeOK
  <1>w. SoundJob(w) /\ JobsOK /\ job[w] \in Jobs
    BY DEF Sound, SoundJobs, TypeOK, JobsOK
  <1>1. CASE SumPayouts(w) \/ InsertRequest(w)
    <2>1. PICK pc \in {"insert", "idle"} : Goto(w, pc)
      BY <1>1 DEF SumPayouts, InsertRequest
    <2>2. JobsStep
      BY <2>1, <1>w, GotoStep, IdleIsSound DEF JobsStep, SoundJob, Pcs
    <2>3. Grows /\ RefsStep
      BY <1>1, SameTransfers DEF SumPayouts, InsertRequest, RefsStep, rows, loop
    <2>4. StatusStep
      BY <1>1 DEF SumPayouts, InsertRequest, StatusStep, rows, TypeOK
    <2> QED
      BY <1>t, <2>2, <2>3, <2>4, Preserve
  <1>2. CASE Send(w)
    <2>1. Grows /\ RefsStep /\ StatusStep
      BY <1>2, SendGrows DEF Send, RefsStep, StatusStep, rows, loop
    <2>p. job[w].payout \in Payouts
      BY <1>2, <1>w DEF Send, SoundJob
    <2>2. JobsStep
      <3>1. CASE Goto(w, "failed")
        BY <3>1, <1>w, <2>p, GotoStep DEF JobsStep, SoundJob, Pcs
      <3>2. ASSUME NEW t \in Transfers,
                   transfer' = [transfer EXCEPT ![t] = [payout |-> job[w].payout,
                                                       state |-> "submitted"]],
                   job' = [job EXCEPT ![w].pc = "link", ![w].ref = t]
            PROVE  JobsStep
        <4>1. \A v \in Workers : v # w => job'[v] = job[v]
          BY <3>2 DEF TypeOK
        <4>2. /\ job'[w].pc = "link" /\ job'[w].ref = t
              /\ job'[w].payout = job[w].payout
          BY <3>2, <1>w DEF TypeOK, Jobs
        <4>3. transfer'[t].payout = job[w].payout
          BY <3>2 DEF TypeOK
        <4> QED
          BY <4>1, <4>2, <4>3, <2>p DEF JobsStep, SoundJob, TransfersOf
      <3> QED
        BY <1>2, <3>1, <3>2 DEF Send
    <2> QED
      BY <1>t, <2>1, <2>2, Preserve
  <1>3. CASE LinkTransfer(w)
    <2>1. job[w].payout \in Payouts /\ job[w].ref \in TransfersOf(job[w].payout)
      BY <1>3, <1>w DEF LinkTransfer, SoundJob
    <2>2. \A p \in Payouts : (ref'[p] = ref[p] /\ status'[p] = status[p])
                             \/ ref'[p] \in TransfersOf(p)
      <3> SUFFICES ASSUME NEW p \in Payouts
                   PROVE  \/ (ref'[p] = ref[p] /\ status'[p] = status[p])
                          \/ ref'[p] \in TransfersOf(p)
        OBVIOUS
      <3>1. CASE p = job[w].payout
        <4>1. ref'[p] = job[w].ref
          BY <1>3, <3>1 DEF LinkTransfer, TypeOK
        <4> QED
          BY <2>1, <3>1, <4>1
      <3>2. CASE p # job[w].payout
        BY <1>3, <3>2 DEF LinkTransfer, TypeOK
      <3> QED
        BY <3>1, <3>2
    <2>3. Grows
      BY <1>3, SameTransfers DEF LinkTransfer
    <2>s. \A p \in Payouts : status'[p] = "paid" => status[p] = "paid"
      BY <1>3 DEF LinkTransfer, TypeOK
    <2>4. RefsStep /\ StatusStep
      BY <1>3, <2>2, <2>3, <2>s DEF LinkTransfer, RefsStep, StatusStep, Grows, loop
    <2>5. JobsStep
      BY <1>3, <1>w, GotoStep, IdleIsSound DEF LinkTransfer, JobsStep, Pcs
    <2> QED
      BY <1>t, <2>3, <2>4, <2>5, Preserve
  <1>4. CASE AskTransfer(w)
    <2>1. PICK pc \in {Verdict(job[w].ref), "idle"} : Goto(w, pc)
      BY <1>4 DEF AskTransfer
    <2>2. pc \in {"paid", "failed", "idle"} /\ pc \in Pcs
          /\ (pc = "paid" => transfer[job[w].ref].state = "completed")
      BY <2>1, VerdictIsSound DEF Pcs
    <2>3. job[w].payout \in Payouts /\ job[w].ref \in TransfersOf(job[w].payout)
      BY <1>4, <1>w DEF AskTransfer, SoundJob
    <2>4. transfer' = transfer /\ Grows /\ RefsStep /\ StatusStep
      BY <1>4, SameTransfers DEF AskTransfer, RefsStep, StatusStep, rows, loop
    <2>5. pc # "idle" => SoundJob(w)'
      BY <2>1, <2>2, <2>3, <2>4, <1>w, GotoStep DEF SoundJob, TransfersOf, Completed
    <2>6. JobsStep
      BY <2>1, <2>2, <2>5, <1>w, GotoStep, IdleIsSound DEF JobsStep
    <2> QED
      BY <1>t, <2>4, <2>6, Preserve
  <1>5. CASE WritePaid(w) \/ WriteFailed(w)
    <2>1. job[w].payout \in Payouts /\ (WritePaid(w) => Completed(job[w].payout))
      BY <1>5, <1>w DEF WritePaid, WriteFailed, SoundJob
    <2>2. Grows /\ RefsStep
      BY <1>5, SameTransfers DEF WritePaid, WriteFailed, RefsStep, loop
    <2>3. StatusStep
      <3> SUFFICES ASSUME NEW p \in Payouts
                   PROVE  /\ manual[p] => manual'[p]
                          /\ status'[p] = "paid" => status[p] = "paid" \/ Completed(p)
                          /\ status'[p] = "processing" =>
                                status[p] = "processing" /\ ref'[p] = ref[p]
        BY DEF StatusStep
      <3>1. CASE p = job[w].payout
        BY <1>5, <2>1, <3>1 DEF WritePaid, WriteFailed, TypeOK
      <3>2. CASE p # job[w].payout
        BY <1>5, <3>2 DEF WritePaid, WriteFailed, TypeOK
      <3> QED
        BY <3>1, <3>2
    <2>4. JobsStep
      BY <1>5, <1>w, GotoStep, IdleIsSound DEF WritePaid, WriteFailed, JobsStep, Pcs
    <2> QED
      BY <1>t, <2>2, <2>3, <2>4, Preserve
  <1>6. CASE Crash(w)
    <2>1. Grows /\ RefsStep /\ StatusStep
      BY <1>6, SameTransfers DEF Crash, RefsStep, StatusStep, rows, loop
    <2>2. JobsStep
      BY <1>6, <1>w, GotoStep, IdleIsSound DEF Crash, JobsStep, Pcs
    <2> QED
      BY <1>t, <2>1, <2>2, Preserve
  <1> QED
    BY <1>1, <1>2, <1>3, <1>4, <1>5, <1>6 DEF Answer, Proceed

\* The administrator's buttons, the loop, the sales, the providers and time.
LEMMA ElsewhereSafe ==
  ASSUME PayoutInv, Elsewhere
  PROVE  PayoutInv'
  <1> USE DEF PayoutInv
  <1>t. TypeOK'
    BY ElsewhereTypeOK
  <1>1. CASE StartPass \/ EndPass \/ SalesMove
    <2>1. Grows /\ RefsStep
      BY <1>1, SameTransfers DEF StartPass, EndPass, SalesMove, RefsStep, rows, loop
    <2>2. StatusStep /\ JobsStep
      BY <1>1 DEF StartPass, EndPass, SalesMove, StatusStep, JobsStep, rows
    <2> QED
      BY <1>t, <2>1, <2>2, Preserve
  <1>2. ASSUME NEW p \in Payouts, NEW t \in Transfers, ReconcilePayout(p, t)
        PROVE  PayoutInv'
    <2>1. transfer' = transfer /\ Grows /\ RefsStep /\ StatusStep
      BY <1>2, SameTransfers DEF ReconcilePayout, RefsStep, StatusStep, rows
    <2>2. PICK pc \in {Verdict(t), "idle"} :
             job' = [job EXCEPT ![Loop] =
                       IF pc = "idle" THEN IdleJob
                       ELSE [IdleJob EXCEPT !.op = "pass", !.pc = pc, !.payout = p, !.ref = t]]
      BY <1>2 DEF ReconcilePayout
    <2>3. \A v \in Workers : v # Loop => job'[v] = job[v]
      BY <2>2 DEF TypeOK
    <2>4. pc \in {"paid", "failed", "idle"} /\ (pc = "paid" => transfer[t].state = "completed")
      BY <2>2, VerdictIsSound
    <2>5. t \in TransfersOf(p)
      BY <1>2 DEF ReconcilePayout, Sound, TodoIsOwn
    <2>6. SoundJob(Loop)'
      <3>1. CASE pc = "idle"
        BY <2>2, <3>1, WorkersAre, IdleIsSound DEF TypeOK
      <3>2. CASE pc # "idle"
        <4>1. job'[Loop].pc = pc /\ job'[Loop].payout = p
          BY <2>2, <3>2, WorkersAre DEF TypeOK, IdleJob
        <4> QED
          BY <2>1, <2>4, <2>5, <3>2, <4>1 DEF SoundJob, TransfersOf, Completed
      <3> QED
        BY <3>1, <3>2
    <2> QED
      BY <1>t, <2>1, <2>3, <2>6, Preserve DEF JobsStep
  <1>3. ASSUME NEW p \in Payouts,
               CreateManual(p) \/ SettleManually(p) \/ MarkRefunded(p) \/ GrowOld(p)
        PROVE  PayoutInv'
    <2>1. Grows /\ RefsStep /\ JobsStep
      BY <1>3, SameTransfers DEF CreateManual, SettleManually, MarkRefunded, GrowOld,
            RefsStep, JobsStep, rows, loop
    <2>2. StatusStep
      BY <1>3 DEF CreateManual, SettleManually, MarkRefunded, GrowOld, StatusStep, rows, TypeOK
    <2> QED
      BY <1>t, <2>1, <2>2, Preserve
  <1>4. ASSUME NEW t \in Transfers, TransferProgress(t)
        PROVE  PayoutInv'
    <2>1. Grows
      BY <1>4, ProgressGrows
    <2>2. RefsStep /\ StatusStep /\ JobsStep
      BY <1>4 DEF TransferProgress, RefsStep, StatusStep, JobsStep, rows, loop
    <2> QED
      BY <1>t, <2>1, <2>2, Preserve
  <1> QED
    BY <1>1, <1>2, <1>3, <1>4 DEF Elsewhere, Reconcile

\* Nothing has been sent or asked for initially.
LEMMA InitSafe == Init => PayoutInv
  <1> SUFFICES ASSUME Init PROVE Sound /\ PaidIsTrue /\ ProcessingIsSent
    BY InitTypeOK DEF PayoutInv
  <1>1. \A w \in Workers : job[w].pc = "idle"
    BY DEF Init, IdleJob
  <1> QED
    BY <1>1 DEF Init, Sound, SoundJobs, SoundJob, RefIsOwn, TodoIsOwn, PaidIsTrue,
                ProcessingIsSent

\* The invariant is inductive.
LEMMA NextSafe == PayoutInv /\ [Next]_vars => PayoutInv'
  <1> SUFFICES ASSUME PayoutInv, [Next]_vars PROVE PayoutInv'
    OBVIOUS
  <1>1. CASE UNCHANGED vars
    BY <1>1 DEF PayoutInv, Sound, SoundJobs, SoundJob, RefIsOwn, TodoIsOwn, PaidIsTrue,
       ProcessingIsSent, Completed, TransfersOf, TypeOK, vars, rows, loop
  <1> QED
    BY <1>1, NextCases, RequestSafe, WorkerSafe, ElsewhereSafe

\* The statuses of the payouts, the jobs of the workers and the loop's snapshot
\* agree with the transfers at every moment, whatever overlaps, crashes or is lost.
THEOREM Invariance == Spec => []PayoutInv
  BY InitSafe, NextSafe, PTL DEF Spec

\* No payout reads "paid" unless a transfer of it completed or an administrator
\* settled it by hand: neither a stale read nor a replaced reference can make
\* UpdateStatus lie.
THEOREM PaidTrue == Spec => []PaidIsTrue
  BY Invariance, PTL DEF PayoutInv

\* A payout in progress always has the reference of a transfer made for it, which
\* callbacks, checks and the loop can follow: SetProviderReference writes both.
THEOREM ProcessingSent == Spec => []ProcessingIsSent
  BY Invariance, PTL DEF PayoutInv

=============================================================================
