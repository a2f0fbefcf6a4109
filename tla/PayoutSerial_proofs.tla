------------------------ MODULE PayoutSerial_proofs ------------------------
(***************************************************************************)
(* What PayoutLifecycle promises while no two requests for one payout      *)
(* overlap, a balance is summed with nothing else of the vendor moving, no *)
(* answer is lost and nobody crashes: the money of a payout is sent once   *)
(* at a time, a paid payout is not announced as failed, and requests stay  *)
(* within the balance.  Each of the three is false without these           *)
(* conditions.                                                             *)
(***************************************************************************)
EXTENDS PayoutLifecycle_proofs, FiniteSetTheorems

Serial == ~Overlap /\ ~Ambiguous /\ ~Crashes

-----------------------------------------------------------------------------
(* The inductive invariant *)

\* No transfer of p may still pay, or none but t.
Dead(p) == \A t \in TransfersOf(p) : transfer[t].state = "failed"

DeadBut(p, t) == \A u \in TransfersOf(p) : u # t => transfer[u].state = "failed"

Balancing(w) == job[w].pc \in {"list", "insert"}

\* One worker per payout, and nobody else while a balance is being summed.
Alone ==
  /\ \A v, w \in Workers : v # w => job[v].payout # job[w].payout \/ job[v].payout = NoPayout
  /\ \A w \in Workers : Balancing(w) =>
       todo = {} /\ \A v \in Workers : v # w => job[v] = IdleJob

\* What a worker knew when it started is still so.
JobSerial(w) ==
  /\ job[w].pc \in {"send", "failed"} => Dead(job[w].payout)
  /\ job[w].pc \in {"link", "ask"} => DeadBut(job[w].payout, job[w].ref)
  /\ job[w].pc \in {"send", "link"} => status[job[w].payout] \in {"requested", "failed"}
  /\ job[w].pc \in {"ask", "paid"} => status[job[w].payout] \notin {"none", "paid", "failed"}
  /\ job[w].pc = "failed" => status[job[w].payout] \notin {"none", "paid"}
  /\ job[w].pc = "list" => job[w].room = earned
  /\ job[w].pc = "insert" => job[w].room = earned /\ job[w].room > Committed

JobsSerial == \A w \in Workers : JobSerial(w)

Linking(w, p) == job[w].pc = "link" /\ job[w].payout = p

\* Only the transfer a row refers to may still pay, unless a worker is about to
\* save a newer one; none may for a row that can be sent.
RowSerial(p) ==
  \/ \E w \in Workers : Linking(w, p)
  \/ DeadBut(p, ref[p]) /\ (status[p] \in {"none", "requested", "failed"} => Dead(p))

RowsSerial == \A p \in Payouts : RowSerial(p)

\* The rows a pass has not reached are as they were in its snapshot, and the loop's.
TodoSerial ==
  \A p \in Payouts, t \in Transfers : <<p, t>> \in todo =>
     /\ t = ref[p] /\ status[p] = "processing"
     /\ \A w \in Workers : job[w].payout # p

\* PayPal takes one batch per payout.
PayPalOnce == \A p \in PayPalPayouts : \A t, u \in TransfersOf(p) : t = u

SerialInv == Alone /\ JobsSerial /\ RowsSerial /\ TodoSerial /\ PayPalOnce

-----------------------------------------------------------------------------
(* References and rows *)

\* A reference is in a row.
RefHasRow == \A p \in Payouts : ref[p] # NoTransfer => status[p] # "none"

\* No step saves a reference without a row.
LEMMA RefHasRowKept == PayoutInv /\ RefHasRow /\ [Next]_vars => RefHasRow'
  <1> SUFFICES ASSUME PayoutInv, RefHasRow, [Next]_vars, NEW p \in Payouts,
                      ref'[p] # NoTransfer, status'[p] = "none"
               PROVE  FALSE
    BY DEF RefHasRow
  <1> USE DEF PayoutInv, TypeOK, RefHasRow
  <1>1. CASE UNCHANGED vars
    BY <1>1 DEF vars, rows
  <1>2. ASSUME NEW h \in Handlers, Request(h)
        PROVE  FALSE
    BY <1>2 DEF Request, AskBalance, CreateDirect, ReadSettleable, ReadReferenced, PayPalEvent,
                rows
  <1>3. ASSUME NEW w \in Workers, Answer(w) \/ Proceed(w) \/ Crash(w)
        PROVE  FALSE
    BY <1>3 DEF Answer, Proceed, Crash, SumPayouts, InsertRequest, Send, LinkTransfer,
                AskTransfer, WritePaid, WriteFailed, rows
  <1>4. CASE Elsewhere
    BY <1>4 DEF Elsewhere, Reconcile, StartPass, EndPass, ReconcilePayout, SalesMove,
                CreateManual, SettleManually, MarkRefunded, GrowOld, TransferProgress, rows
  <1> QED
    BY <1>1, <1>2, <1>3, <1>4, NextCases

\* References are in rows in every reachable state.
LEMMA RefsInRows == Spec => []RefHasRow
  <1>1. Init => RefHasRow
    BY DEF Init, RefHasRow
  <1> QED
    BY <1>1, RefHasRowKept, Invariance, PTL DEF Spec

-----------------------------------------------------------------------------
(* Frames *)

\* Transfers that do not change are as dead as they were.
LEMMA SameDead ==
  ASSUME transfer' = transfer
  PROVE  /\ \A p : TransfersOf(p)' = TransfersOf(p)
         /\ \A p : Dead(p)' <=> Dead(p)
         /\ \A p, t : DeadBut(p, t)' <=> DeadBut(p, t)
         /\ PayPalOnce => PayPalOnce'
  BY DEF TransfersOf, Dead, DeadBut, PayPalOnce

\* An idle worker has nothing to know.
LEMMA IdleIsSerial ==
  ASSUME NEW w \in Workers, job'[w] = IdleJob PROVE JobSerial(w)'
  BY DEF JobSerial, IdleJob

\* What the row of p says when nobody is about to save a reference in it.
Known(p) == DeadBut(p, ref[p]) /\ (status[p] \in {"none", "requested", "failed"} => Dead(p))

\* A row nobody is about to link is known.
LEMMA KnownRow ==
  ASSUME RowsSerial, NEW p \in Payouts, \A w \in Workers : ~Linking(w, p)
  PROVE  Known(p)
  BY DEF RowsSerial, RowSerial, Known

\* A row of which no transfer changes, written as its transfers allow, is still known.
LEMMA StaysKnown ==
  ASSUME transfer' = transfer, NEW p \in Payouts, Known(p), ref'[p] = ref[p],
         status'[p] = status[p] \/ status'[p] \notin {"none", "requested", "failed"} \/ Dead(p)
  PROVE  RowSerial(p)'
  BY SameDead DEF Known, RowSerial

\* The workers W (one, or none) have payout p to themselves, and touch that one only.
LEMMA OnePayoutSerial ==
  ASSUME PayoutInv, SerialInv, NEW p \in Payouts,
         NEW W \in SUBSET Workers, \A v, w \in W : v = w,
         \A v \in Workers \ W : job'[v] = job[v] /\ job[v].payout # p /\ ~Balancing(v),
         \A w \in W : /\ job[w] = IdleJob \/ job[w].payout = p
                      /\ job'[w] = IdleJob \/ job'[w].payout = p
                      /\ ~Balancing(w)' /\ JobSerial(w)',
         todo' \subseteq todo, \A t \in Transfers : <<p, t>> \notin todo',
         \A q \in Payouts : q # p => /\ status'[q] = status[q] /\ ref'[q] = ref[q]
                                     /\ Dead(q) => Dead(q)'
                                     /\ \A t : DeadBut(q, t) => DeadBut(q, t)',
         RowSerial(p)', PayPalOnce'
  PROVE  SerialInv'
  <1> USE DEF SerialInv
  <1>1. Alone'
    <2>1. \A v \in Workers : ~Balancing(v)'
      BY DEF Balancing
    <2>2. ASSUME NEW v \in Workers, NEW w \in Workers, v # w
          PROVE  job'[v].payout # job'[w].payout \/ job'[v].payout = NoPayout
      <3>1. CASE v \in W /\ w \in W
        BY <3>1, <2>2
      <3>2. CASE v \notin W /\ w \notin W
        BY <3>2, <2>2 DEF Alone
      <3>3. CASE v \in W /\ w \notin W
        BY <3>3 DEF IdleJob
      <3>4. CASE v \notin W /\ w \in W
        BY <3>4 DEF IdleJob
      <3> QED
        BY <3>1, <3>2, <3>3, <3>4
    <2> QED
      BY <2>1, <2>2 DEF Alone
  <1>2. JobsSerial'
    <2> SUFFICES ASSUME NEW v \in Workers \ W PROVE JobSerial(v)'
      BY DEF JobsSerial
    <2>1. job'[v] = job[v] /\ job[v].payout # p /\ JobSerial(v) /\ ~Balancing(v) /\ SoundJob(v)
          /\ job[v] \in Jobs
      BY DEF JobsSerial, PayoutInv, Sound, SoundJobs, TypeOK
    <2>2. job[v].pc \notin {"list", "insert", "idle"} => job[v].payout \in Payouts
      BY <2>1 DEF SoundJob, Jobs, Pcs, Balancing
    <2>3. job[v].pc \notin {"list", "insert"}
      BY <2>1 DEF Balancing
    <2> QED
      BY <2>1, <2>2, <2>3 DEF JobSerial
  <1>3. RowsSerial'
    <2> SUFFICES ASSUME NEW q \in Payouts, q # p PROVE RowSerial(q)'
      BY DEF RowsSerial
    <2>1. ASSUME NEW w \in Workers, Linking(w, q)
          PROVE  Linking(w, q)'
      <3>1. w \notin W
        BY <2>1 DEF Linking, IdleJob
      <3> QED
        BY <2>1, <3>1 DEF Linking
    <2> QED
      BY <2>1 DEF RowsSerial, RowSerial
  <1>4. TodoSerial'
    <2> SUFFICES ASSUME NEW q \in Payouts, NEW t \in Transfers, <<q, t>> \in todo, q # p
                 PROVE  /\ t = ref'[q] /\ status'[q] = "processing"
                        /\ \A w \in Workers : job'[w].payout # q
      BY DEF TodoSerial
    <2>1. t = ref[q] /\ status[q] = "processing" /\ \A w \in Workers : job[w].payout # q
      BY DEF TodoSerial
    <2>2. \A w \in W : job'[w].payout # q
      BY PayoutConstants DEF IdleJob
    <2> QED
      BY <2>1, <2>2
  <1> QED
    BY <1>1, <1>2, <1>3, <1>4

\* A request of the vendor sums his balance: nothing else moves.
LEMMA BalancingSerial ==
  ASSUME SerialInv, NEW w \in Workers, todo = {}, todo' = {}, job[w].pc # "link",
         \A v \in Workers : v # w => job[v] = IdleJob /\ job'[v] = IdleJob,
         transfer' = transfer, ref' = ref,
         \A p \in Payouts : status'[p] = status[p]
                            \/ (status[p] = "none" /\ status'[p] = "requested"),
         JobSerial(w)'
  PROVE  SerialInv'
  <1> USE DEF SerialInv
  <1>1. Alone' /\ TodoSerial'
    BY DEF Alone, TodoSerial, Balancing, IdleJob
  <1>2. JobsSerial'
    BY IdleIsSerial DEF JobsSerial
  <1>3. RowsSerial'
    <2> SUFFICES ASSUME NEW p \in Payouts PROVE RowSerial(p)'
      BY DEF RowsSerial
    <2>1. Known(p)
      BY KnownRow DEF Linking, IdleJob
    <2> QED
      BY <2>1, StaysKnown DEF Known
  <1> QED
    BY <1>1, <1>2, <1>3, SameDead

\* A free payout: nobody is on it, the pass is not about to, no balance is summed.
LEMMA FreeIs ==
  ASSUME SerialInv, NEW p \in Payouts, Free(p)
  PROVE  /\ \A t \in Transfers : <<p, t>> \notin todo
         /\ \A w \in Workers : job[w].payout # p /\ ~Balancing(w)
         /\ Known(p)
  <1>1. \A w \in Workers : ~Linking(w, p)
    BY DEF Free, Linking
  <1> QED
    BY <1>1, KnownRow DEF Free, Summing, Balancing, SerialInv

-----------------------------------------------------------------------------
(* Requests that start *)

\* A request that starts has the payout to itself, and knows what its row says.
LEMMA RequestSerial ==
  ASSUME Serial, PayoutInv, RefHasRow, SerialInv, NEW h \in Handlers, Request(h)
  PROVE  SerialInv'
  <1> USE DEF SerialInv
  <1>h. h \in Workers /\ JobsOK /\ ref \in [Payouts -> Transfers \cup {NoTransfer}]
    BY WorkersAre DEF PayoutInv, TypeOK, JobsOK
  <1>t. transfer' = transfer /\ ref' = ref /\ todo' = todo /\ earned' = earned
    BY DEF Request, AskBalance, CreateDirect, ReadSettleable, ReadReferenced, PayPalEvent,
           rows, loop
  <1>1. CASE AskBalance(h)
    <2>1. /\ todo = {} /\ \A v \in Workers : job[v] = IdleJob
          /\ status' = status
      BY <1>1 DEF AskBalance, Serial, Quiet, rows
    <2>2. \A v \in Workers : v # h => job'[v] = job[v]
      BY <1>1 DEF AskBalance, PayoutInv, TypeOK
    <2>3. job'[h].pc = "list" /\ job'[h].room = earned
      BY <1>1, <1>h DEF AskBalance, PayoutInv, TypeOK, IdleJob
    <2>4. JobSerial(h)'
      BY <1>t, <2>3 DEF JobSerial
    <2> QED
      BY <1>t, <1>h, <2>1, <2>2, <2>4, BalancingSerial DEF IdleJob
  <1>a. ASSUME NEW p \in Payouts, Free(p), job[h] = IdleJob, RowSerial(p)',
               NEW pc \in Pcs, job'[h].pc = pc, job'[h].payout = p, pc \notin {"list", "insert"},
               \A v \in Workers : v # h => job'[v] = job[v],
               \A q \in Payouts : q # p => status'[q] = status[q], JobSerial(h)'
        PROVE  SerialInv'
    <2>1. {h} \in SUBSET Workers /\ \A v, w \in {h} : v = w
      BY <1>h
    <2>2. /\ \A v \in Workers \ {h} : job'[v] = job[v] /\ job[v].payout # p /\ ~Balancing(v)
          /\ \A t \in Transfers : <<p, t>> \notin todo'
      BY <1>a, <1>t, FreeIs
    <2>3. \A w \in {h} : /\ job[w] = IdleJob \/ job[w].payout = p
                         /\ job'[w] = IdleJob \/ job'[w].payout = p
                         /\ ~Balancing(w)' /\ JobSerial(w)'
      BY <1>a DEF Balancing
    <2>4. \A q \in Payouts : q # p => /\ status'[q] = status[q] /\ ref'[q] = ref[q]
                                      /\ Dead(q) => Dead(q)'
                                      /\ \A t : DeadBut(q, t) => DeadBut(q, t)'
      BY <1>a, <1>t, SameDead
    <2>5. PayPalOnce' /\ RowSerial(p)' /\ todo' \subseteq todo
      BY <1>a, <1>t, SameDead
    <2> HIDE DEF SerialInv
    <2> QED
      BY <2>1, <2>2, <2>3, <2>4, <2>5, OnePayoutSerial
  <1>2. ASSUME NEW p \in Payouts, CreateDirect(h, p) \/ ReadSettleable(h, p)
        PROVE  SerialInv'
    <2>0. Free(p) /\ job[h] = IdleJob
      BY <1>2 DEF CreateDirect, ReadSettleable, MayStart, Serial
    <2>1. PICK op \in Ops : Begin(h, op, "send", p)
      BY <1>2 DEF CreateDirect, ReadSettleable, Ops
    <2>2. /\ \A v \in Workers : v # h => job'[v] = job[v]
          /\ job'[h].pc = "send" /\ job'[h].payout = p /\ "send" \in Pcs
      BY <2>1, <1>h, BeginStep DEF Pcs
    <2>3. /\ status[p] \in {"none", "requested", "failed"}
          /\ status'[p] \in {"requested", "failed"}
          /\ \A q \in Payouts : q # p => status'[q] = status[q]
      BY <1>2 DEF CreateDirect, ReadSettleable, rows, PayoutInv, TypeOK
    <2>4. Known(p) /\ Dead(p)
      BY <2>0, <2>3, FreeIs DEF Known
    <2>5. JobSerial(h)'
      BY <1>t, <2>2, <2>3, <2>4, SameDead DEF JobSerial
    <2>6. RowSerial(p)'
      BY <1>t, <2>4, StaysKnown
    <2> QED
      BY <1>a, <2>0, <2>2, <2>3, <2>5, <2>6
  <1>3. ASSUME NEW p \in Payouts, NEW op \in {"webhook", "check"}, ReadReferenced(h, op, p)
        PROVE  SerialInv'
    <2>0. Free(p) /\ job[h] = IdleJob /\ status' = status
      BY <1>3 DEF ReadReferenced, MayStart, Serial, rows
    <2>1. /\ \A v \in Workers : v # h => job'[v] = job[v]
          /\ job'[h].pc = "ask" /\ job'[h].payout = p /\ job'[h].ref = ref[p] /\ "ask" \in Pcs
      BY <1>3, <1>h, BeginStep DEF ReadReferenced, Pcs, Ops
    <2>2. status'[p] \notin {"none", "paid", "failed"} /\ Known(p)
      BY <1>3, <2>0, FreeIs DEF ReadReferenced, RefHasRow
    <2>3. JobSerial(h)'
      BY <1>t, <2>1, <2>2, SameDead DEF JobSerial, Known
    <2>4. RowSerial(p)'
      BY <1>t, <2>0, <2>2, StaysKnown
    <2> QED
      BY <1>a, <2>0, <2>1, <2>3, <2>4
  <1>4. ASSUME NEW p \in Payouts, NEW t \in Transfers, PayPalEvent(h, p, t)
        PROVE  SerialInv'
    <2>0. Free(p) /\ job[h] = IdleJob /\ status' = status
      BY <1>4 DEF PayPalEvent, MayStart, Serial, rows
    <2>1. /\ \A v \in Workers : v # h => job'[v] = job[v]
          /\ job'[h].pc = Verdict(t) /\ job'[h].payout = p
      BY <1>4, <1>h, BeginStep, VerdictIsSound DEF PayPalEvent, Ops
    <2>2. status'[p] \notin {"none", "paid", "failed"} /\ Known(p) /\ (Verdict(t) = "failed" => Dead(p))
      <3>1. p \in PayPalPayouts /\ t \in TransfersOf(p)
             /\ status'[p] \notin {"none", "paid", "failed"}
        BY <1>4 DEF PayPalEvent, TransfersOf, rows
      <3>2. Verdict(t) = "failed" => transfer[t].state = "failed"
        BY DEF Verdict
      <3> QED
        BY <2>0, <3>1, <3>2, FreeIs DEF PayPalOnce, Dead
    <2>3. JobSerial(h)'
      BY <1>t, <2>1, <2>2, SameDead, VerdictIsSound DEF JobSerial
    <2>4. RowSerial(p)'
      BY <1>t, <2>0, <2>2, StaysKnown
    <2> QED
      BY <1>a, <2>0, <2>1, <2>3, <2>4, VerdictIsSound
  <1> QED
    BY <1>1, <1>2, <1>3, <1>4 DEF Request

-----------------------------------------------------------------------------
(* Workers that go on *)

\* A worker on a payout has it to itself.
LEMMA OthersElsewhere ==
  ASSUME PayoutInv, SerialInv, NEW w \in Workers, job[w].pc \notin {"idle", "list", "insert"}
  PROVE  /\ job[w].payout \in Payouts
         /\ \A v \in Workers : v # w => job[v].payout # job[w].payout /\ ~Balancing(v)
         /\ \A t \in Transfers : <<job[w].payout, t>> \notin todo
         /\ job[w].pc # "link" => Known(job[w].payout)
  <1> USE DEF SerialInv
  <1>1. job[w].payout \in Payouts /\ job[w].payout # NoPayout
    BY PayoutConstants DEF PayoutInv, TypeOK, Sound, SoundJobs, SoundJob, Jobs, Pcs
  <1>2. \A v \in Workers : v # w => job[v].payout # job[w].payout
    BY <1>1 DEF Alone
  <1>3. \A v \in Workers : v # w => ~Balancing(v)
    BY DEF Alone, IdleJob
  <1>4. \A t \in Transfers : <<job[w].payout, t>> \notin todo
    BY <1>1 DEF TodoSerial
  <1>5. job[w].pc # "link" => Known(job[w].payout)
    BY <1>1, <1>2, KnownRow DEF Linking
  <1> QED
    BY <1>1, <1>2, <1>3, <1>4, <1>5

\* The worker knows more, and writes only what it knows.
LEMMA WorkerSerial ==
  ASSUME Serial, PayoutInv, SerialInv, NEW w \in Workers, Answer(w) \/ Proceed(w) \/ Crash(w)
  PROVE  SerialInv'
  <1> PICK me : me = job[w].payout
    OBVIOUS
  <1> USE DEF SerialInv
  <1>b. JobsOK /\ job[w] \in Jobs /\ JobSerial(w) /\ SoundJob(w)
    BY DEF PayoutInv, TypeOK, JobsOK, JobsSerial, Sound, SoundJobs
  <1>g. ASSUME NEW pc \in Pcs, Goto(w, pc)
        PROVE  /\ \A v \in Workers : v # w => job'[v] = job[v]
               /\ job'[w] = IdleJob \/ job'[w].payout = me
               /\ pc = "idle" => JobSerial(w)' /\ ~Balancing(w)'
               /\ pc # "idle" => job'[w].pc = pc /\ job'[w].payout = me /\ job'[w].ref = job[w].ref
                                 /\ job'[w].room = job[w].room
    <2>1. pc # "idle" => job'[w].room = job[w].room
      BY <1>g, <1>b DEF Goto, JobsOK, Jobs
    <2>2. job'[w] = IdleJob => ~Balancing(w)'
      BY DEF Balancing, IdleJob
    <2> QED
      BY <1>g, <1>b, <2>1, <2>2, GotoStep, IdleIsSerial
  <1>o. ASSUME job[w].pc \notin {"idle", "list", "insert"}, todo' = todo,
               \A v \in Workers : v # w => job'[v] = job[v],
               job'[w] = IdleJob \/ job'[w].payout = me, JobSerial(w)', ~Balancing(w)',
               \A q \in Payouts : q # me => /\ status'[q] = status[q] /\ ref'[q] = ref[q]
                                            /\ Dead(q) => Dead(q)'
                                            /\ \A t : DeadBut(q, t) => DeadBut(q, t)',
               RowSerial(me)', PayPalOnce'
        PROVE  SerialInv'
    <2>1. {w} \in SUBSET Workers /\ \A x, y \in {w} : x = y
      OBVIOUS
    <2>2. PICK p \in Payouts : p = me
      BY <1>o, OthersElsewhere
    <2>3. /\ \A v \in Workers \ {w} : job'[v] = job[v] /\ job[v].payout # p /\ ~Balancing(v)
          /\ \A t \in Transfers : <<p, t>> \notin todo
      BY <1>o, <2>2, OthersElsewhere
    <2>4. \A x \in {w} : /\ job[x] = IdleJob \/ job[x].payout = p
                         /\ job'[x] = IdleJob \/ job'[x].payout = p
                         /\ ~Balancing(x)' /\ JobSerial(x)'
      BY <1>o, <2>2
    <2>5. RowSerial(p)'
      BY <1>o, <2>2
    <2>6. \A q \in Payouts : q # p => /\ status'[q] = status[q] /\ ref'[q] = ref[q]
                                      /\ Dead(q) => Dead(q)'
                                      /\ \A t : DeadBut(q, t) => DeadBut(q, t)'
      BY <1>o, <2>2
    <2> HIDE DEF SerialInv
    <2> QED
      BY <1>o, <2>1, <2>3, <2>4, <2>5, <2>6, OnePayoutSerial
  <1>1. CASE SumPayouts(w)
    <2>1. PICK pc \in {"insert", "idle"} : Goto(w, pc) /\ (pc = "insert" => job[w].room > Committed)
      BY <1>1 DEF SumPayouts
    <2>2. UNCHANGED <<transfer, ref, status, earned, todo>>
      BY <1>1 DEF SumPayouts, rows, loop
    <2>3. Committed' = Committed
      BY <2>2 DEF Committed
    <2>4. JobSerial(w)'
      BY <2>1, <2>2, <2>3, <1>1, <1>b, <1>g DEF JobSerial, SumPayouts, Pcs
    <2>5. todo = {} /\ job[w].pc = "list" /\ \A v \in Workers : v # w => job[v] = IdleJob
      BY <1>1 DEF SumPayouts, Alone, Balancing
    <2> QED
      BY <2>1, <2>2, <2>4, <2>5, <1>g, BalancingSerial DEF Pcs
  <1>2. CASE InsertRequest(w)
    <2>1. Goto(w, "idle") /\ UNCHANGED <<transfer, ref, todo>>
      BY <1>2 DEF InsertRequest, loop
    <2>2. \A p \in Payouts : status'[p] = status[p]
                             \/ (status[p] = "none" /\ status'[p] = "requested")
      BY <1>2 DEF InsertRequest, PayoutInv, TypeOK
    <2>3. todo = {} /\ job[w].pc = "insert" /\ \A v \in Workers : v # w => job[v] = IdleJob
      BY <1>2 DEF InsertRequest, Alone, Balancing
    <2> QED
      BY <2>1, <2>2, <2>3, <1>g, BalancingSerial DEF Pcs
  <1>3. CASE Send(w) /\ Goto(w, "failed") /\ UNCHANGED transfer
    <2>1. UNCHANGED <<status, ref, todo>> /\ job[w].pc = "send"
      BY <1>3 DEF Send, rows, loop
    <2>2. JobSerial(w)' /\ ~Balancing(w)'
      BY <2>1, <1>3, <1>b, <1>g, SameDead DEF JobSerial, Pcs, Balancing
    <2>3. RowSerial(me)'
      BY <1>3, <2>1, OthersElsewhere, StaysKnown
    <2> QED
      BY <1>3, <1>g, <1>o, <2>1, <2>2, <2>3, SameDead DEF Pcs
  <1>4. ASSUME NEW t \in Transfers, Send(w), Accepts(me), transfer[t].payout = NoPayout,
               transfer' = [transfer EXCEPT ![t] = [payout |-> me, state |-> "submitted"]],
               job' = [job EXCEPT ![w].pc = "link", ![w].ref = t]
        PROVE  SerialInv'
    <2>p. me \in Payouts /\ Dead(me) /\ status[me] \in {"requested", "failed"} /\ job[w].pc = "send"
      BY <1>4, <1>b DEF Send, SoundJob, JobSerial
    <2>1. UNCHANGED <<status, ref, todo>>
      BY <1>4 DEF Send, rows, loop
    <2>2. \A v \in Workers : v # w => job'[v] = job[v]
      BY <1>4 DEF PayoutInv, TypeOK
    <2>3. job'[w].pc = "link" /\ job'[w].ref = t /\ job'[w].payout = me
      BY <1>4, <1>b DEF PayoutInv, TypeOK, Jobs
    <2>4. \A u \in Transfers : u # t => transfer'[u] = transfer[u]
      BY <1>4 DEF PayoutInv, TypeOK
    <2>5. transfer'[t].payout = me
      BY <1>4 DEF PayoutInv, TypeOK
    <2>6. \A p \in Payouts : p # me => TransfersOf(p)' = TransfersOf(p)
                                       /\ \A u \in TransfersOf(p) : transfer'[u] = transfer[u]
      BY <1>4, <2>4, <2>5, PayoutConstants DEF TransfersOf
    <2>7. \A u \in Transfers : transfer'[u].payout = me /\ u # t
                                 => u \in TransfersOf(me) /\ transfer'[u] = transfer[u]
      BY <2>4 DEF TransfersOf
    <2>8. JobSerial(w)' /\ ~Balancing(w)'
      BY <2>p, <2>1, <2>3, <2>7 DEF JobSerial, Dead, DeadBut, TransfersOf, Balancing
    <2>9. RowSerial(me)'
      BY <2>3 DEF RowSerial, Linking
    <2>10. \A q \in Payouts : q # me => /\ Dead(q) => Dead(q)'
                                        /\ \A u : DeadBut(q, u) => DeadBut(q, u)'
      BY <2>6 DEF Dead, DeadBut
    <2>11. PayPalOnce'
      <3> SUFFICES ASSUME NEW p \in PayPalPayouts, NEW u \in TransfersOf(p)', NEW v \in TransfersOf(p)'
                   PROVE  u = v
        BY DEF PayPalOnce
      <3>1. CASE p = me
        <4>1. TransfersOf(me) = {}
          BY <1>4, <3>1 DEF Accepts
        <4> QED
          BY <3>1, <4>1, <2>7 DEF TransfersOf
      <3>2. CASE p # me
        BY <3>2, <2>6, PayoutConstants DEF PayPalOnce
      <3> QED
        BY <3>1, <3>2
    <2> QED
      BY <2>p, <2>1, <2>2, <2>3, <2>8, <2>9, <2>10, <2>11, <1>o
  <1>5. CASE LinkTransfer(w)
    <2>p. me \in Payouts /\ DeadBut(me, job[w].ref) /\ job[w].pc = "link"
      BY <1>5, <1>b DEF LinkTransfer, SoundJob, JobSerial
    <2>1. Goto(w, "idle") /\ UNCHANGED <<transfer, todo>>
      BY <1>5 DEF LinkTransfer, loop
    <2>2. /\ ref'[me] = job[w].ref /\ status'[me] = "processing"
          /\ \A p \in Payouts : p # me => ref'[p] = ref[p] /\ status'[p] = status[p]
      BY <1>5, <2>p DEF LinkTransfer, PayoutInv, TypeOK
    <2>3. RowSerial(me)'
      BY <2>p, <2>1, <2>2, SameDead DEF RowSerial
    <2> QED
      BY <2>p, <2>1, <2>2, <2>3, <1>g, <1>o, SameDead DEF Pcs
  <1>6. CASE AskTransfer(w)
    <2>1. PICK pc \in {Verdict(job[w].ref), "idle"} : Goto(w, pc)
      BY <1>6 DEF AskTransfer
    <2>2. UNCHANGED <<transfer, ref, status, todo>> /\ job[w].pc = "ask"
      BY <1>6 DEF AskTransfer, rows, loop
    <2>3. pc \in {"paid", "failed", "idle"} /\ pc \in Pcs
          /\ (pc = "failed" => transfer[job[w].ref].state = "failed")
      BY <2>1, VerdictIsSound DEF Verdict, Pcs
    <2>4. status[me] \notin {"none", "paid", "failed"} /\ (pc = "failed" => Dead(me))
      BY <1>6, <1>b, <2>3 DEF AskTransfer, JobSerial, DeadBut, Dead
    <2>5. JobSerial(w)' /\ ~Balancing(w)'
      BY <2>1, <2>2, <2>3, <2>4, <1>g, SameDead DEF JobSerial, Balancing
    <2>6. RowSerial(me)'
      BY <2>2, OthersElsewhere, StaysKnown
    <2> QED
      BY <2>1, <2>2, <2>3, <2>5, <2>6, <1>g, <1>o, SameDead
  <1>7. CASE WritePaid(w) \/ WriteFailed(w)
    <2>p. me \in Payouts /\ (WriteFailed(w) => Dead(me))
      BY <1>7, <1>b DEF WritePaid, WriteFailed, SoundJob, JobSerial
    <2>1. Goto(w, "idle") /\ UNCHANGED <<transfer, ref, todo>> /\ job[w].pc \in {"paid", "failed"}
      BY <1>7 DEF WritePaid, WriteFailed, loop
    <2>2. /\ \A p \in Payouts : p # me => status'[p] = status[p]
          /\ status'[me] = "paid" \/ Dead(me)
      BY <1>7, <2>p DEF WritePaid, WriteFailed, PayoutInv, TypeOK
    <2>3. RowSerial(me)'
      BY <2>1, <2>2, OthersElsewhere, StaysKnown
    <2> QED
      BY <2>1, <2>2, <2>3, <1>g, <1>o, SameDead DEF Pcs
  <1> QED
    <2>1. ~Crash(w)
      BY DEF Serial, Crash
    <2>2. CASE Send(w)
      BY <2>2, <1>3, <1>4 DEF Send, Serial
    <2> QED
      BY <2>1, <2>2, <1>1, <1>2, <1>5, <1>6, <1>7 DEF Answer, Proceed

-----------------------------------------------------------------------------
(* The rest of the program, and of the world *)

\* Nobody's job, no row and no transfer changes, and no balance that is being summed.
LEMMA StillSerial ==
  ASSUME SerialInv, UNCHANGED <<job, transfer, status, ref, todo>>,
         earned' = earned \/ ~Summing
  PROVE  SerialInv'
  <1>1. Committed' = Committed
    BY DEF Committed
  <1>2. ASSUME NEW w \in Workers, JobSerial(w)
        PROVE  JobSerial(w)'
    BY <1>1, <1>2, SameDead DEF JobSerial, Summing
  <1>3. Alone' /\ JobsSerial' /\ TodoSerial'
    BY <1>2 DEF SerialInv, Alone, Balancing, JobsSerial, TodoSerial
  <1> QED
    BY <1>3, SameDead DEF SerialInv, RowsSerial, RowSerial, Linking

\* Buttons of one statement take a payout nobody works on; the loop reads rows nobody
\* is writing; a provider only settles a transfer it had not settled.
LEMMA ElsewhereSerial ==
  ASSUME Serial, PayoutInv, SerialInv, Elsewhere
  PROVE  SerialInv'
  <1> USE DEF SerialInv
  <1>1. CASE StartPass
    <2>1. UNCHANGED <<job, transfer, status, ref, earned>> /\ todo' = ListProcessing
          /\ \A pt \in todo' : Free(pt[1])
      BY <1>1 DEF StartPass, Serial, rows
    <2>2. Committed' = Committed
      BY <2>1 DEF Committed
    <2>3. TodoSerial'
      BY <2>1 DEF TodoSerial, ListProcessing, Free
    <2>4. Summing => todo' = {}
      BY <2>1 DEF Free
    <2>5. Alone' /\ JobsSerial'
      BY <2>1, <2>2, <2>4, SameDead DEF Alone, Balancing, Summing, JobsSerial, JobSerial
    <2> QED
      BY <2>1, <2>3, <2>5, SameDead DEF RowsSerial, RowSerial, Linking
  <1>2. CASE EndPass \/ SalesMove \/ \E p \in Payouts : GrowOld(p)
    <2>1. UNCHANGED <<job, transfer, status, ref, todo>> /\ (earned' = earned \/ ~Summing)
      BY <1>2 DEF EndPass, SalesMove, GrowOld, Serial, rows, loop
    <2> HIDE DEF SerialInv
    <2> QED
      BY <2>1, StillSerial
  <1>3. ASSUME NEW p \in Payouts, NEW t \in Transfers, ReconcilePayout(p, t)
        PROVE  SerialInv'
    <2>1. /\ job[Loop] = IdleJob /\ <<p, t>> \in todo
          /\ todo' = todo \ {<<p, t>>} /\ UNCHANGED <<transfer, status, ref>>
      BY <1>3 DEF ReconcilePayout, rows
    <2>2. PICK pc \in {Verdict(t), "idle"} :
             job' = [job EXCEPT ![Loop] =
                       IF pc = "idle" THEN IdleJob
                       ELSE [IdleJob EXCEPT !.op = "pass", !.pc = pc, !.payout = p, !.ref = t]]
      BY <1>3 DEF ReconcilePayout
    <2>3. \A w \in Workers \ {Loop} : job'[w] = job[w]
      BY <2>2 DEF PayoutInv, TypeOK
    <2>4. /\ \A w \in Workers : job[w].payout # p /\ ~Balancing(w)
          /\ t = ref[p] /\ status[p] = "processing"
      BY <2>1 DEF TodoSerial, Alone
    <2>5. \/ pc = "idle" /\ job'[Loop] = IdleJob
          \/ pc # "idle" /\ job'[Loop].pc = pc /\ job'[Loop].payout = p
      BY <2>2, WorkersAre DEF IdleJob, PayoutInv, TypeOK
    <2>6. Known(p)
      BY <2>4, KnownRow DEF Linking
    <2>7. pc = "failed" => Dead(p)
      <3>1. pc = "failed" => transfer[t].state = "failed"
        BY <2>2 DEF Verdict
      <3> QED
        BY <3>1, <2>4, <2>6 DEF Known, Dead, DeadBut
    <2>8. JobSerial(Loop)' /\ ~Balancing(Loop)'
      <3>1. CASE pc = "idle"
        BY <2>5, <3>1, IdleIsSerial, WorkersAre DEF Balancing, IdleJob
      <3>2. CASE pc # "idle"
        <4>1. pc \in {"paid", "failed"}
          BY <3>2, VerdictIsSound
        <4> QED
          BY <4>1, <3>2, <2>1, <2>4, <2>5, <2>7, SameDead DEF JobSerial, Balancing
      <3> QED
        BY <3>1, <3>2
    <2>9. \A u \in Transfers : <<p, u>> \notin todo'
      <3>1. \A u \in Transfers : <<p, u>> \in todo => u = t
        BY <2>4 DEF TodoSerial
      <3> QED
        BY <2>1, <3>1
    <2>10. RowSerial(p)'
      BY <2>1, <2>6, StaysKnown
    <2>11. {Loop} \in SUBSET Workers /\ \A x, y \in {Loop} : x = y
      BY WorkersAre
    <2>12. todo' \subseteq todo /\ \A q \in Payouts : /\ Dead(q) => Dead(q)'
                                                    /\ \A u : DeadBut(q, u) => DeadBut(q, u)'
      BY <2>1, SameDead
    <2>13. PayPalOnce'
      BY <2>1, SameDead
    <2>14. \A x \in {Loop} : /\ job[x] = IdleJob \/ job[x].payout = p
                             /\ job'[x] = IdleJob \/ job'[x].payout = p
                             /\ ~Balancing(x)' /\ JobSerial(x)'
      BY <2>1, <2>5, <2>8
    <2> HIDE DEF SerialInv
    <2> QED
      BY <2>1, <2>3, <2>4, <2>9, <2>10, <2>11, <2>12, <2>13, <2>14, OnePayoutSerial
  <1>4. ASSUME NEW p \in Payouts, CreateManual(p) \/ SettleManually(p) \/ MarkRefunded(p)
        PROVE  SerialInv'
    <2>1. Free(p) /\ UNCHANGED <<job, transfer, ref, todo>>
      BY <1>4 DEF CreateManual, SettleManually, MarkRefunded, Serial, loop
    <2>2. /\ \A q \in Payouts : q # p => status'[q] = status[q]
          /\ status'[p] \in {"paid", "refunded"}
      BY <1>4 DEF CreateManual, SettleManually, MarkRefunded, PayoutInv, TypeOK
    <2>3. /\ \A t \in Transfers : <<p, t>> \notin todo
          /\ \A w \in Workers : job[w].payout # p /\ ~Balancing(w)
          /\ Known(p)
      BY <2>1, FreeIs
    <2>4. RowSerial(p)'
      BY <2>1, <2>2, <2>3, StaysKnown
    <2>5. /\ {} \in SUBSET Workers /\ \A v, w \in {} : v = w
          /\ \A w \in {} : /\ job[w] = IdleJob \/ job[w].payout = p
                           /\ job'[w] = IdleJob \/ job'[w].payout = p
                           /\ ~Balancing(w)' /\ JobSerial(w)'
      OBVIOUS
    <2>6. \A q \in Payouts : /\ Dead(q) => Dead(q)'
                             /\ \A u : DeadBut(q, u) => DeadBut(q, u)'
      BY <2>1, SameDead
    <2>7. PayPalOnce' /\ todo' \subseteq todo /\ ref' = ref
      BY <2>1, SameDead
    <2>8. /\ \A v \in Workers \ {} : job'[v] = job[v] /\ job[v].payout # p /\ ~Balancing(v)
          /\ \A t \in Transfers : <<p, t>> \notin todo'
      BY <2>1, <2>3
    <2> HIDE DEF SerialInv
    <2> QED
      BY <2>2, <2>4, <2>5, <2>6, <2>7, <2>8, OnePayoutSerial
  <1>5. ASSUME NEW s \in Transfers, TransferProgress(s)
        PROVE  SerialInv'
    <2>1. UNCHANGED <<job, status, ref, earned, todo>>
      BY <1>5 DEF TransferProgress, rows, loop
    <2>2. Committed' = Committed
      BY <2>1 DEF Committed
    <2>3. \A t \in Transfers : transfer'[t].payout = transfer[t].payout
                /\ (transfer[t].state = "failed" => transfer'[t].state = "failed")
      <3> SUFFICES ASSUME NEW t \in Transfers
                   PROVE  /\ transfer'[t].payout = transfer[t].payout
                          /\ transfer[t].state = "failed" => transfer'[t].state = "failed"
        OBVIOUS
      <3>1. CASE t = s
        BY <1>5, <3>1 DEF TransferProgress, PayoutInv, TypeOK
      <3>2. CASE t # s
        BY <1>5, <3>2 DEF TransferProgress, PayoutInv, TypeOK
      <3> QED
        BY <3>1, <3>2
    <2>4. \A p : TransfersOf(p)' = TransfersOf(p)
      BY <2>3 DEF TransfersOf
    <2>5. /\ \A p : Dead(p) => Dead(p)'
          /\ \A p, t : DeadBut(p, t) => DeadBut(p, t)'
          /\ PayPalOnce'
      BY <2>3, <2>4 DEF Dead, DeadBut, PayPalOnce, TransfersOf
    <2>6. Alone' /\ TodoSerial'
      BY <2>1 DEF Alone, Balancing, TodoSerial
    <2>7. JobsSerial'
      <3> SUFFICES ASSUME NEW w \in Workers PROVE JobSerial(w)'
        BY DEF JobsSerial
      <3>1. JobSerial(w) /\ job'[w] = job[w]
        BY <2>1 DEF JobsSerial
      <3> QED
        BY <2>1, <2>2, <2>5, <3>1 DEF JobSerial
    <2>8. RowsSerial'
      BY <2>1, <2>5 DEF RowsSerial, RowSerial, Linking
    <2> QED
      BY <2>5, <2>6, <2>7, <2>8
  <1> QED
    BY <1>1, <1>2, <1>3, <1>4, <1>5 DEF Elsewhere, Reconcile

-----------------------------------------------------------------------------
(* The invariant *)

\* Nothing has been sent initially.
LEMMA InitSerial == Init => SerialInv
  <1> SUFFICES ASSUME Init PROVE SerialInv
    OBVIOUS
  <1>1. \A w \in Workers : job[w] = IdleJob /\ job[w].pc = "idle" /\ job[w].payout = NoPayout
    BY DEF Init, IdleJob
  <1>2. \A p \in Payouts : TransfersOf(p) = {}
    BY PayoutConstants DEF Init, TransfersOf
  <1>3. Alone /\ JobsSerial /\ TodoSerial
    BY <1>1 DEF Init, Alone, Balancing, JobsSerial, JobSerial, TodoSerial
  <1>4. RowsSerial /\ PayPalOnce
    BY <1>2, PayoutConstants DEF RowsSerial, RowSerial, PayPalOnce, Dead, DeadBut
  <1> QED
    BY <1>3, <1>4 DEF SerialInv

\* It is inductive, relative to the references that the other invariant keeps.
LEMMA NextSerial ==
  ASSUME Serial
  PROVE  PayoutInv /\ RefHasRow /\ SerialInv /\ [Next]_vars => SerialInv'
  <1> SUFFICES ASSUME PayoutInv, RefHasRow, SerialInv, [Next]_vars PROVE SerialInv'
    OBVIOUS
  <1>1. CASE UNCHANGED vars
    <2>1. UNCHANGED <<job, transfer, status, ref, earned, todo>>
      BY <1>1 DEF vars, rows, loop
    <2> QED
      BY <2>1, StillSerial
  <1> QED
    BY <1>1, NextCases, RequestSerial, WorkerSerial, ElsewhereSerial

\* While requests for one payout do not overlap, and nothing is lost or crashes, what a
\* request read is still true when it writes, whatever is done to the other payouts.
THEOREM SerialInvariance ==
  ASSUME Serial
  PROVE  Spec => []SerialInv
  BY InitSerial, NextSerial, RefsInRows, Invariance, PTL DEF Spec

\* Of the transfers of a payout at most one may still pay: RetryPayout and
\* SettlePayoutAuto send again only what has failed.
THEOREM SentOnceAtATime ==
  ASSUME Serial
  PROVE  Spec => []NoDoubleSend
  <1>1. PayoutInv /\ SerialInv => NoDoubleSend
    <2> SUFFICES ASSUME PayoutInv, SerialInv, NEW t1 \in Transfers, NEW t2 \in Transfers,
                        Live(t1), Live(t2), transfer[t1].payout = transfer[t2].payout
                 PROVE  t1 = t2
      BY DEF NoDoubleSend
    <2>1. PICK p \in Payouts : p = transfer[t1].payout
      BY DEF Live, PayoutInv, TypeOK
    <2>2. t1 \in TransfersOf(p) /\ t2 \in TransfersOf(p)
      BY <2>1 DEF TransfersOf
    <2>3. PICK t : DeadBut(p, t)
      <3>1. CASE \E w \in Workers : Linking(w, p)
        BY <3>1 DEF Linking, SerialInv, JobsSerial, JobSerial
      <3>2. CASE DeadBut(p, ref[p])
        BY <3>2
      <3> QED
        BY <3>1, <3>2 DEF SerialInv, RowsSerial, RowSerial
    <2> QED
      BY <2>2, <2>3 DEF DeadBut, Live
  <1> QED
    BY <1>1, Invariance, SerialInvariance, PTL

\* A payout announced as paid leaves that state by the administrator's refund only.
THEOREM PaidStays ==
  ASSUME Serial
  PROVE  Spec => PaidStaysSettled
  <1>1. ASSUME PayoutInv, SerialInv, [Next]_vars, NEW p \in Payouts, status[p] = "paid"
        PROVE  status'[p] \in {"paid", "refunded"}
    <2> USE <1>1 DEF PayoutInv, TypeOK
    <2>1. CASE UNCHANGED vars
      BY <2>1 DEF vars, rows
    <2>2. ASSUME NEW h \in Handlers, Request(h)
          PROVE  status'[p] \in {"paid", "refunded"}
      BY <2>2 DEF Request, AskBalance, CreateDirect, ReadSettleable, ReadReferenced,
                  PayPalEvent, rows
    <2>3. ASSUME NEW w \in Workers, Answer(w) \/ Proceed(w) \/ Crash(w)
          PROVE  status'[p] \in {"paid", "refunded"}
      <3>1. job[w].pc \in {"link", "failed"} => status[job[w].payout] # "paid"
        BY DEF SerialInv, JobsSerial, JobSerial
      <3> QED
        BY <2>3, <3>1 DEF Answer, Proceed, Crash, SumPayouts, InsertRequest, Send, LinkTransfer,
                          AskTransfer, WritePaid, WriteFailed, rows
    <2>4. CASE Elsewhere
      BY <2>4 DEF Elsewhere, Reconcile, StartPass, EndPass, ReconcilePayout, SalesMove,
                  CreateManual, SettleManually, MarkRefunded, GrowOld, TransferProgress, rows
    <2> QED
      BY <2>1, <2>2, <2>3, <2>4, NextCases
  <1>2. PayoutInv /\ SerialInv /\ [Next]_vars
          => [\A p \in Payouts : status[p] = "paid" => status'[p] \in {"paid", "refunded"}]_status
    BY <1>1
  <1> QED
    BY <1>2, Invariance, SerialInvariance, PTL DEF Spec, PaidStaysSettled

-----------------------------------------------------------------------------
(* The promise of a payout *)

\* What of each payout has paid or may still pay.
LiveOf == [p \in Payouts |-> {t \in TransfersOf(p) : Live(t)}]

\* Nothing of a dead payout is live, and what completed is.
LEMMA LiveIsNotDead ==
  ASSUME PayoutInv, NEW p \in Payouts
  PROVE  /\ Dead(p) => LiveOf[p] = {}
         /\ Completed(p) => LiveOf[p] # {}
  BY PayoutConstants DEF LiveOf, Live, Dead, Completed, TransfersOf

\* Sending makes the new transfer the one that is live.
LEMMA SendIsLive ==
  ASSUME PayoutInv, NEW p \in Payouts, Dead(p), NEW t \in Transfers, transfer[t].payout = NoPayout,
         transfer' = [transfer EXCEPT ![t] = [payout |-> p, state |-> "submitted"]]
  PROVE  LiveOf' = [LiveOf EXCEPT ![p] = {t}]
  <1>1. /\ transfer'[t].payout = p /\ transfer'[t].state = "submitted"
        /\ \A u \in Transfers : u # t => transfer'[u] = transfer[u]
    BY DEF PayoutInv, TypeOK
  <1>2. ASSUME NEW q \in Payouts
        PROVE  LiveOf'[q] = IF q = p THEN {t} ELSE LiveOf[q]
    <2>1. CASE q = p
      BY <2>1, <1>1, PayoutConstants DEF LiveOf, Live, TransfersOf, Dead
    <2>2. CASE q # p
      BY <2>2, <1>1, PayoutConstants DEF LiveOf, Live, TransfersOf
    <2> QED
      BY <2>1, <2>2
  <1>3. LiveOf = [q \in Payouts |-> LiveOf[q]] /\ LiveOf' = [q \in Payouts |-> LiveOf'[q]]
    BY DEF LiveOf
  <1> HIDE DEF LiveOf
  <1> QED
    BY <1>2, <1>3

\* A provider that settles a transfer leaves its payout as live as before, or with
\* nothing live.
LEMMA ProgressIsBounce ==
  ASSUME PayoutInv, NoDoubleSend, NEW s \in Transfers, TransferProgress(s)
  PROVE  \/ LiveOf' = LiveOf
         \/ \E p \in Payouts : LiveOf[p] # {} /\ LiveOf' = [LiveOf EXCEPT ![p] = {}]
  <1>0. transfer \in [Transfers -> TransferRecords]
    BY DEF PayoutInv, TypeOK, TransferRecords
  <1>1. PICK p \in Payouts : p = transfer[s].payout
    BY <1>0 DEF TransferProgress, TransferRecords
  <1>2. PICK o \in {"completed", "failed"} : transfer' = [transfer EXCEPT ![s].state = o]
    BY DEF TransferProgress
  <1>3. /\ transfer'[s].payout = p /\ transfer'[s].state = o /\ transfer[s].state = "submitted"
        /\ \A u \in Transfers : u # s => transfer'[u] = transfer[u]
    BY <1>0, <1>1, <1>2 DEF TransferProgress, TransferRecords
  <1>4. p # NoPayout
    BY PayoutConstants
  <1>5. ASSUME NEW q \in Payouts, q # p
        PROVE  LiveOf'[q] = LiveOf[q]
    BY <1>1, <1>3, <1>5 DEF LiveOf, Live, TransfersOf
  <1>6. LiveOf[p] = {s}
    BY <1>1, <1>3, <1>4 DEF LiveOf, Live, TransfersOf, NoDoubleSend
  <1>7. LiveOf'[p] = IF o = "completed" THEN {s} ELSE {}
    <2>1. \A u \in Transfers : u \in LiveOf'[p] <=> u = s /\ o = "completed"
      <3>1. \A u \in Transfers : u \in LiveOf[p] <=> transfer[u].payout = p /\ Live(u)
        BY DEF LiveOf, TransfersOf
      <3>2. \A u \in Transfers : u \in LiveOf'[p] <=> transfer'[u].payout = p /\ Live(u)'
        BY DEF LiveOf, TransfersOf
      <3> HIDE DEF LiveOf
      <3>3. ASSUME NEW u \in Transfers, u # s PROVE u \notin LiveOf'[p]
        BY <1>3, <1>6, <3>1, <3>2, <3>3 DEF Live
      <3>4. s \in LiveOf'[p] <=> o = "completed"
        BY <1>3, <1>4, <3>2 DEF Live
      <3> QED
        BY <3>3, <3>4
    <2>2. LiveOf'[p] \subseteq Transfers
      BY DEF LiveOf, TransfersOf
    <2> HIDE DEF LiveOf
    <2> QED
      BY <2>1, <2>2
  <1>8. LiveOf = [q \in Payouts |-> LiveOf[q]] /\ LiveOf' = [q \in Payouts |-> LiveOf'[q]]
    BY DEF LiveOf
  <1> HIDE DEF LiveOf
  <1>9. CASE o = "completed"
    BY <1>5, <1>6, <1>7, <1>8, <1>9
  <1>10. CASE o = "failed"
    BY <1>5, <1>6, <1>7, <1>8, <1>10
  <1> QED
    BY <1>9, <1>10

\* Transfers that do not change are as live as they were.
LEMMA SameLive == transfer' = transfer => LiveOf' = LiveOf
  BY DEF LiveOf, Live, TransfersOf

\* A step of the program is one of the promise, or none.
LEMMA StepIsPromised ==
  ASSUME Serial, PayoutInv, SerialInv, NoDoubleSend, [Next]_vars
  PROVE  \/ UNCHANGED <<status, LiveOf, manual>>
         \/ \E p \in Payouts :
              \/ /\ UNCHANGED <<LiveOf, manual>>
                 /\ \E x \in Statuses :
                      /\ status' = [status EXCEPT ![p] = x]
                      /\ \/ status[p] = "none" /\ x = "requested"
                         \/ status[p] \in {"requested", "failed"} /\ x = "processing"
                         \/ status[p] \notin {"none", "paid"} /\ LiveOf[p] = {} /\ x = "failed"
                         \/ /\ status[p] \notin {"none", "paid", "failed"} /\ LiveOf[p] # {}
                            /\ x = "paid"
                         \/ status[p] \in {"paid", "failed"} /\ x = "refunded"
              \/ /\ UNCHANGED LiveOf /\ status[p] \notin {"paid", "refunded"}
                 /\ status' = [status EXCEPT ![p] = "paid"]
                 /\ manual' = [manual EXCEPT ![p] = TRUE]
              \/ /\ UNCHANGED <<status, manual>>
                 /\ status[p] \in {"requested", "failed"} /\ LiveOf[p] = {}
                 /\ \E t \in Transfers : LiveOf' = [LiveOf EXCEPT ![p] = {t}]
              \/ /\ UNCHANGED <<status, manual>>
                 /\ LiveOf[p] # {} /\ LiveOf' = [LiveOf EXCEPT ![p] = {}]
  <1> DEFINE Writes(p, x) == /\ UNCHANGED <<transfer, manual>>
                             /\ status' = [status EXCEPT ![p] = x]
  <1>x. {"requested", "processing", "failed", "paid", "refunded"} \subseteq Statuses
    BY DEF Statuses
  <1>1. CASE UNCHANGED vars
    BY <1>1, SameLive DEF vars, rows
  <1>2. ASSUME NEW h \in Handlers, Request(h)
        PROVE  UNCHANGED <<status, LiveOf, manual>>
               \/ \E p \in Payouts : status[p] = "none" /\ Writes(p, "requested")
    <2>1. UNCHANGED <<transfer, manual>>
      BY <1>2 DEF Request, AskBalance, CreateDirect, ReadSettleable, ReadReferenced, PayPalEvent, rows
    <2>2. status' = status \/ \E p \in Payouts : CreateDirect(h, p)
      BY <1>2 DEF Request, AskBalance, ReadSettleable, ReadReferenced, PayPalEvent, rows
    <2> QED
      BY <2>1, <2>2, SameLive DEF CreateDirect
  <1>3. ASSUME NEW w \in Workers, InsertRequest(w)
        PROVE  UNCHANGED <<status, LiveOf, manual>>
               \/ \E p \in Payouts : status[p] = "none" /\ Writes(p, "requested")
    BY <1>3, SameLive DEF InsertRequest
  <1>4. ASSUME NEW w \in Workers, LinkTransfer(w)
        PROVE  \E p \in Payouts : status[p] \in {"requested", "failed"} /\ Writes(p, "processing")
    BY <1>4 DEF LinkTransfer, SerialInv, JobsSerial, JobSerial, PayoutInv, Sound, SoundJobs, SoundJob
  <1>5. ASSUME NEW w \in Workers, WriteFailed(w)
        PROVE  \E p \in Payouts : status[p] \notin {"none", "paid"} /\ LiveOf[p] = {}
                                  /\ Writes(p, "failed")
    <2>1. /\ job[w].payout \in Payouts /\ Dead(job[w].payout)
          /\ status[job[w].payout] \notin {"none", "paid"}
      BY <1>5 DEF WriteFailed, SerialInv, JobsSerial, JobSerial, PayoutInv, Sound, SoundJobs, SoundJob
    <2> QED
      BY <1>5, <2>1, LiveIsNotDead DEF WriteFailed
  <1>6. ASSUME NEW w \in Workers, WritePaid(w)
        PROVE  \E p \in Payouts : status[p] \notin {"none", "paid", "failed"} /\ LiveOf[p] # {}
                                  /\ Writes(p, "paid")
    <2>1. /\ job[w].payout \in Payouts /\ Completed(job[w].payout)
          /\ status[job[w].payout] \notin {"none", "paid", "failed"}
      BY <1>6 DEF WritePaid, SerialInv, JobsSerial, JobSerial, PayoutInv, Sound, SoundJobs, SoundJob
    <2> QED
      BY <1>6, <2>1, LiveIsNotDead DEF WritePaid
  <1>7. ASSUME NEW w \in Workers, Send(w)
        PROVE  UNCHANGED <<status, LiveOf, manual>>
               \/ \E p \in Payouts : /\ UNCHANGED <<status, manual>>
                     /\ status[p] \in {"requested", "failed"} /\ LiveOf[p] = {}
                     /\ \E t \in Transfers : LiveOf' = [LiveOf EXCEPT ![p] = {t}]
    <2>0. UNCHANGED <<status, manual>> /\ job[w].pc = "send"
      BY <1>7 DEF Send, rows
    <2>1. PICK p \in Payouts : p = job[w].payout
      BY <2>0 DEF PayoutInv, Sound, SoundJobs, SoundJob
    <2>2. Dead(p) /\ status[p] \in {"requested", "failed"}
      BY <2>0, <2>1 DEF SerialInv, JobsSerial, JobSerial
    <2>3. CASE UNCHANGED transfer
      BY <2>0, <2>3, SameLive
    <2>4. ASSUME NEW t \in Transfers, transfer[t].payout = NoPayout,
                 transfer' = [transfer EXCEPT ![t] = [payout |-> p, state |-> "submitted"]]
          PROVE  \E u \in Transfers : LiveOf' = [LiveOf EXCEPT ![p] = {u}]
      BY <2>2, <2>4, SendIsLive
    <2> HIDE DEF LiveOf
    <2> QED
      BY <1>7, <2>0, <2>1, <2>2, <2>3, <2>4, LiveIsNotDead DEF Send, Serial
  <1>8. ASSUME NEW w \in Workers, SumPayouts(w) \/ AskTransfer(w) \/ Crash(w)
        PROVE  UNCHANGED <<status, LiveOf, manual>>
    BY <1>8, SameLive DEF SumPayouts, AskTransfer, Crash, rows
  <1>9. ASSUME NEW p \in Payouts, CreateManual(p) \/ SettleManually(p)
        PROVE  /\ UNCHANGED LiveOf /\ status[p] \notin {"paid", "refunded"}
               /\ status' = [status EXCEPT ![p] = "paid"]
               /\ manual' = [manual EXCEPT ![p] = TRUE]
    BY <1>9, SameLive DEF CreateManual, SettleManually
  <1>10. ASSUME NEW p \in Payouts, MarkRefunded(p)
         PROVE  status[p] \in {"paid", "failed"} /\ Writes(p, "refunded")
    BY <1>10 DEF MarkRefunded
  <1>11. ASSUME \/ Reconcile \/ SalesMove \/ \E p \in Payouts : GrowOld(p)
         PROVE  UNCHANGED <<status, LiveOf, manual>>
    BY <1>11, SameLive DEF Reconcile, StartPass, EndPass, ReconcilePayout, SalesMove, GrowOld, rows
  <1>12. ASSUME NEW s \in Transfers, TransferProgress(s)
         PROVE  /\ UNCHANGED <<status, manual>>
                /\ \/ LiveOf' = LiveOf
                   \/ \E p \in Payouts : LiveOf[p] # {} /\ LiveOf' = [LiveOf EXCEPT ![p] = {}]
    BY <1>12, ProgressIsBounce DEF TransferProgress, rows
  <1>13. \A p, x : Writes(p, x) => UNCHANGED <<LiveOf, manual>> /\ status' = [status EXCEPT ![p] = x]
    BY SameLive
  <1> HIDE DEF LiveOf, Writes
  <1>14. CASE \E h \in Handlers : Request(h)
    BY <1>14, <1>x, <1>2, <1>13
  <1>15. CASE \E w \in Workers : Answer(w) \/ Proceed(w) \/ Crash(w)
    BY <1>15, <1>x, <1>3, <1>4, <1>5, <1>6, <1>7, <1>8, <1>13 DEF Answer, Proceed
  <1>16. CASE Elsewhere
    BY <1>16, <1>x, <1>9, <1>10, <1>11, <1>12, <1>13 DEF Elsewhere
  <1> QED
    BY <1>1, <1>14, <1>15, <1>16, NextCases

\* The payout lifecycle, with its unguarded writes and its retries under new
\* references, implements what vendor and administration count on: PayoutOutcome.
THEOREM PayoutOutcomeKept ==
  ASSUME Serial
  PROVE  Spec => KeepsPayoutOutcome
  <1>1. Init => Outcome!Init
    BY PayoutConstants DEF Init, Outcome!Init, TransfersOf, Live
  <1>2. PayoutInv /\ SerialInv /\ NoDoubleSend /\ [Next]_vars
          => [Outcome!Next]_<<status, LiveOf, manual>>
    <2> SUFFICES ASSUME PayoutInv, SerialInv, NoDoubleSend, [Next]_vars,
                        ~UNCHANGED <<status, LiveOf, manual>>
                 PROVE  Outcome!Next
      OBVIOUS
    <2> USE DEF LiveOf
    <2> QED
      BY StepIsPromised
      DEF Outcome!Next, Outcome!Request, Outcome!Send, Outcome!Follow, Outcome!Bounce,
          Outcome!Fail, Outcome!Confirm, Outcome!SettleByHand, Outcome!Refund, Outcome!Decide
  <1> QED
    BY <1>1, <1>2, Invariance, SerialInvariance, SentOnceAtATime, PTL
    DEF Spec, KeepsPayoutOutcome, Outcome!Spec, LiveOf

\* A request is inserted only within the balance, of a table of any finite length.
THEOREM WithinBalance ==
  ASSUME Serial, IsFiniteSet(Payouts)
  PROVE  Spec => InsertWithinBalance
  <1> DEFINE Within ==
        \A p \in Payouts \ DirectPayouts :
          status[p] = "none" /\ status'[p] = "requested"
            => Cardinality({q \in Payouts \ DirectPayouts :
                              status'[q] \in {"requested", "processing", "paid"}}) <= earned'
  <1>1. ASSUME PayoutInv, SerialInv, [Next]_vars, NEW p \in Payouts \ DirectPayouts,
               status[p] = "none", status'[p] = "requested"
        PROVE  Cardinality({q \in Payouts \ DirectPayouts :
                              status'[q] \in {"requested", "processing", "paid"}}) <= earned'
    <2> USE <1>1 DEF PayoutInv, TypeOK
    <2>1. PICK w \in Workers : InsertRequest(w)
      <3>1. CASE UNCHANGED vars
        BY <3>1 DEF vars, rows
      <3>2. ASSUME NEW h \in Handlers, Request(h)
            PROVE  FALSE
        BY <3>2 DEF Request, AskBalance, CreateDirect, ReadSettleable, ReadReferenced,
                    PayPalEvent, rows
      <3>3. ASSUME NEW w \in Workers, Answer(w) \/ Proceed(w) \/ Crash(w)
            PROVE  InsertRequest(w)
        BY <3>3 DEF Answer, Proceed, Crash, SumPayouts, Send, LinkTransfer,
                    AskTransfer, WritePaid, WriteFailed, rows
      <3>4. CASE Elsewhere
        BY <3>4 DEF Elsewhere, Reconcile, StartPass, EndPass, ReconcilePayout, SalesMove,
                    CreateManual, SettleManually, MarkRefunded, GrowOld, TransferProgress, rows
      <3> QED
        BY <3>1, <3>2, <3>3, <3>4, NextCases
    <2> DEFINE S == {q \in Payouts \ DirectPayouts : status[q] \notin {"none", "failed", "refunded"}}
               T == {q \in Payouts \ DirectPayouts :
                              status'[q] \in {"requested", "processing", "paid"}}
    <2>2. job[w].room = earned /\ job[w].room > Committed /\ earned' = earned
      BY <2>1 DEF InsertRequest, SerialInv, JobsSerial, JobSerial
    <2>3. T \subseteq S \cup {p} /\ p \notin S
      <3>1. \A q \in Payouts : q # p => status'[q] = status[q]
        BY <2>1 DEF InsertRequest
      <3> QED
        BY <3>1 DEF Statuses
    <2>4. IsFiniteSet(S)
      BY FS_Subset
    <2>5. Cardinality(S \cup {p}) = Cardinality(S) + 1 /\ IsFiniteSet(S \cup {p})
          /\ Cardinality(S) \in Nat
      BY <2>3, <2>4, FS_AddElement, FS_CardinalityType
    <2>6. Cardinality(T) <= Cardinality(S) + 1 /\ Cardinality(T) \in Nat
      BY <2>3, <2>5, FS_Subset, FS_CardinalityType
    <2>7. Committed = Cardinality(S)
      BY DEF Committed
    <2>8. earned \in Nat
      BY PayoutConstants
    <2> HIDE DEF S, T
    <2>9. Cardinality(T) <= earned'
      BY <2>2, <2>5, <2>6, <2>7, <2>8
    <2> QED
      BY <2>9 DEF T
  <1>2. PayoutInv /\ SerialInv /\ [Next]_vars => [Within]_status
    BY <1>1
  <1>3. [Within]_status <=> [\A p \in Payouts \ DirectPayouts :
          status[p] = "none" /\ status'[p] = "requested"
            => Cardinality({q \in Payouts \ DirectPayouts :
                              status'[q] \in {"requested", "processing", "paid"}}) <= earned']_status
    OBVIOUS
  <1> HIDE DEF Within
  <1> QED
    BY <1>2, <1>3, Invariance, SerialInvariance, PTL DEF Spec, InsertWithinBalance

=============================================================================
