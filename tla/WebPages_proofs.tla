--------------------------- MODULE WebPages_proofs ----------------------------
(***************************************************************************)
(* What the pages behind the login do, for any screens, rows, tabs, calls, *)
(* pictures and submissions: each part for itself, then the whole site.    *)
(* The lemmas of the session are those of WebSession_proofs.               *)
(***************************************************************************)
EXTENDS WebPages, WebSession_proofs

-----------------------------------------------------------------------------
(* The list screens: types *)

ThreadNames == Slots \cup {"load"}
PageRows    == DOMAIN screen.offers
Keys        == Rows \cup {"form"}

\* What the closure of a handler, or the load of a filter, keeps.
Closures(s) ==
    IF s = "load" THEN [tab: DOMAIN screen.tabs]
    ELSE [act: DOMAIN screen.handlers, row: Rows, key: Keys, tab: DOMAIN screen.tabs]

\* Where a thread may be, and what it holds there.
GoodThread(s, v) ==
    \/ v = Idle
    \/ s # "load" /\ v \in [step: {"sent"}, call: Closures(s)]
    \/ s # "load" /\ v \in [step: {"ok", "error"}, call: Closures(s), now: PageRows]
    \/ v \in [step: {"asked"}, call: Closures(s)]
    \/ v \in [step: {"read"}, call: Closures(s), list: [Rows -> PageRows]]

ThreadsOK == DOMAIN thread = ThreadNames /\ \A s \in ThreadNames : GoodThread(s, thread[s])

ScreenInv == ConsoleTypeOK /\ ThreadsOK

\* What the assumption says of the screen that is open.
LEMMA ScreenFacts ==
  ASSUME name \in DOMAIN Screens
  PROVE  /\ IsScreen(screen) /\ KeepsUp(screen)
         /\ \A act \in DOMAIN screen.handlers :
              /\ HandlerOf(act) \in Handlers
              /\ HandlerOf(act).lock = NoLock
                   \/ (act \in screen.dialogs /\ HandlerOf(act).closes = "after")
                 => <<name, act>> \in Unlocked
  BY ConsoleAssumption DEF screen, HandlerOf, IsScreen

\* The bound on decisions is a number.
LEMMA DecisionsFact == Decisions \in Nat
  BY ConsoleAssumption

\* A lock is one of a row, one of the page, or none.
LEMMA LockFacts ==
  ASSUME NEW h \in Handlers
  PROVE  /\ h.lock.by \in {"row", "page", "none"}
         /\ h.lock.by = "none" => h.lock = NoLock
         /\ h.lock.by # "none" => h.lock # NoLock /\ h.lock.slot # "none"
         /\ NoLock.slot = "none"
         /\ h.closes \in {"before", "after", "success"}
         /\ h.after \in {"await", "reload", "patch", "drop", "none"}
  BY DEF Handlers, Locks, NoLock

\* No step opens another screen.
LEMMA SameScreen ==
  ASSUME [ConsoleNext]_consoleVars
  PROVE  name' = name /\ screen' = screen
  BY DEF ConsoleNext, consoleVars, Click, Send, Confirm, Cancel, ThreadStep, Execute, Failed,
     Succeeded, ReadList, ShowList, ReadFailed, EndRead, Outside, ChangeTab, screen

\* A step of one thread.
LEMMA OneThread ==
  ASSUME ThreadsOK, name' = name, NEW s \in ThreadNames, NEW v, GoodThread(s, v),
         thread' = [thread EXCEPT ![s] = v]
  PROVE  /\ ThreadsOK' /\ thread'[s] = v
         /\ \A t \in ThreadNames : t # s => thread'[t] = thread[t]
  BY DEF ThreadsOK, GoodThread, Closures, PageRows, screen

\* The rows under a filter are rows.
LEMMA ListingTyped ==
  ASSUME name \in DOMAIN Screens, db \in [Rows -> PageRows], NEW t
  PROVE  Listing(t) \in [Rows -> PageRows]
  <1>1. Gone \in PageRows /\ db \in [Rows -> PageRows]
    BY ScreenFacts DEF IsScreen, PageRows
  <1> QED
    BY <1>1 DEF Listing, Through

\* What the backend may leave of a row is a row.
LEMMA EffectsTyped ==
  ASSUME name \in DOMAIN Screens, db \in [Rows -> PageRows], NEW r \in Rows, NEW act, NEW e \in EffectsOf(act, db[r])
  PROVE  /\ act \in DOMAIN screen.effects[db[r]] /\ e \in screen.effects[db[r]][act]
         /\ e = <<e[1], e[2]>> /\ e[1] \in {"ok", "error"} /\ e[2] \in PageRows
  <1>1. db[r] \in DOMAIN screen.effects /\ IsScreen(screen)
    BY ScreenFacts DEF IsScreen, PageRows
  <1>2. act \in DOMAIN screen.effects[db[r]] /\ e \in screen.effects[db[r]][act]
    BY DEF EffectsOf
  <1>3. screen.effects[db[r]][act] \subseteq {"ok", "error"} \X PageRows
    BY <1>1, <1>2 DEF IsScreen, PageRows
  <1> QED
    BY <1>2, <1>3

\* The locks are kept by variables of one value.
BusyOK ==
    /\ busy \subseteq {HandlerOf(act).lock.slot : act \in DOMAIN screen.handlers} \X Keys
    /\ \A b, c \in busy : b[1] = c[1] => b = c

\* Taking a lock and giving it back.
LEMMA TakeTyped ==
  ASSUME BusyOK, name' = name, NEW act \in DOMAIN screen.handlers, NEW r \in Rows, Take(act, r)
  PROVE  BusyOK'
  <1> DEFINE k == <<HandlerOf(act).lock.slot, Key(r)>>
  <1>1. k \in {HandlerOf(a).lock.slot : a \in DOMAIN screen.handlers} \X Keys
    BY DEF Key, Keys
  <1>2. busy' = busy \/ busy' = (busy \ Holds(HandlerOf(act).lock)) \cup {k}
    BY DEF Take
  <1>3. \A b \in busy \ Holds(HandlerOf(act).lock) : b[1] # k[1]
    BY DEF Holds
  <1> QED
    BY <1>1, <1>2, <1>3 DEF BusyOK, HandlerOf, screen, Keys

\* Giving a lock back keeps its type.
LEMMA ReleaseTyped ==
  ASSUME BusyOK, name' = name, busy' \subseteq busy
  PROVE  BusyOK'
  BY DEF BusyOK, HandlerOf, screen, Keys

\* The type invariant, part by part.
Typed ==
    /\ name \in DOMAIN Screens
    /\ db \in [Rows -> PageRows] /\ shown \in [Rows -> PageRows]
    /\ tab \in DOMAIN screen.tabs
    /\ dialog = NoDialog \/ dialog \in screen.dialogs \X Rows
    /\ BusyOK /\ ThreadsOK
    /\ decided \in 0..Decisions
    /\ excuse \subseteq {"crossed", "taken", "outside", "spoiled", "lost"}

\* The type as the page states it and as the proofs use it.
LEMMA TypeParts == ConsoleTypeOK /\ ThreadsOK <=> Typed
  <1>1. ThreadsOK => \A s \in DOMAIN thread :
                       thread[s].step \in {"idle", "sent", "ok", "error", "asked", "read"}
    BY DEF ThreadsOK, GoodThread, Idle
  <1> QED
    BY <1>1 DEF Typed, ConsoleTypeOK, BusyOK, PageRows, Keys

\* What a screen opens with is of the type.
LEMMA InitTyped == ConsoleInit => Typed
  <1> SUFFICES ASSUME ConsoleInit PROVE Typed
    OBVIOUS
  <1>1. IsScreen(screen) /\ name \in DOMAIN Screens
    BY ScreenFacts DEF ConsoleInit
  <1>2. db \in [Rows -> PageRows] /\ tab \in DOMAIN screen.tabs /\ Gone \in PageRows
    BY <1>1 DEF ConsoleInit, IsScreen, PageRows
  <1>3. Listed \in [Rows -> PageRows]
    BY <1>2 DEF Listed, Listing, Through
  <1>4. ThreadsOK /\ BusyOK
    BY DEF ConsoleInit, ThreadsOK, ThreadNames, GoodThread, BusyOK
  <1> QED
    BY <1>1, <1>2, <1>3, <1>4, DecisionsFact DEF ConsoleInit, Typed

\* The buttons of a row have handlers.
LEMMA ActsHandled ==
  ASSUME Typed, NEW r \in Rows, NEW act \in Acts(shown[r])
  PROVE  act \in DOMAIN screen.handlers
  BY ScreenFacts DEF Typed, IsScreen, Acts, PageRows

\* A call is sent by a thread that was idle.
LEMMA SendTyped ==
  ASSUME Typed, UNCHANGED <<name, db, shown, tab>>,
         NEW act \in DOMAIN screen.handlers, NEW r \in Rows, NEW s \in Slots, Send(act, r, s),
         dialog' = NoDialog \/ dialog' = dialog
  PROVE  Typed'
  <1> DEFINE v == [step |-> "sent", call |-> [act |-> act, row |-> r, key |-> Key(r), tab |-> tab]]
  <1>1. s \in ThreadNames /\ s # "load"
    BY DEF ThreadNames, Slots
  <1>2. v.call \in Closures(s)
    BY <1>1 DEF Closures, Typed, Key, Keys
  <1>3. GoodThread(s, v)
    BY <1>1, <1>2 DEF GoodThread
  <1>4. ThreadsOK'
    BY <1>1, <1>3, OneThread DEF Typed, Send
  <1>5. BusyOK'
    BY TakeTyped DEF Typed, Send
  <1>6. decided' \in 0..Decisions
    BY DecisionsFact DEF Typed, Send
  <1>7. excuse' \subseteq {"crossed", "taken", "outside", "spoiled", "lost"}
    BY DEF Typed, Send
  <1> QED
    BY <1>4, <1>5, <1>6, <1>7 DEF Typed, PageRows, screen, NoDialog

\* Only the confirmation and the locks change.
LEMMA FrameTyped ==
  ASSUME Typed, UNCHANGED <<name, db, shown, tab, thread, decided, excuse>>,
         BusyOK', dialog' = NoDialog \/ dialog' \in screen.dialogs \X Rows
  PROVE  Typed'
  <1>1. ThreadsOK'
    BY DEF Typed, ThreadsOK, GoodThread, Closures, PageRows, screen
  <1> QED
    BY <1>1 DEF Typed, PageRows, screen, NoDialog

\* Buttons, confirmations and filters.
LEMMA PersonTyped ==
  ASSUME Typed,
         \/ \E r \in Rows, s \in Slots : \E act \in Acts(shown[r]) : Click(act, r, s)
         \/ \E s \in Slots : Confirm(s)
         \/ Cancel \/ ChangeTab
  PROVE  Typed'
  <1>1. ASSUME NEW r \in Rows, NEW s \in Slots, NEW act \in Acts(shown[r]), Click(act, r, s)
        PROVE  Typed'
    <2>1. act \in DOMAIN screen.handlers
      BY ActsHandled
    <2>2. CASE act \in screen.dialogs
      <3>1. dialog' = <<act, r>> /\ UNCHANGED <<name, db, shown, tab, busy, thread, decided, excuse>>
        BY <1>1, <2>2 DEF Click
      <3> QED
        BY <2>2, <3>1, ReleaseTyped, FrameTyped DEF Typed
    <2>3. CASE act \notin screen.dialogs
      BY <1>1, <2>1, <2>3, SendTyped DEF Click
    <2> QED
      BY <2>2, <2>3
  <1>2. ASSUME NEW s \in Slots, Confirm(s)
        PROVE  Typed'
    <2>1. dialog \in screen.dialogs \X Rows
      BY <1>2 DEF Confirm, Typed
    <2>2. dialog[1] \in DOMAIN screen.handlers /\ dialog[2] \in Rows
      BY <2>1, ScreenFacts DEF Typed, IsScreen
    <2> QED
      BY <1>2, <2>2, SendTyped DEF Confirm
  <1>3. CASE Cancel
    BY <1>3, ReleaseTyped, FrameTyped DEF Cancel, Typed
  <1>4. CASE ChangeTab
    <2> PICK t \in DOMAIN screen.tabs \ {tab} :
          /\ tab' = t /\ UNCHANGED <<name, db, shown, dialog, busy>>
          /\ IF screen.asks
             THEN /\ ~Running("load") /\ decided < Decisions
                  /\ decided' = decided + 1
                  /\ thread' = [thread EXCEPT !["load"] = [step |-> "asked", call |-> [tab |-> t]]]
                  /\ excuse' = IF Quiet THEN excuse ELSE excuse \cup {"crossed"}
             ELSE UNCHANGED <<thread, decided, excuse>>
      BY <1>4 DEF ChangeTab
    <2>1. "load" \in ThreadNames /\ GoodThread("load", [step |-> "asked", call |-> [tab |-> t]])
      BY DEF ThreadNames, GoodThread, Closures
    <2>2. ThreadsOK'
      <3>1. CASE screen.asks
        BY <2>1, <3>1, OneThread DEF Typed
      <3>2. CASE ~screen.asks
        BY <3>2 DEF Typed, ThreadsOK, GoodThread, Closures, PageRows, screen
      <3> QED
        BY <3>1, <3>2
    <2>3. decided' \in 0..Decisions
      <3>1. decided' = decided \/ (decided < Decisions /\ decided' = decided + 1)
        OBVIOUS
      <3> QED
        BY <3>1, DecisionsFact DEF Typed
    <2>4. excuse' \subseteq {"crossed", "taken", "outside", "spoiled", "lost"}
      <3>1. excuse' = excuse \/ excuse' = excuse \cup {"crossed"}
        OBVIOUS
      <3> QED
        BY <3>1 DEF Typed
    <2> QED
      BY <2>2, <2>3, <2>4 DEF Typed, BusyOK, PageRows, HandlerOf, screen, NoDialog
  <1> QED
    BY <1>1, <1>2, <1>3, <1>4

\* The backend: a call is carried out, or a row changes on its own.
LEMMA BackendTyped ==
  ASSUME Typed, (\E s \in Slots : Execute(s)) \/ (\E r \in Rows : Outside(r))
  PROVE  Typed'
  <1>1. ASSUME NEW s \in Slots, Execute(s)
        PROVE  Typed'
    <2> DEFINE call == thread[s].call
               r == call.row
               effects == EffectsOf(call.act, db[r])
    <2>0. s \in ThreadNames /\ s # "load"
      BY DEF ThreadNames, Slots
    <2>1. call \in Closures(s) /\ r \in Rows
      BY <1>1, <2>0 DEF Execute, Typed, ThreadsOK, GoodThread, Closures, Idle
    <2> PICK e \in IF effects = {} THEN Error(db[r]) ELSE effects :
          /\ thread' = [thread EXCEPT ![s] = [step |-> e[1], call |-> call, now |-> e[2]]]
          /\ db' = [db EXCEPT ![r] = e[2]]
          /\ excuse' = IF e[1] = "error" /\ e[2] # db[r] THEN excuse \cup {"spoiled"} ELSE excuse
      BY <1>1 DEF Execute
    <2>2. e[1] \in {"ok", "error"} /\ e[2] \in PageRows
      <3>1. CASE effects = {}
        BY <2>1, <3>1 DEF Error, Typed
      <3>2. CASE effects # {}
        BY <2>1, <3>2, EffectsTyped DEF Typed
      <3> QED
        BY <3>1, <3>2
    <2>3. GoodThread(s, [step |-> e[1], call |-> call, now |-> e[2]])
      BY <2>0, <2>1, <2>2 DEF GoodThread
    <2>4. UNCHANGED <<name, shown, tab, dialog, busy, decided>>
      BY <1>1 DEF Execute
    <2>5. ThreadsOK'
      BY <2>0, <2>3, <2>4, OneThread DEF Typed
    <2>6. BusyOK'
      BY <2>4, ReleaseTyped DEF Typed
    <2> QED
      BY <2>1, <2>2, <2>4, <2>5, <2>6 DEF Typed, PageRows, screen, NoDialog
  <1>2. ASSUME NEW r \in Rows, Outside(r)
        PROVE  Typed'
    <2> PICK act \in DOMAIN screen.effects[db[r]] :
          \E e \in EffectsOf(act, db[r]) : db' = [db EXCEPT ![r] = e[2]]
      BY <1>2 DEF Outside
    <2> PICK e \in EffectsOf(act, db[r]) : db' = [db EXCEPT ![r] = e[2]]
      OBVIOUS
    <2>1. e[2] \in PageRows
      BY EffectsTyped DEF Typed
    <2>2. /\ UNCHANGED <<name, shown, tab, dialog, busy, thread>>
          /\ decided < Decisions /\ decided' = decided + 1 /\ excuse' = excuse \cup {"outside"}
      BY <1>2 DEF Outside
    <2>3. ThreadsOK'
      BY <2>2 DEF Typed, ThreadsOK, GoodThread, Closures, PageRows, screen
    <2>4. BusyOK'
      BY <2>2, ReleaseTyped DEF Typed
    <2> QED
      BY <2>1, <2>2, <2>3, <2>4, DecisionsFact DEF Typed, PageRows, screen, NoDialog
  <1> QED
    BY <1>1, <1>2

\* An answer, or a read of the list, arrives.
LEMMA AnswerTyped ==
  ASSUME Typed,
         \/ \E s \in Slots : Failed(s) \/ Succeeded(s)
         \/ \E s \in DOMAIN thread : ReadList(s) \/ ShowList(s) \/ ReadFailed(s)
  PROVE  Typed'
  <1>0. DOMAIN thread = ThreadNames /\ \A s \in Slots : s \in ThreadNames /\ s # "load"
    BY DEF Typed, ThreadsOK, ThreadNames, Slots
  <1>1. ASSUME NEW s \in ThreadNames, NEW v, GoodThread(s, v), thread' = [thread EXCEPT ![s] = v],
               UNCHANGED <<name, db, tab, decided>>, busy' \subseteq busy,
               dialog' = dialog \/ dialog' = NoDialog,
               shown' \in [Rows -> PageRows], excuse' \subseteq excuse \cup {"lost"}
        PROVE  Typed'
    <2>1. ThreadsOK' /\ BusyOK'
      BY <1>1, OneThread, ReleaseTyped DEF Typed
    <2> QED
      BY <1>1, <2>1 DEF Typed, PageRows, screen, NoDialog
  <1>2. \A s \in ThreadNames : GoodThread(s, Idle)
    BY DEF GoodThread
  <1>3. ASSUME NEW s \in Slots, Failed(s)
        PROVE  Typed'
    BY <1>0, <1>1, <1>2, <1>3 DEF Failed, Release, Closed, Typed
  <1>4. ASSUME NEW s \in Slots, Succeeded(s)
        PROVE  Typed'
    <2> DEFINE v == thread[s]
    <2>1. v \in [step: {"ok", "error"}, call: Closures(s), now: PageRows]
      BY <1>0, <1>4 DEF Succeeded, Typed, ThreadsOK, GoodThread, Idle
    <2>2. v.call.row \in Rows /\ v.now \in PageRows /\ v.call \in Closures(s)
      BY <1>0, <2>1 DEF Closures
    <2>3. GoodThread(s, Refreshed(v.call, v.now))
      BY <2>2 DEF GoodThread, Refreshed
    <2>4. shown' \in [Rows -> PageRows]
      <3>1. Gone \in PageRows
        BY ScreenFacts DEF IsScreen, PageRows, Typed
      <3>2. shown' = [shown EXCEPT ![v.call.row] =
                        RowAfter(HandlerOf(v.call.act).after, shown[v.call.row], v.now)]
        BY <1>4 DEF Succeeded
      <3> QED
        BY <2>2, <3>1, <3>2 DEF RowAfter, Typed
    <2>5. busy' \subseteq busy /\ (dialog' = dialog \/ dialog' = NoDialog)
      BY <1>4 DEF Succeeded, Release, Closed
    <2> QED
      BY <1>0, <1>1, <1>4, <2>3, <2>4, <2>5 DEF Succeeded
  <1>5. ASSUME NEW s \in ThreadNames, ReadList(s)
        PROVE  Typed'
    <2> DEFINE v == [step |-> "read", call |-> thread[s].call,
                     list |-> Listing(Asked(thread[s].call.tab))]
    <2>1. thread[s].call \in Closures(s)
      BY <1>5 DEF ReadList, Typed, ThreadsOK, GoodThread, Idle
    <2>2. GoodThread(s, v)
      BY <2>1, ListingTyped DEF GoodThread, Typed
    <2> QED
      BY <1>1, <1>5, <2>2 DEF ReadList, Typed
  <1>6. ASSUME NEW s \in ThreadNames, ShowList(s) \/ ReadFailed(s)
        PROVE  Typed'
    <2>1. shown' \in [Rows -> PageRows]
      BY <1>6 DEF ShowList, ReadFailed, Typed, ThreadsOK, GoodThread, Idle
    <2> QED
      BY <1>1, <1>2, <1>6, <2>1 DEF ShowList, ReadFailed, EndRead, Release
  <1> QED
    BY <1>0, <1>3, <1>4, <1>5, <1>6

\* Every step keeps the types.
LEMMA ConsoleTyped ==
  ASSUME Typed, [ConsoleNext]_consoleVars
  PROVE  Typed'
  <1>1. CASE UNCHANGED consoleVars
    BY <1>1, ReleaseTyped, FrameTyped DEF consoleVars, Typed
  <1>2. ASSUME NEW s \in DOMAIN thread, ThreadStep(s)
        PROVE  Typed'
    BY <1>2, BackendTyped, AnswerTyped DEF ThreadStep, Typed, ThreadsOK, ThreadNames
  <1> QED
    BY <1>1, <1>2, PersonTyped, BackendTyped DEF ConsoleNext

-----------------------------------------------------------------------------
(* One call at a time *)

HandlerIn(s) == HandlerOf(thread[s].call.act)

\* A handler that has not given its lock back.
Holding(s) ==
    /\ \/ thread[s].step \in {"sent", "ok", "error"}
       \/ thread[s].step \in {"asked", "read"} /\ HandlerIn(s).after = "await"
    /\ HandlerIn(s).lock # NoLock

\* Its lock is taken, and no other handler holds the same variable.
LockInv ==
    "taken" \notin excuse =>
      \A s \in Slots : Holding(s) =>
        /\ <<HandlerIn(s).lock.slot, thread[s].call.key>> \in busy
        /\ \A t \in Slots \ {s} : Holding(t) => HandlerIn(s).lock.slot # HandlerIn(t).lock.slot

\* A call that takes no lock over finds its variable free.
LEMMA LockIsFree ==
  ASSUME Typed, NEW act \in DOMAIN screen.handlers, NEW r \in Rows,
         Enabled(act, r) \/ (act \in screen.dialogs /\ HandlerOf(act).closes = "after"),
         ~TakesOver(act, r), HandlerOf(act).lock # NoLock
  PROVE  Holds(HandlerOf(act).lock) = {}
  <1> DEFINE lock == HandlerOf(act).lock
  <1>1. HandlerOf(act) \in Handlers
    BY ScreenFacts DEF Typed
  <1>2. lock.by = "row" \/ lock.by = "page"
    BY <1>1, LockFacts
  <1> SUFFICES ASSUME NEW b \in Holds(lock) PROVE FALSE
    OBVIOUS
  <1>3. b \in busy /\ b[1] = lock.slot /\ b[2] = Key(r)
    BY DEF TakesOver, Holds
  <1>4. b = <<lock.slot, Key(r)>>
    BY <1>3 DEF Typed, BusyOK
  <1> QED
    BY <1>2, <1>3, <1>4 DEF Enabled, TakesOver

\* A call sent leaves the locks of the others alone, or takes one over.
LEMMA SendLocks ==
  ASSUME Typed, LockInv, UNCHANGED <<name, db, shown, tab>>,
         NEW act \in DOMAIN screen.handlers, NEW r \in Rows, NEW s \in Slots, Send(act, r, s),
         Enabled(act, r) \/ (act \in screen.dialogs /\ HandlerOf(act).closes = "after")
  PROVE  LockInv'
  <1> SUFFICES ASSUME "taken" \notin excuse'
               PROVE  LockInv'
    BY DEF LockInv
  <1> DEFINE v == [step |-> "sent", call |-> [act |-> act, row |-> r, key |-> Key(r), tab |-> tab]]
             lock == HandlerOf(act).lock
  <1>1. "taken" \notin excuse /\ ~TakesOver(act, r) /\ Take(act, r) /\ ~Running(s)
    BY DEF Send
  <1>2. thread'[s] = v /\ \A t \in Slots : t # s => thread'[t] = thread[t]
    BY DEF Send, Typed, ThreadsOK, ThreadNames
  <1>3. \A h : HandlerOf(h)' = HandlerOf(h)
    BY DEF HandlerOf, screen
  <1>4. HandlerIn(s)' = HandlerOf(act) /\ (Holding(s)' <=> lock # NoLock)
    BY <1>2, <1>3 DEF HandlerIn, Holding
  <1>5. \A t \in Slots \ {s} : HandlerIn(t)' = HandlerIn(t) /\ (Holding(t)' <=> Holding(t))
    BY <1>2, <1>3 DEF HandlerIn, Holding
  <1>6. lock # NoLock => Holds(lock) = {}
    BY <1>1, LockIsFree
  <1>7. lock # NoLock => busy' = busy \cup {<<lock.slot, Key(r)>>}
    BY <1>1, <1>6 DEF Take
  <1>8. lock = NoLock => busy' = busy
    BY <1>1 DEF Take
  <1>9. \A t \in Slots \ {s} : Holding(t) /\ lock # NoLock => HandlerIn(t).lock.slot # lock.slot
    <2> SUFFICES ASSUME NEW t \in Slots \ {s}, Holding(t), lock # NoLock, HandlerIn(t).lock.slot = lock.slot
                 PROVE  FALSE
      OBVIOUS
    <2>1. <<lock.slot, thread[t].call.key>> \in busy
      BY <1>1 DEF LockInv
    <2> QED
      BY <1>6, <2>1 DEF Holds
  <1>10. ASSUME NEW t \in Slots, Holding(t)'
         PROVE  /\ <<HandlerIn(t).lock.slot, thread[t].call.key>>' \in busy'
                /\ \A u \in Slots \ {t} : Holding(u)' => HandlerIn(t)'.lock.slot # HandlerIn(u)'.lock.slot
    <2>1. CASE t = s
      <3>1. lock # NoLock /\ HandlerIn(t)' = HandlerOf(act) /\ thread'[t].call.key = Key(r)
        BY <1>2, <1>4, <1>10, <2>1
      <3>2. <<lock.slot, Key(r)>> \in busy'
        BY <1>7, <3>1
      <3>3. \A u \in Slots \ {t} : Holding(u)' => lock.slot # HandlerIn(u)'.lock.slot
        BY <1>5, <1>9, <2>1, <3>1
      <3> QED
        BY <3>1, <3>2, <3>3
    <2>2. CASE t # s
      <3>1. Holding(t) /\ <<HandlerIn(t).lock.slot, thread[t].call.key>> \in busy
        BY <1>1, <1>5, <1>10, <2>2 DEF LockInv
      <3>2. \A u \in Slots \ {t} : Holding(u) => HandlerIn(t).lock.slot # HandlerIn(u).lock.slot
        BY <1>1, <3>1 DEF LockInv
      <3> QED
        BY <1>2, <1>4, <1>5, <1>7, <1>8, <1>9, <2>2, <3>1, <3>2
    <2> QED
      BY <2>1, <2>2
  <1> QED
    BY <1>10 DEF LockInv

\* A handler that runs a call has one of the screen's.
LEMMA CallHandled ==
  ASSUME Typed, NEW s \in Slots, thread[s] # Idle
  PROVE  /\ thread[s].call \in Closures(s) /\ HandlerIn(s) \in Handlers
         /\ thread[s].call.act \in DOMAIN screen.handlers /\ thread[s].call.row \in Rows
         /\ thread[s].step # "idle"
  <1>1. s \in ThreadNames /\ s # "load"
    BY DEF ThreadNames, Slots
  <1>2. thread[s].call \in Closures(s) /\ thread[s].step # "idle"
    BY <1>1 DEF Typed, ThreadsOK, GoodThread
  <1>3. thread[s].call.act \in DOMAIN screen.handlers /\ thread[s].call.row \in Rows
    BY <1>1, <1>2 DEF Closures
  <1> QED
    BY <1>2, <1>3, ScreenFacts DEF HandlerIn, Typed

\* A handler goes on with its call, or gives its own lock back.
LEMMA StepLocks ==
  ASSUME Typed, LockInv, name' = name, excuse \subseteq excuse', NEW s,
         \A t \in Slots \ {s} : thread'[t] = thread[t],
         \/ /\ busy' = busy
            /\ s \in Slots /\ Holding(s)' => Holding(s) /\ thread'[s].call = thread[s].call
         \/ /\ s \in Slots /\ ~Holding(s)'
            /\ busy' = busy \ Holds(HandlerIn(s).lock)
            /\ Holding(s) \/ HandlerIn(s).lock = NoLock
  PROVE  LockInv'
  <1> SUFFICES ASSUME "taken" \notin excuse', NEW t \in Slots, Holding(t)'
               PROVE  /\ <<HandlerIn(t).lock.slot, thread[t].call.key>>' \in busy'
                      /\ \A u \in Slots \ {t} : Holding(u)' => HandlerIn(t)'.lock.slot # HandlerIn(u)'.lock.slot
    BY DEF LockInv
  <1>1. \A h : HandlerOf(h)' = HandlerOf(h)
    BY DEF HandlerOf, screen
  <1>2. ASSUME NEW u \in Slots, Holding(u)'
        PROVE  Holding(u) /\ HandlerIn(u)' = HandlerIn(u) /\ thread'[u].call = thread[u].call
    <2>1. CASE u # s
      BY <1>1, <1>2, <2>1 DEF Holding, HandlerIn
    <2>2. CASE u = s
      BY <1>1, <1>2, <2>2 DEF HandlerIn
    <2> QED
      BY <2>1, <2>2
  <1>3. /\ <<HandlerIn(t).lock.slot, thread[t].call.key>> \in busy
        /\ \A u \in Slots \ {t} : Holding(u) => HandlerIn(t).lock.slot # HandlerIn(u).lock.slot
    BY <1>2 DEF LockInv
  <1>4. <<HandlerIn(t).lock.slot, thread[t].call.key>> \in busy'
    <2>1. CASE busy' = busy
      BY <1>3, <2>1
    <2>2. CASE s \in Slots /\ ~Holding(s)' /\ busy' = busy \ Holds(HandlerIn(s).lock)
               /\ (Holding(s) \/ HandlerIn(s).lock = NoLock)
      <3>1. t # s
        BY <2>2
      <3>2. HandlerIn(t).lock.slot # HandlerIn(s).lock.slot
        <4>1. CASE Holding(s)
          BY <1>3, <2>2, <3>1, <4>1
        <4>2. CASE HandlerIn(s).lock = NoLock
          <5>1. Holding(t)
            BY <1>2
          <5>2. thread[t] # Idle
            BY <5>1 DEF Holding, Idle
          <5> QED
            BY <4>2, <5>1, <5>2, CallHandled, LockFacts DEF Holding
        <4> QED
          BY <2>2, <4>1, <4>2
      <3> QED
        BY <1>3, <2>2, <3>2 DEF Holds
    <2> QED
      BY <2>1, <2>2
  <1> QED
    BY <1>2, <1>3, <1>4

\* The handlers and the backend keep the invariant.
LEMMA ThreadLocks ==
  ASSUME Typed, LockInv, NEW s \in DOMAIN thread, ThreadStep(s)
  PROVE  LockInv'
  <1>0. /\ \A t \in Slots : t \in DOMAIN thread /\ t # "load"
        /\ s # "load" => s \in Slots
        /\ thread[s] # Idle
    <2>1. thread[s].step # "idle"
      BY DEF ThreadStep, Execute, Failed, Succeeded, ReadList, ShowList, ReadFailed
    <2> QED
      BY <2>1 DEF Typed, ThreadsOK, ThreadNames, Slots, Idle
  <1>1. /\ name' = name /\ excuse \subseteq excuse'
        /\ \A t \in Slots \ {s} : thread'[t] = thread[t]
    BY <1>0 DEF ThreadStep, Execute, Failed, Succeeded, ReadList, ShowList, ReadFailed, EndRead
  <1>2. \A h : HandlerOf(h)' = HandlerOf(h)
    BY <1>1 DEF HandlerOf, screen
  <1>3. CASE s = "load"
    <2>1. busy' = busy
      BY <1>3 DEF ThreadStep, ReadList, ShowList, ReadFailed, EndRead
    <2> QED
      BY <1>0, <1>1, <1>3, <2>1, StepLocks
  <1>4. ASSUME s # "load", NEW v, v.call = thread[s].call, thread'[s] = v, busy' = busy,
               Holding(s)' => Holding(s)
        PROVE  LockInv'
    BY <1>0, <1>1, <1>4, StepLocks
  <1>5. CASE s # "load" /\ Execute(s)
    <2> PICK e : thread' = [thread EXCEPT ![s] = [step |-> e[1], call |-> thread[s].call, now |-> e[2]]]
      BY <1>5 DEF Execute
    <2>1. /\ thread'[s].call = thread[s].call /\ busy' = busy /\ thread[s].step = "sent"
      BY <1>5 DEF Execute
    <2>2. Holding(s)' => Holding(s)
      BY <1>2, <2>1 DEF Holding, HandlerIn
    <2> QED
      BY <1>4, <1>5, <2>1, <2>2
  <1>6. CASE s # "load" /\ Failed(s)
    <2>1. thread'[s] = Idle /\ busy' = busy \ Holds(HandlerIn(s).lock)
          /\ thread[s].step \in {"sent", "ok", "error"}
      BY <1>6 DEF Failed, Release, HandlerIn
    <2>2. ~Holding(s)' /\ (Holding(s) \/ HandlerIn(s).lock = NoLock)
      BY <2>1 DEF Holding, Idle
    <2> QED
      BY <1>0, <1>1, <1>6, <2>1, <2>2, StepLocks
  <1>7. CASE s # "load" /\ Succeeded(s)
    <2>1. /\ thread[s].step = "ok" /\ thread'[s] = Refreshed(thread[s].call, thread[s].now)
          /\ busy' = IF HandlerIn(s).after = "await" THEN busy ELSE busy \ Holds(HandlerIn(s).lock)
      BY <1>7 DEF Succeeded, Release, HandlerIn
    <2>2. Holding(s) \/ HandlerIn(s).lock = NoLock
      BY <2>1 DEF Holding
    <2>3. CASE HandlerIn(s).after = "await"
      <3>1. thread'[s] = [step |-> "asked", call |-> thread[s].call] /\ busy' = busy
        BY <2>1, <2>3 DEF Refreshed, HandlerIn
      <3>2. Holding(s)' => Holding(s)
        BY <1>2, <2>2, <3>1 DEF Holding, HandlerIn
      <3> QED
        BY <1>4, <1>7, <3>1, <3>2
    <2>4. CASE HandlerIn(s).after # "await"
      <3>1. thread'[s] = Idle \/ thread'[s] = [step |-> "asked", call |-> thread[s].call]
        BY <2>1 DEF Refreshed
      <3>2. ~Holding(s)'
        BY <1>2, <2>4, <3>1 DEF Holding, HandlerIn, Idle
      <3> QED
        BY <1>0, <1>1, <1>7, <2>1, <2>2, <2>4, <3>2, StepLocks
    <2> QED
      BY <2>3, <2>4
  <1>8. CASE s # "load" /\ ReadList(s)
    <2>1. /\ thread[s].step = "asked" /\ busy' = busy /\ thread'[s].step = "read"
          /\ thread'[s].call = thread[s].call
      BY <1>8 DEF ReadList
    <2>2. Holding(s)' => Holding(s)
      BY <1>2, <2>1 DEF Holding, HandlerIn
    <2> QED
      BY <1>4, <1>8, <2>1, <2>2
  <1>9. CASE s # "load" /\ (ShowList(s) \/ ReadFailed(s))
    <2>1. /\ thread[s].step \in {"asked", "read"} /\ thread'[s] = Idle
          /\ busy' = IF HandlerIn(s).after = "await" THEN busy \ Holds(HandlerIn(s).lock) ELSE busy
      BY <1>9 DEF ShowList, ReadFailed, EndRead, Release, HandlerIn
    <2>2. ~Holding(s)'
      BY <2>1 DEF Holding, Idle
    <2>3. HandlerIn(s).after = "await" => Holding(s) \/ HandlerIn(s).lock = NoLock
      BY <2>1 DEF Holding
    <2> QED
      BY <1>0, <1>1, <1>9, <2>1, <2>2, <2>3, StepLocks
  <1> QED
    BY <1>3, <1>5, <1>6, <1>7, <1>8, <1>9 DEF ThreadStep

\* No step breaks it.
LEMMA LocksInvariant ==
  ASSUME Typed, LockInv, [ConsoleNext]_consoleVars
  PROVE  LockInv'
  <1>1. ASSUME UNCHANGED <<name, busy>>, excuse \subseteq excuse', \A s \in Slots : thread'[s] = thread[s]
        PROVE  LockInv'
    BY <1>1, StepLocks DEF Holding, HandlerIn, HandlerOf, screen
  <1>2. CASE UNCHANGED consoleVars \/ Cancel \/ \E r \in Rows : Outside(r)
    BY <1>1, <1>2 DEF consoleVars, Cancel, Outside
  <1>3. CASE ChangeTab
    <2>1. excuse \subseteq excuse' /\ UNCHANGED <<name, busy>>
      BY <1>3 DEF ChangeTab
    <2>2. \A s \in Slots : thread'[s] = thread[s]
      BY <1>3 DEF ChangeTab, Typed, ThreadsOK, ThreadNames, Slots
    <2> QED
      BY <1>1, <2>1, <2>2
  <1>4. ASSUME NEW r \in Rows, NEW s \in Slots, NEW act \in Acts(shown[r]), Click(act, r, s)
        PROVE  LockInv'
    <2>1. act \in DOMAIN screen.handlers
      BY ActsHandled
    <2>2. CASE act \in screen.dialogs
      BY <1>1, <1>4, <2>2 DEF Click
    <2>3. CASE act \notin screen.dialogs
      BY <1>4, <2>1, <2>3, SendLocks DEF Click
    <2> QED
      BY <2>2, <2>3
  <1>5. ASSUME NEW s \in Slots, Confirm(s)
        PROVE  LockInv'
    <2>1. dialog[1] \in screen.dialogs /\ dialog[2] \in Rows
      BY <1>5 DEF Confirm, Typed
    <2>2. dialog[1] \in DOMAIN screen.handlers
      BY <2>1, ScreenFacts DEF Typed, IsScreen
    <2> QED
      BY <1>5, <2>1, <2>2, SendLocks DEF Confirm
  <1> QED
    BY <1>2, <1>3, <1>4, <1>5, ThreadLocks DEF ConsoleNext

-----------------------------------------------------------------------------
(* Locks and their holders.  LocksAreReleased is a liveness property; what     *)
(* makes it so is that a lock that is taken is held by a handler under way,    *)
(* taken over or not: the one that will give it back.                          *)

LocksHeld == \A b \in busy : \E s \in Slots : Holding(s) /\ HandlerIn(s).lock.slot = b[1]

\* A call that is sent holds the lock it takes, and drops those of nobody else.
LEMMA SendHolds ==
  ASSUME Typed, LocksHeld, name' = name,
         NEW act \in DOMAIN screen.handlers, NEW r \in Rows, NEW s \in Slots, Send(act, r, s)
  PROVE  LocksHeld'
  <1> DEFINE lock == HandlerOf(act).lock
  <1>1. ~Running(s) /\ Take(act, r)
    BY DEF Send
  <1>2. thread'[s].step = "sent" /\ thread'[s].call.act = act /\ \A t \in Slots : t # s => thread'[t] = thread[t]
    BY DEF Send, Typed, ThreadsOK, ThreadNames
  <1>3. \A h : HandlerOf(h)' = HandlerOf(h)
    BY DEF HandlerOf, screen
  <1>4. ~Holding(s) /\ \A t \in Slots : Holding(t) => Holding(t)' /\ HandlerIn(t)' = HandlerIn(t)
    <2>1. ~Holding(s)
      BY <1>1 DEF Running, Holding
    <2> QED
      BY <1>2, <1>3, <2>1 DEF Holding, HandlerIn
  <1>5. HandlerIn(s)' = HandlerOf(act) /\ (lock # NoLock => Holding(s)')
    BY <1>2, <1>3 DEF HandlerIn, Holding
  <1> SUFFICES ASSUME NEW b \in busy'
               PROVE  \E t \in Slots : Holding(t)' /\ HandlerIn(t)'.lock.slot = b[1]
    BY DEF LocksHeld
  <1>6. CASE b \in busy
    <2>1. PICK t \in Slots : Holding(t) /\ HandlerIn(t).lock.slot = b[1]
      BY <1>6 DEF LocksHeld
    <2> QED
      BY <1>4, <2>1
  <1>7. CASE b \notin busy
    <2>1. lock # NoLock /\ b[1] = lock.slot
      BY <1>1, <1>7 DEF Take
    <2> QED
      BY <1>5, <2>1
  <1> QED
    BY <1>6, <1>7

\* A thread that goes on keeps its lock, or ends and gives back that one only.
LEMMA StepHolds ==
  ASSUME LocksHeld, name' = name, NEW s, \A t \in Slots \ {s} : thread'[t] = thread[t],
         \/ busy' = busy /\ (s \in Slots /\ Holding(s) => Holding(s)' /\ thread'[s].call = thread[s].call)
         \/ busy' = busy \ Holds(HandlerIn(s).lock)
  PROVE  LocksHeld'
  <1>1. \A h : HandlerOf(h)' = HandlerOf(h)
    BY DEF HandlerOf, screen
  <1> SUFFICES ASSUME NEW b \in busy'
               PROVE  \E t \in Slots : Holding(t)' /\ HandlerIn(t)'.lock.slot = b[1]
    BY DEF LocksHeld
  <1>2. PICK t \in Slots : Holding(t) /\ HandlerIn(t).lock.slot = b[1]
    BY DEF LocksHeld
  <1>3. CASE t # s
    <2>1. Holding(t)' /\ HandlerIn(t)' = HandlerIn(t)
      BY <1>1, <1>2, <1>3 DEF Holding, HandlerIn
    <2> QED
      BY <1>2, <2>1
  <1>4. CASE t = s /\ busy' = busy /\ Holding(s)' /\ thread'[s].call = thread[s].call
    <2>1. HandlerIn(t)' = HandlerIn(t)
      BY <1>1, <1>4 DEF HandlerIn
    <2> QED
      BY <1>2, <1>4, <2>1
  <1>5. CASE t = s /\ busy' = busy \ Holds(HandlerIn(s).lock)
    BY <1>2, <1>5 DEF Holds
  <1> QED
    BY <1>2, <1>3, <1>4, <1>5

\* The handlers and the backend.
LEMMA ThreadHolds ==
  ASSUME Typed, LocksHeld, NEW s \in DOMAIN thread, ThreadStep(s)
  PROVE  LocksHeld'
  <1>1. /\ \A t \in Slots : t \in DOMAIN thread /\ t # "load"
        /\ s # "load" => s \in Slots
    BY DEF Typed, ThreadsOK, ThreadNames, Slots
  <1>2. name' = name /\ \A t \in Slots \ {s} : thread'[t] = thread[t]
    BY <1>1 DEF ThreadStep, Execute, Failed, Succeeded, ReadList, ShowList, ReadFailed, EndRead
  <1>3. \A h : HandlerOf(h)' = HandlerOf(h)
    BY <1>2 DEF HandlerOf, screen
  <1>4. CASE s = "load"
    <2>1. busy' = busy
      BY <1>4 DEF ThreadStep, ReadList, ShowList, ReadFailed, EndRead
    <2> QED
      BY <1>1, <1>2, <1>4, <2>1, StepHolds
  <1>5. ASSUME busy' = busy, thread'[s].call = thread[s].call, Holding(s) => Holding(s)'
        PROVE  LocksHeld'
    BY <1>2, <1>5, StepHolds
  <1>6. CASE s # "load" /\ Execute(s)
    <2>1. PICK e \in IF EffectsOf(thread[s].call.act, db[thread[s].call.row]) = {}
                     THEN Error(db[thread[s].call.row])
                     ELSE EffectsOf(thread[s].call.act, db[thread[s].call.row]) :
            thread' = [thread EXCEPT ![s] = [step |-> e[1], call |-> thread[s].call, now |-> e[2]]]
      BY <1>6 DEF Execute
    <2>2. thread[s].call.row \in Rows
      BY <1>1, <1>6, CallHandled DEF Execute, Idle
    <2>3. e[1] \in {"ok", "error"}
      BY <2>1, <2>2, EffectsTyped DEF Error, Typed
    <2>4. /\ busy' = busy /\ thread'[s].call = thread[s].call /\ thread'[s].step \in {"ok", "error"}
          /\ thread[s].step = "sent"
      BY <1>6, <2>1, <2>3 DEF Execute
    <2>5. Holding(s) => Holding(s)'
      BY <1>3, <2>4 DEF Holding, HandlerIn
    <2> QED
      BY <1>5, <2>4, <2>5
  <1>7. CASE s # "load" /\ Failed(s)
    BY <1>2, <1>7, StepHolds DEF Failed, Release, HandlerIn
  <1>8. CASE s # "load" /\ Succeeded(s)
    <2>1. /\ thread[s].step = "ok" /\ thread'[s] = Refreshed(thread[s].call, thread[s].now)
          /\ busy' = IF HandlerIn(s).after = "await" THEN busy ELSE busy \ Holds(HandlerIn(s).lock)
      BY <1>8 DEF Succeeded, Release, HandlerIn
    <2>2. CASE HandlerIn(s).after = "await"
      <3>1. thread'[s] = [step |-> "asked", call |-> thread[s].call] /\ busy' = busy
        BY <2>1, <2>2 DEF Refreshed, HandlerIn
      <3>2. Holding(s) => Holding(s)'
        BY <1>3, <2>2, <3>1 DEF Holding, HandlerIn
      <3> QED
        BY <1>5, <3>1, <3>2
    <2>3. CASE HandlerIn(s).after # "await"
      BY <1>2, <2>1, <2>3, StepHolds
    <2> QED
      BY <2>2, <2>3
  <1>9. CASE s # "load" /\ ReadList(s)
    <2>1. /\ thread[s].step = "asked" /\ busy' = busy /\ thread'[s].step = "read"
          /\ thread'[s].call = thread[s].call
      BY <1>9 DEF ReadList
    <2>2. Holding(s) => Holding(s)'
      BY <1>3, <2>1 DEF Holding, HandlerIn
    <2> QED
      BY <1>5, <2>1, <2>2
  <1>10. CASE s # "load" /\ (ShowList(s) \/ ReadFailed(s))
    <2>1. /\ thread[s].step \in {"asked", "read"}
          /\ busy' = IF HandlerIn(s).after = "await" THEN busy \ Holds(HandlerIn(s).lock) ELSE busy
      BY <1>10 DEF ShowList, ReadFailed, EndRead, Release, HandlerIn
    <2>2. HandlerIn(s).after # "await" => ~Holding(s)
      BY <2>1 DEF Holding
    <2> QED
      BY <1>2, <2>1, <2>2, StepHolds
  <1> QED
    BY <1>4, <1>6, <1>7, <1>8, <1>9, <1>10 DEF ThreadStep

\* No step leaves a lock without a holder.
LEMMA HoldersInvariant ==
  ASSUME Typed, LocksHeld, [ConsoleNext]_consoleVars
  PROVE  LocksHeld'
  <1>1. ASSUME UNCHANGED <<name, busy>>, \A s \in Slots : thread'[s] = thread[s]
        PROVE  LocksHeld'
    BY <1>1 DEF LocksHeld, Holding, HandlerIn, HandlerOf, screen
  <1>2. CASE UNCHANGED consoleVars \/ Cancel \/ \E r \in Rows : Outside(r)
    BY <1>1, <1>2 DEF consoleVars, Cancel, Outside
  <1>3. CASE ChangeTab
    <2>1. \A s \in Slots : thread'[s] = thread[s]
      BY <1>3 DEF ChangeTab, Typed, ThreadsOK, ThreadNames, Slots
    <2> QED
      BY <1>1, <1>3, <2>1 DEF ChangeTab
  <1>4. ASSUME NEW r \in Rows, NEW s \in Slots, NEW act \in Acts(shown[r]), Click(act, r, s)
        PROVE  LocksHeld'
    <2>1. act \in DOMAIN screen.handlers
      BY ActsHandled
    <2>2. CASE act \in screen.dialogs
      BY <1>1, <1>4, <2>2 DEF Click
    <2>3. CASE act \notin screen.dialogs
      BY <1>4, <2>1, <2>3, SendHolds DEF Click
    <2> QED
      BY <2>2, <2>3
  <1>5. ASSUME NEW s \in Slots, Confirm(s)
        PROVE  LocksHeld'
    <2>1. dialog[1] \in screen.dialogs /\ dialog[2] \in Rows
      BY <1>5 DEF Confirm, Typed
    <2>2. dialog[1] \in DOMAIN screen.handlers
      BY <2>1, ScreenFacts DEF Typed, IsScreen
    <2> QED
      BY <1>5, <2>1, <2>2, SendHolds DEF Confirm
  <1> QED
    BY <1>2, <1>3, <1>4, <1>5, ThreadHolds DEF ConsoleNext

-----------------------------------------------------------------------------
(* What the page shows *)

\* What one thread knows, when nothing happened but what it did.
Knows(s) ==
    LET v == thread[s] IN
    /\ v.step # "idle" => Asked(v.call.tab) = Asked(tab)
    /\ v.step \in {"sent", "error"} => shown = Listed
    /\ v.step = "sent" =>
         \/ v.call.act \in screen.dialogs
         \/ /\ v.call.act \in Acts(db[v.call.row])
            /\ Through(screen, Asked(tab), db[v.call.row]) = db[v.call.row]
    /\ v.step = "ok" =>
         LET after == HandlerOf(v.call.act).after IN
         after \notin {"await", "reload"} =>
           [shown EXCEPT ![v.call.row] = RowAfter(after, @, v.now)] = Listed
    /\ v.step = "read" => v.list = Listed

\* One thread at most runs, and the page shows what it makes of the backend's rows.
FreshInv ==
    excuse = {} =>
      /\ \A s, t \in ThreadNames : Running(s) /\ Running(t) => s = t
      /\ Quiet => shown = Listed
      /\ \A s \in ThreadNames : Knows(s)

\* A page that was just opened shows what the backend lists.
LEMMA FreshInit == ConsoleInit => FreshInv
  <1> SUFFICES ASSUME ConsoleInit PROVE FreshInv
    OBVIOUS
  <1>1. \A s \in ThreadNames : thread[s] = Idle
    BY DEF ConsoleInit, ThreadNames
  <1>2. \A s \in ThreadNames : thread[s].step = "idle"
    BY <1>1 DEF Idle
  <1> QED
    BY <1>2 DEF FreshInv, Running, Knows, ConsoleInit

\* The filter the backend is asked for is one of those it knows.
LEMMA AskedTab ==
  ASSUME Typed
  PROVE  Asked(tab) \in IF screen.asks THEN DOMAIN screen.tabs ELSE {"all"}
  BY DEF Asked, Typed

\* The list depends on the backend's rows and on the filter asked for.
LEMMA SameListing ==
  ASSUME name' = name, db' = db, Asked(tab)' = Asked(tab)
  PROVE  Listed' = Listed /\ \A t : Listing(t)' = Listing(t)
  BY DEF Listed, Listing, screen

\* A call is sent on a page that knows its rows.
LEMMA SendFresh ==
  ASSUME Typed, FreshInv, UNCHANGED <<name, db, shown, tab>>,
         NEW act \in DOMAIN screen.handlers, NEW r \in Rows, NEW s \in Slots, Send(act, r, s),
         act \in screen.dialogs \/ act \in Acts(shown[r])
  PROVE  FreshInv'
  <1> SUFFICES ASSUME excuse' = {} PROVE FreshInv'
    BY DEF FreshInv
  <1> DEFINE v == [step |-> "sent", call |-> [act |-> act, row |-> r, key |-> Key(r), tab |-> tab]]
  <1>1. excuse = {} /\ Quiet
    BY DEF Send
  <1>2. DOMAIN thread = ThreadNames /\ s \in ThreadNames
    BY DEF Typed, ThreadsOK, ThreadNames
  <1>3. thread'[s] = v /\ \A t \in ThreadNames \ {s} : thread'[t] = thread[t] /\ thread[t].step = "idle"
    BY <1>1, <1>2 DEF Send, Quiet, Running
  <1>4. shown = Listed /\ shown' = Listed'
    BY <1>1, SameListing DEF FreshInv, Asked, screen
  <1>5. \A t \in ThreadNames \ {s} : Knows(t)'
    BY <1>3 DEF Knows
  <1>6. Knows(s)'
    <2>1. v.step = "sent" /\ v.call.tab = tab /\ v.call.act = act /\ v.call.row = r
      OBVIOUS
    <2>2. act \in screen.dialogs \/ (act \in Acts(db[r]) /\ Through(screen, Asked(tab), db[r]) = db[r])
      <3> SUFFICES ASSUME act \in Acts(shown[r])
                   PROVE  act \in Acts(db[r]) /\ Through(screen, Asked(tab), db[r]) = db[r]
        OBVIOUS
      <3>1. shown[r] = Through(screen, Asked(tab), db[r])
        BY <1>4 DEF Listed, Listing
      <3>2. shown[r] # Gone
        BY ScreenFacts DEF Typed, IsScreen, Acts
      <3> QED
        BY <3>1, <3>2 DEF Through
    <2> QED
      BY <1>3, <1>4, <2>1, <2>2 DEF Knows, Acts, Asked, screen
  <1>7. \A t, u \in ThreadNames : Running(t)' /\ Running(u)' => t = u
    BY <1>3 DEF Running
  <1>8. ~Quiet'
    BY <1>2, <1>3 DEF Quiet, Running, Send
  <1> QED
    BY <1>5, <1>6, <1>7, <1>8 DEF FreshInv

\* A thread that is alone goes on or ends.
LEMMA AloneFresh ==
  ASSUME Typed, FreshInv, excuse \subseteq excuse', NEW s \in ThreadNames, thread[s].step # "idle",
         NEW v, thread' = [thread EXCEPT ![s] = v],
         excuse' = {} => Knows(s)' /\ (v.step = "idle" => shown' = Listed')
  PROVE  FreshInv'
  <1> SUFFICES ASSUME excuse' = {} PROVE FreshInv'
    BY DEF FreshInv
  <1>1. excuse = {} /\ DOMAIN thread = ThreadNames
    BY DEF Typed, ThreadsOK
  <1>2. \A t \in ThreadNames \ {s} : thread'[t] = thread[t] /\ thread[t].step = "idle"
    BY <1>1 DEF FreshInv, Running
  <1>3. \A t \in ThreadNames \ {s} : Knows(t)'
    BY <1>2 DEF Knows
  <1>4. \A t, u \in ThreadNames : Running(t)' /\ Running(u)' => t = u
    BY <1>2 DEF Running
  <1>5. Quiet' => thread'[s].step = "idle"
    BY <1>1 DEF Quiet, Running
  <1>6. thread'[s] = v
    BY <1>1
  <1> QED
    BY <1>3, <1>4, <1>5, <1>6 DEF FreshInv

\* The backend does what the handler expects of it.
LEMMA ExecuteFresh ==
  ASSUME Typed, FreshInv, NEW s \in Slots, Execute(s)
  PROVE  FreshInv'
  <1> DEFINE call == thread[s].call
             r == call.row
             effects == EffectsOf(call.act, db[r])
             after == HandlerOf(call.act).after
  <1>0. s \in ThreadNames /\ thread[s].step = "sent" /\ r \in Rows
        /\ call.act \in DOMAIN screen.handlers /\ HandlerOf(call.act) \in Handlers
    BY CallHandled DEF Execute, ThreadNames, Idle, HandlerIn
  <1> PICK e \in IF effects = {} THEN Error(db[r]) ELSE effects :
        /\ thread' = [thread EXCEPT ![s] = [step |-> e[1], call |-> call, now |-> e[2]]]
        /\ db' = [db EXCEPT ![r] = e[2]]
        /\ excuse' = IF e[1] = "error" /\ e[2] # db[r] THEN excuse \cup {"spoiled"} ELSE excuse
    BY DEF Execute
  <1> DEFINE v == [step |-> e[1], call |-> call, now |-> e[2]]
  <1>1. e[1] \in {"ok", "error"} /\ (effects = {} => e[1] = "error" /\ e[2] = db[r])
    <2>1. CASE effects = {}
      BY <1>0, <2>1 DEF Error, Typed
    <2>2. CASE effects # {}
      BY <1>0, <2>2, EffectsTyped DEF Typed
    <2> QED
      BY <2>1, <2>2
  <1>2. UNCHANGED <<name, shown, tab>> /\ screen' = screen /\ excuse \subseteq excuse'
    BY DEF Execute, screen
  <1>3. thread'[s] = v /\ v.step = e[1] /\ v.call = call /\ v.now = e[2]
    BY <1>0 DEF Typed, ThreadsOK
  <1> SUFFICES ASSUME excuse' = {} PROVE Knows(s)'
    BY <1>0, <1>1, <1>2, <1>3, AloneFresh
  <1>4. excuse = {} /\ Knows(s)
    BY <1>0, <1>2 DEF FreshInv
  <1>5. Asked(call.tab)' = Asked(tab)' /\ shown = Listed
    BY <1>0, <1>2, <1>4 DEF Knows, Asked
  <1>6. CASE e[1] = "error"
    <2>1. e[2] = db[r]
      BY <1>4, <1>6
    <2>2. db' = db
      BY <1>0, <2>1 DEF Typed
    <2>3. shown' = Listed'
      BY <1>2, <1>5, <2>2, SameListing DEF Asked
    <2> QED
      BY <1>3, <1>5, <1>6, <2>3 DEF Knows
  <1>7. CASE e[1] = "ok"
    <2>1. e \in effects
      BY <1>1, <1>7
    <2>2. ASSUME after \notin {"await", "reload"}
          PROVE  RowAfter(after, Through(screen, Asked(tab), db[r]), e[2]) = Through(screen, Asked(tab), e[2])
      <3>1. call.act \in DOMAIN screen.effects[db[r]] /\ e \in screen.effects[db[r]][call.act]
        BY <1>0, <2>1, EffectsTyped DEF Typed
      <3>2. \/ call.act \in screen.dialogs
            \/ call.act \in screen.offers[db[r]] /\ Through(screen, Asked(tab), db[r]) = db[r]
        BY <1>0, <1>4 DEF Knows, Acts
      <3>3. db[r] \in DOMAIN screen.offers /\ KeepsUp(screen)
        BY <1>0, ScreenFacts DEF Typed, PageRows
      <3> QED
        BY <1>0, <1>7, <2>2, <3>1, <3>2, <3>3, AskedTab DEF KeepsUp, HandlerOf
    <2>3. ASSUME after \notin {"await", "reload"}
          PROVE  [shown EXCEPT ![r] = RowAfter(after, @, e[2])] = Listed'
      <3>1. \A q \in Rows : Listed'[q] = Through(screen, Asked(tab), db'[q])
        BY <1>2 DEF Listed, Listing, Asked
      <3>2. \A q \in Rows : shown[q] = Through(screen, Asked(tab), db[q])
        BY <1>5 DEF Listed, Listing
      <3>3. db'[r] = e[2] /\ \A q \in Rows \ {r} : db'[q] = db[q]
        BY <1>0 DEF Typed
      <3>4. Listed' = [q \in Rows |-> Listed'[q]] /\ DOMAIN shown = Rows
        BY DEF Listed, Listing, Typed
      <3> DEFINE after1 == [shown EXCEPT ![r] = RowAfter(after, shown[r], e[2])]
      <3>5. \A q \in Rows : after1[q] = Listed'[q]
        BY <1>0, <2>2, <3>1, <3>2, <3>3, <3>4, <2>3
      <3>6. after1 = Listed'
        BY <3>4, <3>5 DEF Typed
      <3> QED
        BY <3>6
    <2>4. HandlerOf(call.act)' = HandlerOf(call.act)
      BY <1>2 DEF HandlerOf
    <2> QED
      BY <1>2, <1>3, <1>5, <1>7, <2>3, <2>4 DEF Knows
  <1> QED
    BY <1>1, <1>6, <1>7

\* What an answer or a read of the list leaves on the page.
LEMMA AnswerFresh ==
  ASSUME Typed, FreshInv,
         \/ \E s \in Slots : Failed(s) \/ Succeeded(s)
         \/ \E s \in DOMAIN thread : ReadList(s) \/ ShowList(s) \/ ReadFailed(s)
  PROVE  FreshInv'
  <1>0. DOMAIN thread = ThreadNames /\ Slots \subseteq ThreadNames
    BY DEF Typed, ThreadsOK, ThreadNames
  <1>1. \A t \in ThreadNames : excuse = {} => Knows(t)
    BY DEF FreshInv
  <1>2. ASSUME UNCHANGED <<name, db, tab>>
        PROVE  /\ screen' = screen /\ Listed' = Listed
               /\ \A t : Asked(t)' = Asked(t) /\ Listing(t)' = Listing(t)
               /\ Asked(tab)' = Asked(tab)
    BY <1>2 DEF screen, Asked, Listed, Listing
  <1>3. ASSUME NEW s \in Slots, Failed(s)
        PROVE  FreshInv'
    <2>1. /\ thread' = [thread EXCEPT ![s] = Idle] /\ UNCHANGED <<name, db, tab, shown>>
          /\ excuse \subseteq excuse' /\ thread[s].step \in {"sent", "ok", "error"}
          /\ excuse' = {} => thread[s].step # "ok"
      BY <1>3 DEF Failed
    <2>2. excuse' = {} => shown' = Listed'
      BY <1>0, <1>1, <1>2, <2>1 DEF Knows
    <2>3. Knows(s)'
      BY <1>0, <2>1 DEF Knows, Idle
    <2> QED
      BY <1>0, <2>1, <2>2, <2>3, AloneFresh
  <1>4. ASSUME NEW s \in Slots, Succeeded(s)
        PROVE  FreshInv'
    <2> DEFINE call == thread[s].call
               after == HandlerOf(call.act).after
    <2>1. /\ thread' = [thread EXCEPT ![s] = Refreshed(call, thread[s].now)]
          /\ UNCHANGED <<name, db, tab, excuse>> /\ thread[s].step = "ok"
          /\ shown' = [shown EXCEPT ![call.row] = RowAfter(after, @, thread[s].now)]
      BY <1>4 DEF Succeeded
    <2>2. CASE after \in {"await", "reload"}
      <3>1. thread'[s] = [step |-> "asked", call |-> call]
        BY <1>0, <2>1, <2>2 DEF Refreshed
      <3>2. excuse' = {} => Knows(s)'
        BY <1>0, <1>1, <1>2, <2>1, <3>1 DEF Knows
      <3>3. Refreshed(call, thread[s].now).step # "idle"
        BY <2>2 DEF Refreshed
      <3> QED
        BY <1>0, <2>1, <3>2, <3>3, AloneFresh
    <2>3. CASE after \notin {"await", "reload"}
      <3>1. thread'[s] = Idle
        BY <1>0, <2>1, <2>3 DEF Refreshed
      <3>2. excuse' = {} => shown' = Listed'
        BY <1>0, <1>1, <1>2, <2>1, <2>3 DEF Knows
      <3>3. Knows(s)'
        BY <3>1 DEF Knows, Idle
      <3> QED
        BY <1>0, <2>1, <3>2, <3>3, AloneFresh
    <2> QED
      BY <2>2, <2>3
  <1>5. ASSUME NEW s \in ThreadNames, ReadList(s)
        PROVE  FreshInv'
    <2> DEFINE v == [step |-> "read", call |-> thread[s].call,
                     list |-> Listing(Asked(thread[s].call.tab))]
    <2>1. /\ thread' = [thread EXCEPT ![s] = v] /\ thread[s].step = "asked"
          /\ UNCHANGED <<name, db, tab, shown, excuse>>
      BY <1>5 DEF ReadList
    <2>2. thread'[s] = v /\ v.step = "read" /\ v.call = thread[s].call
          /\ v.list = Listing(Asked(thread[s].call.tab))
      BY <1>0, <2>1
    <2>3. excuse' = {} => v.list = Listed'
      BY <1>1, <1>2, <2>1 DEF Knows, Listed
    <2>4. excuse' = {} => Knows(s)'
      BY <1>1, <1>2, <2>1, <2>2, <2>3 DEF Knows
    <2> QED
      BY <2>1, <2>2, <2>4, AloneFresh
  <1>6. ASSUME NEW s \in ThreadNames, ShowList(s) \/ ReadFailed(s)
        PROVE  FreshInv'
    <2>1. /\ thread' = [thread EXCEPT ![s] = Idle] /\ UNCHANGED <<name, db, tab>>
          /\ excuse \subseteq excuse' /\ thread[s].step \in {"asked", "read"}
      BY <1>6 DEF ShowList, ReadFailed, EndRead
    <2>2. excuse' = {} => shown' = Listed'
      <3>1. CASE ShowList(s)
        BY <1>1, <1>2, <2>1, <3>1 DEF ShowList, Knows
      <3>2. CASE ReadFailed(s)
        BY <3>2 DEF ReadFailed
      <3> QED
        BY <1>6, <3>1, <3>2
    <2>3. Knows(s)'
      BY <1>0, <2>1 DEF Knows, Idle
    <2> QED
      BY <2>1, <2>2, <2>3, AloneFresh
  <1> QED
    BY <1>0, <1>3, <1>4, <1>5, <1>6

\* Another filter is chosen: the list is loaded again, or was whole.
LEMMA TabFresh ==
  ASSUME Typed, FreshInv, ChangeTab
  PROVE  FreshInv'
  <1> SUFFICES ASSUME excuse' = {} PROVE FreshInv'
    BY DEF FreshInv
  <1> PICK t \in DOMAIN screen.tabs \ {tab} :
        /\ tab' = t /\ UNCHANGED <<name, db, shown, dialog, busy>>
        /\ IF screen.asks
           THEN /\ ~Running("load") /\ decided < Decisions
                /\ decided' = decided + 1
                /\ thread' = [thread EXCEPT !["load"] = [step |-> "asked", call |-> [tab |-> t]]]
                /\ excuse' = IF Quiet THEN excuse ELSE excuse \cup {"crossed"}
           ELSE UNCHANGED <<thread, decided, excuse>>
    BY DEF ChangeTab
  <1>0. DOMAIN thread = ThreadNames /\ "load" \in ThreadNames /\ screen' = screen
    BY DEF Typed, ThreadsOK, ThreadNames, screen
  <1>1. CASE screen.asks
    <2>1. Quiet /\ excuse = {}
      BY <1>1
    <2>2. \A s \in ThreadNames : thread[s].step = "idle"
      BY <1>0, <2>1 DEF Quiet, Running
    <2>3. /\ thread'["load"] = [step |-> "asked", call |-> [tab |-> t]]
          /\ \A s \in ThreadNames \ {"load"} : thread'[s].step = "idle"
          /\ DOMAIN thread' = ThreadNames
      BY <1>0, <1>1, <2>2
    <2>4. \A s \in ThreadNames : Knows(s)'
      BY <1>0, <1>1, <2>3 DEF Knows, Asked
    <2>5. ~Quiet' /\ \A s, u \in ThreadNames : Running(s)' /\ Running(u)' => s = u
      BY <1>0, <2>3 DEF Quiet, Running
    <2> QED
      BY <2>4, <2>5 DEF FreshInv
  <1>2. CASE ~screen.asks
    <2>1. UNCHANGED <<name, db, shown, thread, excuse>>
      BY <1>2
    <2>2. \A u : Asked(u)' = Asked(u) /\ Asked(u) = "all" /\ Listing(u)' = Listing(u)
      BY <1>0, <1>2 DEF Asked, Listing
    <2>3. Listed' = Listed /\ Asked(tab)' = Asked(tab)
      BY <1>0, <1>2, <2>1 DEF Listed, Listing, Asked
    <2>4. \A s \in ThreadNames : Knows(s) => Knows(s)'
      BY <1>0, <2>1, <2>2, <2>3 DEF Knows, Acts, HandlerOf
    <2> QED
      BY <2>1, <2>3, <2>4 DEF FreshInv, Quiet, Running
  <1> QED
    BY <1>1, <1>2

\* No step breaks it.
LEMMA FreshInvariant ==
  ASSUME Typed, FreshInv, [ConsoleNext]_consoleVars
  PROVE  FreshInv'
  <1>1. ASSUME UNCHANGED <<name, db, shown, tab, thread, excuse>>
        PROVE  FreshInv'
    <2>1. /\ screen' = screen /\ Listed' = Listed /\ Asked(tab)' = Asked(tab)
          /\ \A t : Asked(t)' = Asked(t)
      BY <1>1 DEF screen, Asked, Listed, Listing
    <2>2. \A s \in ThreadNames : Knows(s)' <=> Knows(s)
      BY <1>1, <2>1 DEF Knows, Acts, HandlerOf
    <2> QED
      BY <1>1, <2>1, <2>2 DEF FreshInv, Quiet, Running
  <1>2. CASE UNCHANGED consoleVars \/ Cancel
    BY <1>1, <1>2 DEF consoleVars, Cancel
  <1>3. ASSUME NEW r \in Rows, Outside(r)
        PROVE  FreshInv'
    BY <1>3 DEF Outside, FreshInv
  <1>4. ASSUME NEW r \in Rows, NEW s \in Slots, NEW act \in Acts(shown[r]), Click(act, r, s)
        PROVE  FreshInv'
    <2>1. CASE act \in screen.dialogs
      BY <1>1, <1>4, <2>1 DEF Click
    <2>2. CASE act \notin screen.dialogs
      BY <1>4, <2>2, ActsHandled, SendFresh DEF Click
    <2> QED
      BY <2>1, <2>2
  <1>5. ASSUME NEW s \in Slots, Confirm(s)
        PROVE  FreshInv'
    <2>1. dialog[1] \in screen.dialogs /\ dialog[2] \in Rows
      BY <1>5 DEF Confirm, Typed
    <2>2. dialog[1] \in DOMAIN screen.handlers
      BY <2>1, ScreenFacts DEF Typed, IsScreen
    <2> QED
      BY <1>5, <2>1, <2>2, SendFresh DEF Confirm
  <1>6. ASSUME NEW s \in DOMAIN thread, ThreadStep(s)
        PROVE  FreshInv'
    BY <1>6, ExecuteFresh, AnswerFresh DEF ThreadStep, Typed, ThreadsOK, ThreadNames
  <1> QED
    BY <1>2, <1>3, <1>4, <1>5, <1>6, TabFresh DEF ConsoleNext

-----------------------------------------------------------------------------
\* The invariant of a screen.
ConsoleSpec == ConsoleInit /\ [][ConsoleNext]_consoleVars
ConsoleInv  == Typed /\ LockInv /\ FreshInv

\* It holds of every screen whose record is well formed.
LEMMA ConsoleInvariant == ConsoleSpec => []ConsoleInv
  <1>1. ConsoleInit => ConsoleInv
    <2>1. ConsoleInit => LockInv
      BY DEF ConsoleInit, LockInv, Holding, Idle
    <2> QED
      BY <2>1, InitTyped, FreshInit DEF ConsoleInv
  <1>2. ConsoleInv /\ [ConsoleNext]_consoleVars => ConsoleInv'
    BY ConsoleTyped, LocksInvariant, FreshInvariant DEF ConsoleInv
  <1> QED
    BY <1>1, <1>2, PTL DEF ConsoleSpec

\* What the invariant says of the properties.
LEMMA ConsoleInvImplies == ConsoleInv => ConsoleTypeOK /\ OneCallAtATime /\ QuietListIsFresh
  <1> SUFFICES ASSUME ConsoleInv PROVE ConsoleTypeOK /\ OneCallAtATime /\ QuietListIsFresh
    OBVIOUS
  <1>1. ConsoleTypeOK /\ QuietListIsFresh
    BY TypeParts DEF ConsoleInv, FreshInv, QuietListIsFresh
  <1>2. ASSUME thread["first"].step = "sent", thread["second"].step = "sent",
               thread["first"].call.act = thread["second"].call.act,
               "taken" \notin excuse
        PROVE  <<name, thread["first"].call.act>> \in Unlocked
    <2>1. "first" \in Slots /\ "second" \in Slots \ {"first"} /\ thread["first"] # Idle
      BY <1>2 DEF Slots, Idle
    <2>2. HandlerIn("first") = HandlerIn("second")
      BY <1>2 DEF HandlerIn
    <2>3. HandlerIn("first").lock = NoLock
      BY <1>2, <2>1, <2>2 DEF ConsoleInv, LockInv, Holding
    <2>4. thread["first"].call.act \in DOMAIN screen.handlers
      BY <2>1, CallHandled DEF ConsoleInv
    <2> QED
      BY <2>3, <2>4, ScreenFacts DEF HandlerIn, ConsoleInv, Typed
  <1> QED
    BY <1>1, <1>2 DEF OneCallAtATime

-----------------------------------------------------------------------------
(* The forms: the picture picked last, and one publication of a draft *)

FormSpec == FormInit /\ [][FormNext]_formVars

\* A form that is not hasty waits for its one upload, and is not used again.
Calm == form \notin Hasty
\* One that is not repeatable leaves for good, or is refused a second time.
Once == form \notin Repeatable

PostSteps == {"none", "sent", "created", "refused", "cleared"}
Drafts == [draft: Nat, cover: Nat, picked: Nat, warned: BOOLEAN]

Shapes ==
    /\ form \in DOMAIN Forms
    /\ picks \in Nat /\ picked \in Nat /\ key \in Nat /\ uploads \subseteq Nat
    /\ waiting \in BOOLEAN /\ saving \in BOOLEAN /\ warned \in BOOLEAN /\ silent \in BOOLEAN
    /\ draft \in Nat
    /\ published \in Seq(Drafts)
    /\ place \in {"form", "leaving", "left"}
    /\ \/ post = NoPost \/ post = [step |-> "cleared"]
       \/ /\ post \in [step: {"sent", "created", "refused"}, row: Drafts]
          /\ post.row.draft = draft

\* The last picture picked is on its way, or its key is held, or its loss was told.
Pictured ==
    /\ waiting => \A n \in uploads : n = picked
    /\ ~waiting => uploads = {} /\ (key = picked \/ warned)
    /\ post.step = "sent" => post.row.cover = post.row.picked \/ post.row.warned
    /\ \A i \in DOMAIN published : published[i].cover = published[i].picked \/ published[i].warned

Forgotten == \A i \in DOMAIN published : published[i].draft < draft
OnceMade == Forms[form].once /\ published # <<>>

\* The draft in the form is new, or has just been published and cannot be again.
Single ==
    /\ \A i, j \in DOMAIN published : published[i].draft = published[j].draft => i = j
    /\ \A i \in DOMAIN published : published[i].draft <= draft
    /\ post.step # "none" => saving
    /\ Forgotten \/ post.step = "created" \/ (place = "left" /\ post.step = "none") \/ OnceMade

FormInv ==
    /\ Shapes
    /\ Calm => Pictured
    /\ Once /\ ~silent => Single

-----------------------------------------------------------------------------
\* What the lists of exceptions leave out.
LEMMA CalmForms ==
  ASSUME form \in DOMAIN Forms
  PROVE  /\ Calm => /\ Forms[form].waits /\ "clear" \notin Forms[form].ends
                    /\ Forms[form].picking # "always"
         /\ Once => /\ "stay" \notin Forms[form].ends
                    /\ "leave" \in Forms[form].ends => Forms[form].once
  BY FormAssumption DEF Calm, Once

\* A form opens empty.
LEMMA FormInitSafe == FormInit => FormInv
  <1> SUFFICES ASSUME FormInit PROVE FormInv
    OBVIOUS
  <1>1. published \in Seq(Drafts) /\ DOMAIN published = {}
    BY DEF FormInit
  <1>2. post = NoPost /\ post.step = "none"
    BY DEF FormInit, NoPost
  <1> QED
    BY <1>1, <1>2 DEF FormInit, FormInv, Shapes, Pictured, Single, Forgotten

\* A picture is picked, and its upload ends.
LEMMA PicturesSafe ==
  ASSUME FormInv, PickCover \/ \E n \in uploads : CoverUploaded(n) \/ CoverFailed(n)
  PROVE  FormInv'
  <1>1. /\ UNCHANGED <<form, saving, post, published, place, silent, draft>>
        /\ picks' \in Nat /\ picked' \in Nat /\ key' \in Nat /\ uploads' \subseteq Nat
        /\ waiting' \in BOOLEAN /\ warned' \in BOOLEAN
    <2>0. /\ picks \in Nat /\ picked \in Nat /\ key \in Nat /\ uploads \subseteq Nat
          /\ warned \in BOOLEAN
      BY DEF FormInv, Shapes
    <2>1. CASE PickCover
      BY <2>0, <2>1 DEF PickCover, sendingVars
    <2>2. ASSUME NEW n \in uploads, CoverUploaded(n) \/ CoverFailed(n)
          PROVE  /\ UNCHANGED <<form, picks, picked, saving, post, published, place, silent, draft>>
                 /\ key' \in {key, n} /\ uploads' = uploads \ {n}
                 /\ waiting' = FALSE /\ warned' \in {warned, TRUE}
      BY <2>2 DEF CoverUploaded, CoverFailed, sendingVars
    <2> QED
      BY <2>0, <2>1, <2>2
  <1>2. Shapes'
    BY <1>1 DEF FormInv, Shapes
  <1>3. (Calm => Pictured)'
    <2> SUFFICES ASSUME Calm PROVE Pictured'
      BY <1>1 DEF Calm
    <2>1. CASE PickCover
      <3>1. ~waiting /\ uploads = {}
        BY <2>1, CalmForms DEF PickCover, CanPick, FormInv, Shapes, Pictured
      <3> QED
        BY <1>1, <2>1, <3>1 DEF PickCover, FormInv, Pictured
    <2>2. ASSUME NEW n \in uploads, CoverUploaded(n) \/ CoverFailed(n)
          PROVE  Pictured'
      <3>1. waiting /\ n = picked /\ uploads' = {}
        BY <2>2 DEF CoverUploaded, CoverFailed, FormInv, Shapes, Pictured
      <3> QED
        BY <1>1, <2>2, <3>1 DEF CoverUploaded, CoverFailed, FormInv, Pictured
    <2> QED
      BY <2>1, <2>2
  <1>4. (Once /\ ~silent => Single)'
    BY <1>1 DEF FormInv, Once, Single, Forgotten, OnceMade
  <1> QED
    BY <1>2, <1>3, <1>4 DEF FormInv

\* The form is submitted.
LEMMA SubmitSafe ==
  ASSUME FormInv, handleSubmit
  PROVE  FormInv'
  <1> DEFINE d == [draft |-> draft, cover |-> key, picked |-> picked, warned |-> warned]
  <1>1. /\ UNCHANGED <<form, picks, picked, key, uploads, waiting, warned, published, place, silent, draft>>
        /\ saving' = TRUE /\ post' = [step |-> "sent", row |-> d]
        /\ CanSubmit
    BY DEF handleSubmit, pictureVars
  <1>2. d \in Drafts /\ post' \in [step: {"sent", "created", "refused"}, row: Drafts]
    BY <1>1 DEF FormInv, Shapes, Drafts
  <1>3. post'.step = "sent" /\ post'.row = d
    BY <1>1
  <1>4. Shapes'
    BY <1>1, <1>2, <1>3 DEF FormInv, Shapes
  <1>5. (Calm => Pictured)'
    BY <1>1, <1>3, CalmForms DEF Calm, CanSubmit, FormInv, Shapes, Pictured
  <1>6. (Once /\ ~silent => Single)'
    BY <1>1, <1>3 DEF Once, CanSubmit, FormInv, Shapes, Single, Forgotten, OnceMade
  <1> QED
    BY <1>4, <1>5, <1>6 DEF FormInv

\* The backend publishes the draft, or refuses a second one.
LEMMA CreateSafe ==
  ASSUME FormInv, Create
  PROVE  FormInv'
  <1>0. /\ post.step = "sent"
        /\ post \in [step: {"sent", "created", "refused"}, row: Drafts]
        /\ post.row.draft = draft
    BY DEF Create, FormInv, Shapes, NoPost
  <1>u. UNCHANGED <<form, picks, picked, key, uploads, waiting, warned, saving, place, silent, draft>>
    BY DEF Create, pictureVars
  <1>1. CASE OnceMade
    <2>1. post' = [post EXCEPT !.step = "refused"] /\ published' = published
      BY <1>1 DEF Create, OnceMade
    <2>2. /\ post' \in [step: {"sent", "created", "refused"}, row: Drafts]
          /\ post'.row = post.row /\ post'.step = "refused"
      BY <1>0, <2>1
    <2> QED
      BY <1>0, <1>1, <1>u, <2>1, <2>2
      DEF FormInv, Shapes, Calm, Pictured, Once, Single, Forgotten, OnceMade
  <1>2. CASE ~OnceMade
    <2>1. post' = [post EXCEPT !.step = "created"] /\ published' = Append(published, post.row)
      BY <1>2 DEF Create, OnceMade
    <2>2. /\ post' \in [step: {"sent", "created", "refused"}, row: Drafts]
          /\ post'.row = post.row /\ post'.step = "created"
      BY <1>0, <2>1
    <2>3. /\ published' \in Seq(Drafts)
          /\ DOMAIN published' = DOMAIN published \cup {Len(published) + 1}
          /\ Len(published) + 1 \notin DOMAIN published
          /\ published'[Len(published) + 1] = post.row
          /\ \A i \in DOMAIN published : published'[i] = published[i]
      BY <1>0, <2>1 DEF FormInv, Shapes
    <2>4. Shapes'
      BY <1>0, <1>u, <2>2, <2>3 DEF FormInv, Shapes
    <2>5. (Calm => Pictured)'
      BY <1>0, <1>u, <2>2, <2>3 DEF FormInv, Calm, Pictured
    <2>6. (Once /\ ~silent => Single)'
      <3> SUFFICES ASSUME Once, ~silent PROVE Single'
        BY <1>u DEF Once
      <3>1. Forgotten
        BY <1>0, <1>2 DEF FormInv, Single
      <3>2. \A i \in DOMAIN published : published[i].draft \in Nat
        <4>1. \A i \in DOMAIN published : published[i] \in Drafts
          BY DEF FormInv, Shapes
        <4> QED
          BY <4>1 DEF Drafts
      <3>3. draft \in Nat
        BY DEF FormInv, Shapes
      <3> QED
        BY <1>0, <1>u, <2>2, <2>3, <3>1, <3>2, <3>3 DEF FormInv, Single, Forgotten
    <2> QED
      BY <2>4, <2>5, <2>6 DEF FormInv
  <1> QED
    BY <1>1, <1>2

\* An answer ends the submission: an error, a way out, or a word on the page.
LEMMA AnswerSafe ==
  ASSUME FormInv, SubmitFailed \/ Leave \/ Close \/ Stay
  PROVE  FormInv'
  <1>1. /\ UNCHANGED <<form, picks, picked, key, uploads, waiting, warned, published, draft>>
        /\ saving' = FALSE /\ post' = NoPost
        /\ silent' \in BOOLEAN /\ (silent => silent') /\ place' \in {"form", "leaving", "left"}
    BY DEF SubmitFailed, Leave, Close, Stay, pictureVars, FormInv, Shapes
  <1>2. post'.step = "none"
    BY <1>1 DEF NoPost
  <1>3. Shapes' /\ (Calm => Pictured)'
    BY <1>1, <1>2 DEF FormInv, Shapes, Calm, Pictured
  <1>4. ASSUME Once, ~silent' PROVE Single'
    <2>1. Single
      BY <1>1, <1>4 DEF FormInv
    <2>2. post.step # "none"
      BY DEF SubmitFailed, Leave, Close, Stay, Succeeds
    <2>3. (Forgotten \/ (place = "left" /\ post.step = "none") \/ OnceMade)'
      <3>1. CASE SubmitFailed
        BY <1>1, <1>4, <2>1, <2>2, <3>1 DEF SubmitFailed, Single, Forgotten, OnceMade
      <3>2. CASE Close
        BY <1>2, <3>2 DEF Close
      <3>3. CASE Leave
        <4>1. post.step = "created" /\ Forms[form].once
          BY <1>4, <3>3, CalmForms DEF Leave, Succeeds, FormInv, Shapes
        <4> QED
          BY <1>1, <4>1 DEF Forgotten, OnceMade
      <3>4. CASE Stay
        BY <1>4, <3>4, CalmForms DEF Stay, Succeeds, FormInv, Shapes
      <3> QED
        BY <3>1, <3>2, <3>3, <3>4
    <2> QED
      BY <1>1, <1>2, <2>1, <2>3 DEF Single
  <1> QED
    BY <1>1, <1>3, <1>4 DEF FormInv, Once

\* An emptied form holds a new draft.
LEMMA ClearSafe ==
  ASSUME FormInv, Clear \/ FormCleared \/ Navigated
  PROVE  FormInv'
  <1>1. CASE Clear
    <2>1. /\ UNCHANGED <<form, picks, uploads, waiting, warned, saving, published, place, silent>>
          /\ post' = [step |-> "cleared"] /\ draft' = draft + 1 /\ picked' = 0 /\ key' = 0
          /\ post.step = "created" /\ "clear" \in Forms[form].ends
      BY <1>1 DEF Clear, Succeeds
    <2>2. Shapes'
      BY <2>1 DEF FormInv, Shapes
    <2>3. ~Calm
      BY <2>1, CalmForms DEF FormInv, Shapes
    <2>4. ASSUME Once, ~silent PROVE Single'
      <3>1. \A i \in DOMAIN published : published[i].draft \in Nat
        <4>1. \A i \in DOMAIN published : published[i] \in Drafts
          BY DEF FormInv, Shapes
        <4> QED
          BY <4>1 DEF Drafts
      <3>2. draft \in Nat /\ Single
        BY <2>4 DEF FormInv, Shapes
      <3> QED
        BY <2>1, <3>1, <3>2 DEF Single, Forgotten
    <2> QED
      BY <2>1, <2>2, <2>3, <2>4 DEF FormInv, Calm, Once
  <1>2. CASE FormCleared
    <2>1. /\ UNCHANGED <<form, picks, picked, key, uploads, waiting, warned, published, place, silent, draft>>
          /\ saving' = FALSE /\ post' = NoPost /\ post.step = "cleared"
      BY <1>2 DEF FormCleared, pictureVars
    <2>2. post'.step = "none"
      BY <2>1 DEF NoPost
    <2> QED
      BY <2>1, <2>2 DEF FormInv, Shapes, Calm, Pictured, Once, Single, Forgotten, OnceMade
  <1>3. CASE Navigated
    <2>1. /\ UNCHANGED <<form, picks, picked, key, uploads, waiting, warned, saving, post,
                         published, silent, draft>>
          /\ place = "leaving" /\ place' = "left"
      BY <1>3 DEF Navigated, pictureVars
    <2> QED
      BY <2>1 DEF FormInv, Shapes, Calm, Pictured, Once, Single, Forgotten, OnceMade
  <1> QED
    BY <1>1, <1>2, <1>3

\* The invariant of the forms.
THEOREM FormInvariant == FormSpec => []FormInv
  <1>1. FormInv /\ [FormNext]_formVars => FormInv'
    <2> SUFFICES ASSUME FormInv, [FormNext]_formVars PROVE FormInv'
      OBVIOUS
    <2>1. CASE UNCHANGED formVars
      BY <2>1 DEF formVars, pictureVars, sendingVars, FormInv, Shapes, Calm, Pictured, Once,
         Single, Forgotten, OnceMade
    <2> QED
      BY <2>1, PicturesSafe, SubmitSafe, CreateSafe, AnswerSafe, ClearSafe DEF FormNext
  <1> QED
    BY <1>1, FormInitSafe, PTL DEF FormSpec

\* A form that waits for its uploads publishes the picture picked last, or had said
\* that an upload failed, however long the uploads take (edit-product.tsx).
THEOREM CoverSent == FormSpec => []CoverSentIsTheOnePicked
  <1>1. FormInv => CoverSentIsTheOnePicked
    BY DEF FormInv, Calm, Pictured, CoverSentIsTheOnePicked
  <1> QED
    BY <1>1, FormInvariant, PTL

\* A form that leaves its page at once, or whose backend refuses a second time,
\* publishes its draft once, unless an answer was lost (register, reset-password,
\* sponsors, announcements and their kind).
THEOREM NoTwin == FormSpec => []TwinOnlyAfterSilence
  <1>1. FormInv => TwinOnlyAfterSilence
    BY DEF FormInv, Once, Single, TwinOnlyAfterSilence
  <1> QED
    BY <1>1, FormInvariant, PTL

\* What is submitted, published and emptied is counted.
Underway == post.step \in {"sent", "created", "refused"}
FormCounts ==
    /\ picks \in 0..MaxPicks /\ picked \in 0..picks /\ key \in 0..picks
    /\ uploads \subseteq 1..picks
    /\ submits \in 0..MaxSubmits
    /\ draft \in Nat /\ draft <= submits /\ (Underway => draft < submits)
    /\ published \in Seq(Drafts)
    /\ Len(published) <= submits /\ (post.step = "sent" => Len(published) < submits)

\* The pictures are counted.
LEMMA PicturesCounted ==
  ASSUME FormCounts, PickCover \/ \E n \in uploads : CoverUploaded(n) \/ CoverFailed(n)
  PROVE  FormCounts'
  <1>0. MaxPicks \in Nat
    BY FormAssumption
  <1>1. UNCHANGED <<post, published, draft, submits>>
    BY DEF PickCover, CoverUploaded, CoverFailed, sendingVars
  <1>2. (picks \in 0..MaxPicks /\ picked \in 0..picks /\ key \in 0..picks /\ uploads \subseteq 1..picks)'
    <2>1. CASE PickCover
      <3>1. picks < MaxPicks /\ picks' = picks + 1 /\ picked' = picks + 1 /\ key' = key
            /\ uploads' = uploads \cup {picks + 1}
        BY <2>1 DEF PickCover, CanPick
      <3> QED
        BY <1>0, <3>1 DEF FormCounts
    <2>2. ASSUME NEW n \in uploads, CoverUploaded(n) \/ CoverFailed(n)
          PROVE  (picks \in 0..MaxPicks /\ picked \in 0..picks /\ key \in 0..picks /\ uploads \subseteq 1..picks)'
      <3>1. UNCHANGED <<picks, picked>> /\ key' \in {key, n} /\ uploads' \subseteq uploads /\ n \in uploads
        BY <2>2 DEF CoverUploaded, CoverFailed
      <3> QED
        BY <3>1 DEF FormCounts
    <2> QED
      BY <2>1, <2>2
  <1> QED
    BY <1>1, <1>2 DEF FormCounts, Underway

\* The submissions are counted.
LEMMA SendingCounted ==
  ASSUME FormInv, FormCounts,
         \/ handleSubmit \/ Create \/ SubmitFailed \/ Leave \/ Navigated
         \/ Close \/ Stay \/ Clear \/ FormCleared
  PROVE  FormCounts'
  <1>0. MaxSubmits \in Nat
    BY FormAssumption
  <1>1. CASE handleSubmit
    <2>1. /\ UNCHANGED <<picks, picked, key, uploads, published, draft>>
          /\ submits < MaxSubmits /\ submits' = submits + 1
      BY <1>1 DEF handleSubmit, pictureVars
    <2>2. Len(published) \in Nat
      BY DEF FormCounts
    <2> QED
      BY <1>0, <2>1, <2>2 DEF FormCounts, Underway
  <1>2. CASE Create
    <2>1. /\ UNCHANGED <<picks, picked, key, uploads, draft, submits>> /\ Underway
          /\ post.row \in Drafts /\ post.step = "sent"
          /\ post' \in {[post EXCEPT !.step = "refused"], [post EXCEPT !.step = "created"]}
          /\ published' \in {published, Append(published, post.row)}
      BY <1>2 DEF Create, pictureVars, Underway, FormInv, Shapes, NoPost
    <2>2. post'.step # "sent"
      BY <2>1 DEF FormInv, Shapes, NoPost
    <2>3. published' \in Seq(Drafts) /\ Len(published') <= submits
      BY <2>1 DEF FormCounts
    <2> QED
      BY <2>1, <2>2, <2>3 DEF FormCounts
  <1>3. CASE SubmitFailed \/ Leave \/ Close \/ Stay \/ FormCleared
    <2>1. UNCHANGED <<picks, picked, key, uploads, published, draft, submits>> /\ post' = NoPost
      BY <1>3 DEF SubmitFailed, Leave, Close, Stay, FormCleared, pictureVars
    <2> QED
      BY <2>1 DEF FormCounts, Underway, NoPost
  <1>4. CASE Navigated
    BY <1>4 DEF Navigated, pictureVars, FormCounts, Underway
  <1>5. CASE Clear
    <2>1. /\ UNCHANGED <<picks, uploads, published, submits>> /\ picked' = 0 /\ key' = 0
          /\ draft' = draft + 1 /\ post' = [step |-> "cleared"] /\ Underway
      BY <1>5 DEF Clear, Succeeds, Underway
    <2> QED
      BY <2>1 DEF FormCounts, Underway
  <1> QED
    BY <1>1, <1>2, <1>3, <1>4, <1>5

\* The state of a form keeps its type.
THEOREM FormTypes == FormSpec => []FormTypeOK
  <1>1. FormInit => FormCounts
    <2> SUFFICES ASSUME FormInit PROVE FormCounts
      OBVIOUS
    <2>1. published \in Seq(Drafts) /\ Len(published) = 0 /\ post.step = "none"
      BY DEF FormInit, NoPost
    <2> QED
      BY <2>1, FormAssumption DEF FormInit, FormCounts, Underway
  <1>2. FormInv /\ FormCounts /\ [FormNext]_formVars => FormCounts'
    <2> SUFFICES ASSUME FormInv, FormCounts, [FormNext]_formVars PROVE FormCounts'
      OBVIOUS
    <2>1. CASE UNCHANGED formVars
      BY <2>1 DEF formVars, pictureVars, sendingVars, FormCounts, Underway
    <2> QED
      BY <2>1, PicturesCounted, SendingCounted DEF FormNext
  <1>3. FormInv /\ FormCounts => FormTypeOK
    <2> SUFFICES ASSUME FormInv, FormCounts PROVE FormTypeOK
      OBVIOUS
    <2>1. post.step \in {"none", "sent", "created", "refused", "cleared"}
      BY DEF FormInv, Shapes, NoPost
    <2> QED
      BY <2>1 DEF FormInv, Shapes, FormCounts, FormTypeOK
  <1> QED
    BY <1>1, <1>2, <1>3, FormInvariant, PTL DEF FormSpec

-----------------------------------------------------------------------------
(* The whole site *)

\* A behaviour of the site is one of each of its parts, two of which rest.
LEMMA Parts == WebSpec => SessionSpec /\ ConsoleSpec /\ FormSpec
  <1>1. WebInit => SessionInit /\ ConsoleInit /\ FormInit
    BY DEF WebInit, SessionRests, ConsoleRests, FormRests
  <1>2. [WebNext]_webVars => [SessionNext]_signedInVars /\ [ConsoleNext]_consoleVars /\ [FormNext]_formVars
    <2> SUFFICES ASSUME [WebNext]_webVars
                 PROVE  [SessionNext]_signedInVars /\ [ConsoleNext]_consoleVars /\ [FormNext]_formVars
      OBVIOUS
    <2>1. CASE AtSession
      BY <2>1 DEF AtSession
    <2>2. CASE AtConsole
      BY <2>2 DEF AtConsole
    <2>3. CASE AtForm
      BY <2>3 DEF AtForm
    <2>4. CASE UNCHANGED webVars
      BY <2>4 DEF webVars
    <2> QED
      BY <2>1, <2>2, <2>3, <2>4 DEF WebNext
  <1> QED
    BY <1>1, <1>2, PTL DEF WebSpec, SessionSpec, ConsoleSpec, FormSpec

\* Whatever is open, the state of the site keeps its type.
THEOREM WebTypes == WebSpec => []WebTypeOK
  <1>1. SessionTypeOK /\ ConsoleInv /\ FormTypeOK => WebTypeOK
    BY ConsoleInvImplies DEF WebTypeOK
  <1> QED
    BY <1>1, Parts, TypeCorrect, ConsoleInvariant, FormTypes, PTL

\* On every screen whose record is well formed, a call is not sent twice for one row,
\* unless its button is never disabled or a lock was taken over (busyId and its kind).
THEOREM NoSecondCall == WebSpec => []OneCallAtATime
  BY Parts, ConsoleInvariant, ConsoleInvImplies, PTL

\* On every screen, a variable that disables buttons is held by a handler still under
\* way, also after another row took it over: none stays disabled with nobody to give it
\* back (the finally blocks of the pages' handlers).
THEOREM NoOrphanLock == WebSpec => []LocksHeld
  <1>1. ConsoleInit => LocksHeld
    BY DEF ConsoleInit, LocksHeld
  <1>2. ConsoleInv /\ LocksHeld /\ [ConsoleNext]_consoleVars => LocksHeld'
    BY HoldersInvariant DEF ConsoleInv
  <1> QED
    BY <1>1, <1>2, Parts, ConsoleInvariant, PTL DEF ConsoleSpec

\* Once nothing is under way, the list shows the backend's rows, unless there is an
\* excuse: after a success each handler reads the list again or does to it what the
\* backend did (loadPayouts, setUsers and their kind).
THEOREM FreshAtRest == WebSpec => []QuietListIsFresh
  BY Parts, ConsoleInvariant, ConsoleInvImplies, PTL

\* What is proved of the session (api.ts, AuthProvider) holds of the whole site.
THEOREM SessionOfTheSite == WebSpec => []NotThrownOutForNothing /\ []WaitsOnRefresh /\ CallsKeepPromise
  BY Parts, NobodyThrownOut, NobodyForgotten, PromiseKept, PTL

\* What is proved of the publishing and account forms holds of the whole site.
THEOREM FormsOfTheSite == WebSpec => []CoverSentIsTheOnePicked /\ []TwinOnlyAfterSilence
  BY Parts, CoverSent, NoTwin, PTL
===============================================================================
