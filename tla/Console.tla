-------------------------------- MODULE Console --------------------------------
(***************************************************************************)
(* One list screen at work (screens of app/(app)/admin, /vendor, /closer): *)
(* the rows at the backend, the rows the page shows, its buttons, its      *)
(* confirmations, the calls of its handlers and the reads of its list.     *)
(* Every screen is the same React machine; a screen's record says what its *)
(* own code puts in it.                                                    *)
(***************************************************************************)
EXTENDS Screen, Naturals, FiniteSets

CONSTANTS Screens,   \* [name -> screen record]
          Rows,      \* rows of the table
          Decisions  \* bound: calls sent and changes made elsewhere

VARIABLES name,      \* the screen open
          db,        \* rows at the backend
          shown,     \* rows the page holds
          tab,       \* the filter chosen
          dialog,    \* <<act, row>> waiting for confirmation, or NoDialog
          busy,      \* the state that disables buttons: <<variable, value>>
          thread,    \* the handlers running, and the load of a filter
          decided,   \* decisions so far
          excuse     \* history: why the page may not know the backend's rows

consoleVars == <<name, db, shown, tab, dialog, busy, thread, decided, excuse>>

screen   == Screens[name]
NoDialog == <<>>
Slots    == {"first", "second"}
Idle     == [step |-> "idle"]

Running(s) == thread[s].step # "idle"
Quiet == \A s \in DOMAIN thread : ~Running(s)

\* What a row holds for its screen's handlers and backend.
Acts(r) == screen.offers[r]
EffectsOf(act, r) ==
    IF act \in DOMAIN screen.effects[r] THEN screen.effects[r][act] ELSE {}
Accepts(act, r) == \E e \in EffectsOf(act, r) : e[1] = "ok"
HandlerOf(act) == screen.handlers[act]

Listing(t) == [r \in Rows |-> Through(screen, t, db[r])]
Asked(t) == IF screen.asks THEN t ELSE "all"
Listed == Listing(Asked(tab))
Visible(r) == shown[r] = Blank \/ shown[r] \in screen.tabs[tab]
\* A page has one form of a kind, whatever row it will create.
Key(r) == IF shown[r] = Blank THEN "form" ELSE r

ConsoleInit ==
    /\ name \in DOMAIN Screens
    /\ db \in [Rows -> screen.first]
    /\ tab = screen.opens
    /\ shown = Listed
    /\ dialog = NoDialog /\ busy = {}
    /\ thread = [s \in Slots \cup {"load"} |-> Idle]
    /\ decided = 0
    /\ excuse = {}

-----------------------------------------------------------------------------
\* Buttons and confirmations.

\* Pages that show their loader in place of the list cannot be clicked.
Hidden == screen.hides /\ \E s \in DOMAIN thread : thread[s].step \in {"asked", "read"}

\* busyId holds one row for the whole page: taking it for another row gives
\* the first one's buttons back, and finally { setBusyId(null) } frees
\* whichever row holds it by then.
Holds(lock) == {b \in busy : b[1] = lock.slot}

\* Mutant: no button is disabled while its call runs.
Enabled_Always(act, r) == TRUE

Enabled(act, r) ==
    LET lock == HandlerOf(act).lock IN
    /\ lock.by = "row"  => <<lock.slot, Key(r)>> \notin busy
    /\ lock.by = "page" => Holds(lock) = {}

\* Mutant: the page remembers every row, as a set would.
Take_Adds(act, r) ==
    LET lock == HandlerOf(act).lock IN
    busy' = IF lock = NoLock THEN busy ELSE busy \cup {<<lock.slot, Key(r)>>}

Take(act, r) ==
    LET lock == HandlerOf(act).lock IN
    busy' = IF lock = NoLock THEN busy
            ELSE (busy \ Holds(lock)) \cup {<<lock.slot, Key(r)>>}

Release(act) == busy' = busy \ Holds(HandlerOf(act).lock)

\* A call is sent while another handler holds its lock: busyId goes over to
\* another row, or a confirmation that stays open is pressed again.
TakesOver(act, r) ==
    \E b \in Holds(HandlerOf(act).lock) :
      b[2] # Key(r) \/ (act \in screen.dialogs /\ HandlerOf(act).closes = "after")

\* The call goes out, in a closure that keeps the filter of this moment.  A
\* second one while another handler runs is an excuse: their answers and
\* their reads may cross, and one may free the lock of the other.
Send(act, r, s) ==
    /\ decided < Decisions
    /\ ~Running(s) /\ (s = "second" => Running("first"))
    /\ decided' = decided + 1
    /\ Take(act, r)
    /\ thread' = [thread EXCEPT ![s] =
         [step |-> "sent", call |-> [act |-> act, row |-> r, key |-> Key(r), tab |-> tab]]]
    /\ excuse' = excuse \cup (IF Quiet THEN {} ELSE {"crossed"})
                         \cup (IF TakesOver(act, r) THEN {"taken"} ELSE {})

Click(act, r, s) ==
    /\ dialog = NoDialog /\ ~Hidden
    /\ Visible(r) /\ act \in Acts(shown[r])
    /\ Enabled(act, r)
    /\ IF act \in screen.dialogs
       THEN /\ s = "first" /\ decided < Decisions
            /\ dialog' = <<act, r>>
            /\ UNCHANGED <<busy, thread, decided, excuse>>
       ELSE /\ Send(act, r, s)
            /\ UNCHANGED dialog
    /\ UNCHANGED <<name, db, shown, tab>>

\* The button of a confirmation that closes after the answer is never
\* disabled (ConfirmDialog): it can be pressed again while its call runs.
\* That of a form is disabled with the form.
Confirm(s) ==
    /\ dialog # NoDialog
    /\ HandlerOf(dialog[1]).closes = "after" \/ Enabled(dialog[1], dialog[2])
    /\ Send(dialog[1], dialog[2], s)
    /\ dialog' = IF HandlerOf(dialog[1]).closes = "before" THEN NoDialog ELSE dialog
    /\ UNCHANGED <<name, db, shown, tab>>

Cancel ==
    /\ dialog # NoDialog
    /\ dialog' = NoDialog
    /\ UNCHANGED <<name, db, shown, tab, busy, thread, decided, excuse>>

-----------------------------------------------------------------------------
\* The backend.

Execute(s) ==
    LET r == thread[s].call.row
        effects == EffectsOf(thread[s].call.act, db[r])
    IN
    /\ thread[s].step = "sent"
    /\ \E e \in IF effects = {} THEN Error(db[r]) ELSE effects :
         /\ thread' = [thread EXCEPT ![s] = [step |-> e[1], call |-> thread[s].call, now |-> e[2]]]
         /\ db' = [db EXCEPT ![r] = e[2]]
         /\ excuse' = IF e[1] = "error" /\ e[2] # db[r] THEN excuse \cup {"spoiled"} ELSE excuse
    /\ UNCHANGED <<name, shown, tab, dialog, busy, decided>>

\* Another person, a callback or a timer changes a row.
Outside(r) ==
    /\ decided < Decisions
    /\ \E act \in DOMAIN screen.effects[db[r]] : \E e \in EffectsOf(act, db[r]) :
         /\ e[2] # db[r]
         /\ db' = [db EXCEPT ![r] = e[2]]
    /\ decided' = decided + 1
    /\ excuse' = excuse \cup {"outside"}
    /\ UNCHANGED <<name, shown, tab, dialog, busy, thread>>

-----------------------------------------------------------------------------
\* Answers.

Closed(act, answer) ==
    LET closes == HandlerOf(act).closes IN
    IF closes = "after" \/ (closes = "success" /\ answer = "ok") THEN NoDialog ELSE dialog

\* Mutant: the catch branch leaves without its finally.
Failed_KeepsLock(s) ==
    /\ thread[s].step \in {"sent", "ok", "error"}
    /\ excuse' = IF thread[s].step = "ok" THEN excuse \cup {"lost"} ELSE excuse
    /\ thread' = [thread EXCEPT ![s] = Idle]
    /\ dialog' = Closed(thread[s].call.act, "error")
    /\ UNCHANGED <<busy, name, db, shown, tab, decided>>

\* The catch branch: the error is shown, the list stays as it was.
Failed(s) ==
    /\ thread[s].step \in {"sent", "ok", "error"}
    /\ excuse' = IF thread[s].step = "ok" THEN excuse \cup {"lost"} ELSE excuse
    /\ thread' = [thread EXCEPT ![s] = Idle]
    /\ dialog' = Closed(thread[s].call.act, "error")
    /\ Release(thread[s].call.act)
    /\ UNCHANGED <<name, db, shown, tab, decided>>

\* Mutant: the list is not read again.
Refreshed_Never(call, now) == Idle

\* What the page does once its call succeeded.
Refreshed(call, now) ==
    IF HandlerOf(call.act).after \in {"await", "reload"}
    THEN [step |-> "asked", call |-> call] ELSE Idle

Succeeded(s) ==
    LET call == thread[s].call
        after == HandlerOf(call.act).after
    IN
    /\ thread[s].step = "ok"
    /\ dialog' = Closed(call.act, "ok")
    /\ thread' = [thread EXCEPT ![s] = Refreshed(call, thread[s].now)]
    /\ shown' = [shown EXCEPT ![call.row] = RowAfter(after, @, thread[s].now)]
    /\ IF after = "await" THEN UNCHANGED <<busy>> ELSE Release(call.act)
    /\ UNCHANGED <<name, db, tab, decided, excuse>>

\* The list is read, under the filter the request named...
ReadList(s) ==
    /\ thread[s].step = "asked"
    /\ thread' = [thread EXCEPT ![s] =
         [step |-> "read", call |-> thread[s].call,
          list |-> Listing(Asked(thread[s].call.tab))]]
    /\ UNCHANGED <<name, db, shown, tab, dialog, busy, decided, excuse>>

\* ...and shown, whatever was asked since; the handler that waited for it ends.
EndRead(s) ==
    /\ thread' = [thread EXCEPT ![s] = Idle]
    /\ IF s # "load" /\ HandlerOf(thread[s].call.act).after = "await"
       THEN Release(thread[s].call.act) ELSE UNCHANGED <<busy>>
    /\ UNCHANGED <<name, db, tab, dialog, decided>>

ShowList(s) ==
    /\ thread[s].step = "read"
    /\ shown' = thread[s].list
    /\ EndRead(s)
    /\ UNCHANGED excuse

ReadFailed(s) ==
    /\ thread[s].step = "asked"
    /\ excuse' = excuse \cup {"lost"}
    /\ EndRead(s)
    /\ UNCHANGED shown

\* The filters the page asks of the backend load the list again.
ChangeTab ==
    \E t \in DOMAIN screen.tabs \ {tab} :
      /\ dialog = NoDialog
      /\ tab' = t
      /\ IF screen.asks
         THEN /\ ~Running("load") /\ decided < Decisions
              /\ decided' = decided + 1
              /\ thread' = [thread EXCEPT !["load"] = [step |-> "asked", call |-> [tab |-> t]]]
              /\ excuse' = IF Quiet THEN excuse ELSE excuse \cup {"crossed"}
         ELSE UNCHANGED <<thread, decided, excuse>>
      /\ UNCHANGED <<name, db, shown, dialog, busy>>

ThreadStep(s) ==
    \/ s # "load" /\ (Execute(s) \/ Failed(s) \/ Succeeded(s))
    \/ ReadList(s) \/ ShowList(s) \/ ReadFailed(s)

ConsoleNext ==
    \/ \E r \in Rows, s \in Slots : \E act \in Acts(shown[r]) : Click(act, r, s)
    \/ \E s \in Slots : Confirm(s)
    \/ Cancel
    \/ \E s \in DOMAIN thread : ThreadStep(s)
    \/ \E r \in Rows : Outside(r)
    \/ ChangeTab

\* Every request ends: it is answered, or fetch reports that it broke.
ConsoleFairness == \A s \in Slots \cup {"load"} : WF_consoleVars(ThreadStep(s))

-----------------------------------------------------------------------------
\* What the code does not promise, screen by screen.

CONSTANTS Unlocked,  \* <<screen, act>> whose button stays enabled while it runs
          Trusting,  \* <<screen, act>> the backend does without the page's guard
          Refused    \* <<screen, act>> shown on rows the backend refuses

\* The screens are well formed, and the list of unlocked buttons is complete.
ASSUME ConsoleAssumption ==
    /\ Decisions \in Nat
    /\ \A n \in DOMAIN Screens :
         /\ IsScreen(Screens[n]) /\ KeepsUp(Screens[n])
         /\ \A act \in DOMAIN Screens[n].handlers :
              LET h == Screens[n].handlers[act] IN
              h.lock = NoLock \/ (act \in Screens[n].dialogs /\ h.closes = "after")
                => <<n, act>> \in Unlocked

\* Every variable of the page that disables buttons holds one value.
ConsoleTypeOK ==
    /\ name \in DOMAIN Screens
    /\ db \in [Rows -> DOMAIN screen.offers]
    /\ shown \in [Rows -> DOMAIN screen.offers]
    /\ tab \in DOMAIN screen.tabs
    /\ dialog = NoDialog \/ dialog \in screen.dialogs \X Rows
    /\ busy \subseteq {HandlerOf(act).lock.slot : act \in DOMAIN screen.handlers} \X (Rows \cup {"form"})
    /\ \A b, c \in busy : b[1] = c[1] => b = c
    /\ \A s \in DOMAIN thread : thread[s].step \in {"idle", "sent", "ok", "error", "asked", "read"}
    /\ decided \in 0..Decisions
    /\ excuse \subseteq {"crossed", "taken", "outside", "spoiled", "lost"}

\* What a page that knows its rows offers, the backend does: the guards of
\* the JSX imply the guards of the Go handlers.
OfferedIsAccepted ==
    \A r \in Rows : Visible(r) /\ shown[r] = db[r] =>
      \A act \in Acts(shown[r]) : <<name, act>> \notin Refused => Accepts(act, shown[r])

\* A call is not sent again for its row while it is under way, unless its
\* button is never disabled, or a lock has been taken over: then the first of
\* the two handlers to end frees the lock of the other.
OneCallAtATime ==
    LET a == thread["first"]
        b == thread["second"]
    IN a.step = "sent" /\ b.step = "sent" /\ a.call.act = b.call.act /\ a.call.key = b.call.key
         => <<name, a.call.act>> \in Unlocked \/ "taken" \in excuse

\* Once nothing is under way, the page shows the backend's rows, unless
\* somebody else changed them, an answer was lost, two handlers crossed, or
\* an error answer came with a change, which the catch branches do not read.
QuietListIsFresh ==
    Quiet /\ excuse = {} => shown = Listed

\* A decision that comes late, the row having changed since, changes it only
\* if the row as it is now would still have offered it.
LateDecisionsAreHarmless ==
    [][\A s \in Slots : thread[s].step = "sent" /\ thread'[s].step = "ok" =>
         LET call == thread[s].call IN
           \/ db'[call.row] = db[call.row]
           \/ call.act \in Acts(db[call.row])
           \/ <<name, call.act>> \in Trusting]_consoleVars

\* No button stays disabled for ever.
LocksAreReleased == (busy # {}) ~> (busy = {})

===============================================================================
