-------------------------------- MODULE Screen --------------------------------
(***************************************************************************)
(* The vocabulary in which the list screens of the administration, the     *)
(* vendor's and the closer's spaces are written: one record per screen.    *)
(* A row is what its buttons and the backend's answer depend on.           *)
(***************************************************************************)
EXTENDS TLC

\* A row that is not in the table: never created, or deleted.
Blank == [status |-> "blank"]
Gone  == [status |-> "gone"]

(* How the handler of a button runs its call:
     closes  "before" it sends the call, "after" the answer whatever it is,
             or on "success" it closes its confirmation;
     lock    what is disabled meanwhile: the buttons of the row whose id a
             state variable holds, those of the whole page, or nothing;
     after   what success does to the list: "await" or start a "reload",
             "patch" or "drop" the row, or "none".                         *)
PerRow(slot) == [by |-> "row", slot |-> slot]
Whole(slot)  == [by |-> "page", slot |-> slot]
NoLock       == [by |-> "none", slot |-> "none"]
Handler(closes, lock, after) == [closes |-> closes, lock |-> lock, after |-> after]

\* The row the page holds after a success, which left row now at the backend.
RowAfter(after, row, now) ==
    IF after = "patch" THEN now ELSE IF after = "drop" THEN Gone ELSE row

\* What the backend may do with a call: its answer, and the row it leaves.
\* An empty set refuses and leaves the row alone.
Ok(r)    == {<<"ok", r>>}
Error(r) == {<<"error", r>>}
When(cond, effects) == IF cond THEN effects ELSE {}

(* A screen: its rows, those it may open with, its filters (the rows each
   lets through, "all" being what the backend lists), the one it opens with,
   whether a filter is asked of the backend, whether a load hides the list,
   the buttons that ask first, the handlers, the buttons shown on a row, the
   backend's effects, and the forms that create a row.                     *)
NewScreen(rows, first, tabs, opens, asks, hides, dialogs, handlers, Offers(_), Effects(_), creates) ==
    [first |-> first, tabs |-> tabs, opens |-> opens, asks |-> asks, hides |-> hides,
     dialogs |-> dialogs, handlers |-> handlers,
     offers |-> [r \in rows |-> {a \in DOMAIN Offers(r) : Offers(r)[a]}]
                  @@ Blank :> DOMAIN creates @@ Gone :> {},
     effects |-> [r \in rows |-> Effects(r)]
                  @@ Blank :> [a \in DOMAIN creates |-> {<<"ok", n>> : n \in creates[a]}]
                  @@ Gone :> <<>>]

NoCreates == <<>>

\* What a row looks like under filter t.
Through(scr, t, r) == IF r \in scr.tabs[t] \cup {Blank} THEN r ELSE Gone

-----------------------------------------------------------------------------
(* What the machine that runs the screens asks of their records. *)

Locks    == [by: {"row", "page"}, slot: STRING \ {"none"}] \cup {NoLock}
Handlers == [closes: {"before", "after", "success"}, lock: Locks,
             after: {"await", "reload", "patch", "drop", "none"}]

\* The names a record uses are those it declares.
IsScreen(scr) ==
    LET rows == DOMAIN scr.offers IN
    /\ {Blank, Gone} \subseteq rows /\ scr.first \subseteq rows
    /\ scr.asks \in BOOLEAN /\ scr.hides \in BOOLEAN
    /\ scr.opens \in DOMAIN scr.tabs
    /\ scr.asks \/ "all" \in DOMAIN scr.tabs
    /\ \A act \in DOMAIN scr.handlers : scr.handlers[act] \in Handlers
    /\ scr.dialogs \subseteq DOMAIN scr.handlers
    /\ \A r \in rows : scr.offers[r] \subseteq DOMAIN scr.handlers
    /\ scr.offers[Gone] = {}
    /\ DOMAIN scr.effects = rows
    /\ \A r \in rows : \A act \in DOMAIN scr.effects[r] :
         scr.effects[r][act] \subseteq {"ok", "error"} \X rows

\* A handler that does not read the list again after a success does to its row
\* what the backend did, under every filter it may be pressed in.  A confirmation
\* may be pressed on a row that has changed since it was opened.
KeepsUp(scr) ==
    \A t \in IF scr.asks THEN DOMAIN scr.tabs ELSE {"all"} :
    \A r \in DOMAIN scr.offers :
    \A act \in DOMAIN scr.effects[r] \cap DOMAIN scr.handlers :
      /\ act \in scr.dialogs \/ (act \in scr.offers[r] /\ Through(scr, t, r) = r)
      /\ scr.handlers[act].after \notin {"await", "reload"}
      => \A e \in scr.effects[r][act] : e[1] = "ok" =>
           RowAfter(scr.handlers[act].after, Through(scr, t, r), e[2]) = Through(scr, t, e[2])

===============================================================================
