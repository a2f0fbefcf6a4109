------------------------- MODULE BuyerJourney_proofs -------------------------
(***************************************************************************)
(* What the buyer's pages say and let them do, for any number of orders,   *)
(* of requests in flight, of countries and of operators: the return page   *)
(* tells the truth, nobody is led to pay twice without a failure or a      *)
(* silence, the forms post what the backend accepts, and the edge worker   *)
(* refuses none of the polls of a first visit that goes well.              *)
(***************************************************************************)
EXTENDS BuyerJourney, FiniteSetTheorems, WellFoundedInduction, TLAPS

PageShapes == [shown: Orders \cup {NoOrder}, step: Steps, vendorChat: Chats,
               polling: BOOLEAN, pollCount: Nat, timedOut: BOOLEAN, checkingNow: BOOLEAN]

Shapes ==
    /\ order \in [Orders -> Statuses] /\ everFailed \subseteq Orders /\ lost \subseteq Orders
    /\ chat \in Chats
    /\ page \in PageShapes
    /\ reply \in [Requests -> [status: Statuses, chat: Chats]]
    /\ place \in {"form", "return", "elsewhere"}
    /\ "submitting" \in DOMAIN form /\ "at" \in DOMAIN post

\* Only the return page has an order and requests, and only the form a post,
\* which disables its button and knows the order it has created.
Whereabouts ==
    /\ IF place = "return" THEN page.shown \in Orders ELSE page = NoPage
    /\ page.shown = NoOrder => \A r \in Requests : hop[r] = FreeHop /\ reply[r] = NoReply
    /\ post.at # "none" => place = "form" /\ form.submitting
    /\ post.at = "created" => posted \in Orders

\* What has been read of an order, and what is shown of it, was true and still is:
\* a paid order stays paid, a failed one has failed.
Says(paid, failed) ==
    /\ paid => page.shown \in Orders /\ order[page.shown] = "paid"
    /\ failed => page.shown \in everFailed

Truth ==
    /\ Says(page.step = "done", page.step = "error")
    /\ \A r \in Requests : Says(reply[r].status = "paid", reply[r].status = "failed")

\* While no order has failed and no answer to a creation was lost, there is one
\* order at most, and on the form only the one just created.
OneOrder ==
    everFailed \cup lost = {} =>
        /\ \A o, p \in Orders : order[o] # "none" /\ order[p] # "none" => o = p
        /\ place = "form" =>
              \A o \in Orders : order[o] # "none" => post.at = "created" /\ o = posted

\* A page that waits polls; one that polls has neither failed nor given up; and
\* the button is only pressed on one that has given up.
PollInv == PollsWhileUseful /\ (byHand # {} => page.timedOut)

JourneyInv == Shapes /\ Whereabouts /\ Truth /\ OneOrder

-----------------------------------------------------------------------------
(* The backend's rows only grow *)

Grows ==
    /\ \A o \in Orders : order[o] = "paid" => order'[o] = "paid"
    /\ everFailed \subseteq everFailed'

\* A status set to one that may follow keeps paid orders paid, and creates none.
LEMMA SetGrows ==
  ASSUME Shapes, NEW o \in Orders, NEW status \in Statuses, SetStatus(o, status),
         order[o] = "paid" => status = "paid"
  PROVE  /\ order' \in [Orders -> Statuses] /\ everFailed' \subseteq Orders
         /\ Grows
         /\ order'[o] = status
         /\ status = "failed" => o \in everFailed'
         /\ \A p \in Orders : p # o => order'[p] = order[p]
  BY DEF Shapes, SetStatus, Grows

\* The second half of the journey's invariant depends on which orders exist only.
LEMMA OneOrderKept ==
  ASSUME OneOrder, everFailed \subseteq everFailed',
         \A o \in Orders : order'[o] # "none" => order[o] # "none",
         UNCHANGED <<lost, place, post, posted>>
  PROVE  OneOrder'
  BY DEF OneOrder

\* The truth outlives every change of an order.
LEMMA TruthGrows ==
  ASSUME Truth, Grows, UNCHANGED <<page, reply>>
  PROVE  Truth'
  BY DEF Truth, Says, Grows

\* What an answer that was true does to the page is true, and keeps its shape.
LEMMA AnswersAreTrue ==
  ASSUME Shapes, Truth, NEW r \in Requests,
         NEW q \in {CheckedPage(page, reply[r]), ManuallyCheckedPage(page, reply[r])}
  PROVE  /\ q \in PageShapes /\ q.shown = page.shown
         /\ q.step = "done" => page.shown \in Orders /\ order[page.shown] = "paid"
         /\ q.step = "error" => page.shown \in everFailed
  <1> DEFINE a == reply[r]
  <1>1. page \in PageShapes /\ a \in [status: Statuses, chat: Chats]
    BY DEF Shapes
  <1>2. WithChat(page, a.chat) \in PageShapes
    BY <1>1 DEF WithChat, PageShapes
  <1>3. /\ WithChat(page, a.chat).shown = page.shown
        /\ WithChat(page, a.chat).step = page.step
    BY <1>1 DEF WithChat, PageShapes
  <1>4. /\ a.status = "paid" \/ page.step = "done" =>
             page.shown \in Orders /\ order[page.shown] = "paid"
        /\ a.status = "failed" \/ page.step = "error" => page.shown \in everFailed
    BY DEF Truth, Says
  <1>5. CASE q = CheckedPage(page, a)
    <2> DEFINE w == WithChat(page, a.chat)
    <2>0. w.pollCount + 1 \in Nat /\ w \in PageShapes
      BY <1>2 DEF PageShapes
    <2>1. q \in PageShapes /\ q.shown = w.shown
      <3> HIDE DEF w
      <3>1. CASE a.status = "paid"
        BY <2>0, <1>5, <3>1 DEF CheckedPage, PageShapes, Steps, w
      <3>2. CASE a.status = "failed"
        BY <2>0, <1>5, <3>2 DEF CheckedPage, PageShapes, Steps, w
      <3>3. CASE a.status \notin {"paid", "failed"}
        BY <2>0, <1>5, <3>3 DEF CheckedPage, PageShapes, Steps, w
      <3> QED
        BY <3>1, <3>2, <3>3
    <2>2. q.step \in {w.step} \cup (IF a.status = "paid" THEN {"done"} ELSE
                                    IF a.status = "failed" THEN {"error"} ELSE {})
      BY <1>2, <1>5 DEF CheckedPage, PageShapes, Steps
    <2> QED
      BY <1>3, <1>4, <2>1, <2>2
  <1>6. CASE q = ManuallyCheckedPage(page, a)
    <2> DEFINE w == WithChat(page, a.chat)
    <2>1. q \in PageShapes /\ q.shown = w.shown
      BY <1>2, <1>6 DEF ManuallyCheckedPage, PageShapes, Steps
    <2>2. q.step \in {w.step} \cup (IF a.status = "paid" THEN {"done"} ELSE
                                    IF a.status = "failed" THEN {"error"} ELSE {})
      BY <1>2, <1>6 DEF ManuallyCheckedPage, PageShapes, Steps
    <2> QED
      BY <1>3, <1>4, <2>1, <2>2
  <1> QED
    BY <1>5, <1>6

-----------------------------------------------------------------------------
(* The return page *)

\* The rest of the journey does not move while the return page works.
Elsewhere == UNCHANGED <<formVars, journeyVars>>

\* A request is under way only on the return page.
LEMMA RequestsAreOfThePage ==
  ASSUME Whereabouts, NEW r \in Requests, hop[r] # FreeHop
  PROVE  place = "return" /\ page.shown \in Orders /\ page.shown # NoOrder
  BY ReturnConstants DEF Whereabouts, NoPage

\* A callback, the loop or an administrator settles an order.
LEMMA SettleSafe ==
  ASSUME JourneyInv, Elsewhere, NEW o \in Orders, SettleOrder(o)
  PROVE  JourneyInv'
  <1>1. PICK status \in SettledAs(order[o]) \ {order[o]} : SetStatus(o, status)
    BY DEF SettleOrder
  <1>2. status \in Statuses /\ order[o] # "paid"
    BY <1>1 DEF SettledAs, Statuses, JourneyInv, Shapes
  <1>3. /\ order' \in [Orders -> Statuses] /\ everFailed' \subseteq Orders
        /\ Grows /\ \A p \in Orders : p # o => order'[p] = order[p]
    BY <1>1, <1>2, SetGrows DEF JourneyInv
  <1>4. order[o] # "none" /\ UNCHANGED <<hop, chat, page, reply>>
    BY DEF SettleOrder, edgeVars
  <1>5. Shapes' /\ Whereabouts' /\ Truth'
    BY <1>3, <1>4, TruthGrows DEF JourneyInv, Shapes, Whereabouts, Elsewhere, formVars, journeyVars
  <1>6. OneOrder'
    BY <1>3, <1>4, OneOrderKept DEF JourneyInv, Grows, Elsewhere, formVars, journeyVars
  <1> QED
    BY <1>5, <1>6 DEF JourneyInv

\* The backend reads, and may settle, the order a poll asks about.
LEMMA ReadSafe ==
  ASSUME JourneyInv, Elsewhere, NEW r \in Requests, ReadStatus(r)
  PROVE  JourneyInv'
  <1> DEFINE o == page.shown
  <1>1. hop[r] # FreeHop
    BY DEF ReadStatus, Forward, FreeHop
  <1>2. place = "return" /\ o \in Orders /\ o # NoOrder
    BY <1>1, RequestsAreOfThePage DEF JourneyInv
  <1>3. PICK status \in IF order[o] = "pending" THEN SettledAs("pending") ELSE {order[o]} :
           /\ SetStatus(o, status)
           /\ reply' = [reply EXCEPT ![r] = [status |-> status, chat |-> "none"]]
    BY DEF ReadStatus
  <1>4. /\ status \in Statuses /\ (order[o] = "paid" => status = "paid")
        /\ order[o] = "none" => status = "none"
    BY <1>2, <1>3 DEF SettledAs, Statuses, JourneyInv, Shapes
  <1>5. /\ order' \in [Orders -> Statuses] /\ everFailed' \subseteq Orders
        /\ Grows /\ order'[o] = status /\ (status = "failed" => o \in everFailed')
        /\ \A p \in Orders : p # o => order'[p] = order[p]
    <2> HIDE DEF o
    <2> QED
      BY <1>2, <1>3, <1>4, SetGrows DEF JourneyInv
  <1>6. UNCHANGED <<chat, page>>
    BY DEF ReadStatus
  <1>7. Shapes'
    BY <1>3, <1>4, <1>5, <1>6 DEF JourneyInv, Shapes, Chats, Elsewhere, formVars, journeyVars
  <1>8. Whereabouts'
    BY <1>2, <1>6 DEF JourneyInv, Whereabouts, Elsewhere, formVars, journeyVars
  <1>9. Truth'
    <2>1. Says(page.step = "done", page.step = "error")'
      BY <1>5, <1>6 DEF JourneyInv, Truth, Says, Grows
    <2>2. ASSUME NEW s \in Requests
          PROVE  Says(reply[s].status = "paid", reply[s].status = "failed")'
      <3>1. CASE s = r
        <4>1. reply'[s].status = status
          BY <1>3, <3>1 DEF JourneyInv, Shapes
        <4> QED
          BY <1>2, <1>5, <1>6, <4>1 DEF Says
      <3>2. CASE s # r
        <4>1. reply'[s] = reply[s]
          BY <1>3, <3>2 DEF JourneyInv, Shapes
        <4> QED
          BY <1>5, <1>6, <4>1 DEF JourneyInv, Truth, Says, Grows
      <3> QED
        BY <3>1, <3>2
    <2> QED
      BY <2>1, <2>2 DEF Truth
  <1>10. OneOrder'
    BY <1>4, <1>5, OneOrderKept DEF JourneyInv, Grows, Elsewhere, formVars, journeyVars
  <1> QED
    BY <1>7, <1>8, <1>9, <1>10 DEF JourneyInv

\* Time passes, and the page may poll.
LEMMA TickSafe ==
  ASSUME JourneyInv, Elsewhere, Tick
  PROVE  JourneyInv'
  <1>1. UNCHANGED <<order, everFailed, chat, page, reply>>
    BY DEF Tick, serverVars, orderVars
  <1>2. page.shown = NoOrder => hop' = hop
    <2>1. page.shown = NoOrder => page = NoPage
      BY ReturnConstants DEF JourneyInv, Whereabouts
    <2> QED
      BY <2>1 DEF Tick, NoPage
  <1>3. Shapes' /\ Whereabouts'
    BY <1>1, <1>2 DEF JourneyInv, Shapes, Whereabouts, Elsewhere, formVars, journeyVars
  <1>4. Truth' /\ OneOrder'
    BY <1>1 DEF JourneyInv, Truth, Says, OneOrder, Elsewhere, formVars, journeyVars
  <1> QED
    BY <1>3, <1>4 DEF JourneyInv

\* The page asks by hand, the discussion opens, a request goes its way.
LEMMA HopsSafe ==
  ASSUME JourneyInv, Elsewhere, handleManualCheck \/ OpenDiscussion \/ \E r \in Requests : OnEdge(r)
  PROVE  JourneyInv'
  <1>1. UNCHANGED <<order, everFailed, reply>> /\ page.shown # NoOrder /\ chat' \in Chats
    BY DEF handleManualCheck, OpenDiscussion, OnEdge, serverVars, orderVars, Chats, JourneyInv, Shapes
  <1>2. page' = page \/ page' = [page EXCEPT !.checkingNow = TRUE]
    BY DEF handleManualCheck, OpenDiscussion, OnEdge
  <1>3. page' \in PageShapes /\ page'.shown = page.shown /\ page'.step = page.step
    BY <1>2 DEF JourneyInv, Shapes, PageShapes
  <1>4. place = "return"
    BY <1>1 DEF JourneyInv, Whereabouts, NoPage
  <1>5. Shapes' /\ Whereabouts'
    BY <1>1, <1>3, <1>4 DEF JourneyInv, Shapes, Whereabouts, Elsewhere, formVars, journeyVars
  <1>6. Truth' /\ OneOrder'
    BY <1>1, <1>3 DEF JourneyInv, Truth, Says, OneOrder, Elsewhere, formVars, journeyVars
  <1> QED
    BY <1>5, <1>6 DEF JourneyInv

\* The backend adds the session to the answer it prepares.
LEMMA SessionSafe ==
  ASSUME JourneyInv, Elsewhere, NEW r \in Requests, ReadSession(r)
  PROVE  JourneyInv'
  <1>1. hop[r] # FreeHop
    BY DEF ReadSession, RelayResponse, FreeHop
  <1>2. place = "return" /\ page.shown \in Orders /\ page.shown # NoOrder
    BY <1>1, RequestsAreOfThePage DEF JourneyInv
  <1>3. /\ UNCHANGED <<order, everFailed, chat, page>>
        /\ reply' = [reply EXCEPT ![r] = [reply[r] EXCEPT !.chat = chat]]
    BY DEF ReadSession, serverVars, orderVars
  <1>4. /\ reply' \in [Requests -> [status: Statuses, chat: Chats]]
        /\ \A s \in Requests : reply'[s].status = reply[s].status
    BY <1>3 DEF JourneyInv, Shapes
  <1>5. Shapes' /\ Whereabouts'
    BY <1>2, <1>3, <1>4 DEF JourneyInv, Shapes, Whereabouts, Elsewhere, formVars, journeyVars
  <1>6. Truth' /\ OneOrder'
    BY <1>3, <1>4 DEF JourneyInv, Truth, Says, OneOrder, Elsewhere, formVars, journeyVars
  <1> QED
    BY <1>5, <1>6 DEF JourneyInv

\* An answer or the lack of one reaches the page, whatever order they come in.
LEMMA DeliverSafe ==
  ASSUME JourneyInv, Elsewhere, NEW r \in Requests, Deliver(r) \/ DeliverError(r)
  PROVE  JourneyInv'
  <1>1. hop[r] # FreeHop
    BY DEF Deliver, DeliverError, Answered, Unanswered, FreeHop
  <1>2. place = "return" /\ page.shown \in Orders /\ page.shown # NoOrder
    BY <1>1, RequestsAreOfThePage DEF JourneyInv
  <1>3. /\ UNCHANGED <<order, everFailed, chat>>
        /\ reply' = [reply EXCEPT ![r] = NoReply]
    BY DEF Deliver, DeliverError, Release, serverVars, orderVars
  <1>4. /\ reply' \in [Requests -> [status: Statuses, chat: Chats]]
        /\ reply'[r] = NoReply
        /\ \A s \in Requests : s # r => reply'[s] = reply[s]
    BY <1>3 DEF JourneyInv, Shapes, NoReply, Statuses, Chats
  <1>5. /\ page' \in PageShapes /\ page'.shown = page.shown
        /\ Says(page'.step = "done", page'.step = "error")
    <2>1. CASE Deliver(r)
      <3>1. page' \in {CheckedPage(page, reply[r]), ManuallyCheckedPage(page, reply[r])}
        BY <2>1 DEF Deliver
      <3> QED
        BY <3>1, AnswersAreTrue DEF JourneyInv, Says
    <2>2. CASE DeliverError(r)
      <3>1. page' = page \/ page' = [page EXCEPT !.checkingNow = FALSE]
        BY <2>2 DEF DeliverError
      <3>2. page' \in PageShapes /\ page'.shown = page.shown /\ page'.step = page.step
        BY <3>1 DEF JourneyInv, Shapes, PageShapes
      <3> QED
        BY <3>2 DEF JourneyInv, Truth, Says
    <2> QED
      BY <2>1, <2>2
  <1>6. Shapes' /\ Whereabouts'
    BY <1>2, <1>3, <1>4, <1>5 DEF JourneyInv, Shapes, Whereabouts, Elsewhere, formVars, journeyVars
  <1>7. Truth'
    BY <1>3, <1>4, <1>5 DEF JourneyInv, Truth, Says, NoReply
  <1>8. OneOrder'
    BY <1>3 DEF JourneyInv, OneOrder, Elsewhere, formVars, journeyVars
  <1> QED
    BY <1>6, <1>7, <1>8 DEF JourneyInv

\* Every step of the return page.
LEMMA ReturnSafe ==
  ASSUME JourneyInv, OnReturn
  PROVE  JourneyInv'
  BY SettleSafe, ReadSafe, TickSafe, HopsSafe, SessionSafe, DeliverSafe
     DEF OnReturn, ReturnNext, Elsewhere

-----------------------------------------------------------------------------
(* The form and the way between the screens *)

\* Filling the form posts nothing, except by its button, which it disables.
LEMMA FormSteps ==
  ASSUME Shapes, FormStep
  PROVE  /\ "submitting" \in DOMAIN form' /\ "at" \in DOMAIN post'
         /\ \/ post' = post /\ form'.submitting = form.submitting
            \/ ~form.submitting /\ form'.submitting /\ post'.at = "sent"
  <1>1. CASE handleSubmit
    BY <1>1 DEF handleSubmit, CanSubmit, ConversationPost, OrderPost, NoPost, Shapes
  <1>2. CASE ~handleSubmit
    <2>1. post' = post
      BY <1>2 DEF FormStep, LoadConfig, FillDetails, TypeOtp, Unfold, ChooseMethod,
         handleCountryChange, ChangeBillingCountry, ChooseOperator, handlePhoneChange
    <2>2. "submitting" \in DOMAIN form' /\ form'.submitting = form.submitting
      BY <1>2 DEF FormStep, LoadConfig, FillDetails, TypeOtp, Unfold, ChooseMethod,
         handleCountryChange, ChangeBillingCountry, ChooseOperator, handlePhoneChange, Shapes
    <2> QED
      BY <2>1, <2>2 DEF Shapes
  <1> QED
    BY <1>1, <1>2

\* The buyer fills the form, or presses its button.
LEMMA OnFormSafe ==
  ASSUME JourneyInv, OnForm
  PROVE  JourneyInv'
  <1>1. /\ UNCHANGED <<order, everFailed, chat, page, reply, hop, place, posted, lost>>
        /\ place = "form" /\ FormStep
    BY DEF OnForm, returnVars, serverVars, orderVars, edgeVars, journeyVars
  <1>2. \/ post' = post /\ form'.submitting = form.submitting
        \/ post.at = "none" /\ form'.submitting /\ post'.at = "sent"
    BY <1>1, FormSteps DEF JourneyInv, Whereabouts
  <1>3. Shapes' /\ Whereabouts'
    BY <1>1, <1>2, FormSteps DEF JourneyInv, Shapes, Whereabouts
  <1>4. Truth' /\ OneOrder'
    BY <1>1, <1>2 DEF JourneyInv, Truth, Says, OneOrder
  <1> QED
    BY <1>3, <1>4 DEF JourneyInv

\* The backend creates the order posted, with or without accepting its payment.
LEMMA CreateSafe ==
  ASSUME JourneyInv, NEW o \in Orders, CreateOrder(o)
  PROVE  JourneyInv'
  <1>1. /\ post.at = "sent" /\ order[o] = "none" /\ posted' = o
        /\ chat' \in Chats
        /\ UNCHANGED <<form, hop, page, reply, place, lost>>
    BY DEF CreateOrder, edgeVars, Chats
  <1>2. PICK status \in {"pending", "failed"} :
           /\ SetStatus(o, status)
           /\ post' = [post EXCEPT !.at = IF status = "failed" THEN "refused" ELSE "created"]
    BY DEF CreateOrder
  <1>3. /\ order' \in [Orders -> Statuses] /\ everFailed' \subseteq Orders
        /\ Grows
        /\ status = "failed" => o \in everFailed'
        /\ \A p \in Orders : p # o => order'[p] = order[p]
    BY <1>1, <1>2, SetGrows DEF JourneyInv, Statuses
  <1>4. /\ "at" \in DOMAIN post'
        /\ post'.at = IF status = "failed" THEN "refused" ELSE "created"
    BY <1>2 DEF JourneyInv, Shapes
  <1>5. place = "form" /\ form.submitting
    BY <1>1 DEF JourneyInv, Whereabouts
  <1>6. Shapes' /\ Whereabouts'
    BY <1>1, <1>3, <1>4, <1>5 DEF JourneyInv, Shapes, Whereabouts
  <1>7. Truth'
    BY <1>1, <1>3, TruthGrows DEF JourneyInv
  <1>8. OneOrder'
    <2> SUFFICES ASSUME (everFailed \cup lost = {})'
                 PROVE  \A p \in Orders : order'[p] # "none" => post'.at = "created" /\ p = o
      BY <1>1, <1>5 DEF OneOrder
    <2>1. everFailed \cup lost = {} /\ status # "failed"
      BY <1>1, <1>3 DEF Grows
    <2>2. \A p \in Orders : order[p] = "none"
      BY <1>1, <1>5, <2>1 DEF JourneyInv, OneOrder
    <2> QED
      BY <1>3, <1>4, <2>1, <2>2
  <1> QED
    BY <1>6, <1>7, <1>8 DEF JourneyInv

\* The backend refuses the post and creates nothing.
LEMMA RefuseSafe ==
  ASSUME JourneyInv, RefuseOrder
  PROVE  JourneyInv'
  <1>1. /\ post.at = "sent" /\ post' = [post EXCEPT !.at = "refused"]
        /\ UNCHANGED <<form, order, everFailed, chat, page, reply, hop, place, posted, lost>>
    BY DEF RefuseOrder, returnVars, serverVars, orderVars, edgeVars, journeyVars
  <1>2. "at" \in DOMAIN post' /\ post'.at = "refused"
    BY <1>1 DEF JourneyInv, Shapes
  <1>3. Shapes' /\ Whereabouts'
    BY <1>1, <1>2 DEF JourneyInv, Shapes, Whereabouts
  <1>4. Truth' /\ OneOrder'
    BY <1>1, <1>2 DEF JourneyInv, Truth, Says, OneOrder
  <1> QED
    BY <1>3, <1>4 DEF JourneyInv

\* A blank form has posted nothing.
LEMMA BlankForms ==
  ASSUME NEW kind, form' = BlankForm(kind), post' = NoPost
  PROVE  /\ "submitting" \in DOMAIN form' /\ "at" \in DOMAIN post'
         /\ post'.at = "none"
  BY DEF BlankForm, NoPost

\* Neither page shows anything before it has an answer.
LEMMA NothingShown ==
  /\ NoPage \in PageShapes /\ NoPage.step = "pending" /\ NoPage.shown = NoOrder
  /\ NoReply \in [status: Statuses, chat: Chats] /\ NoReply.status = "none"
  BY DEF NoPage, PageShapes, Steps, Chats, NoReply, Statuses

\* The browser goes from the form to the page that waits.
LEMMA RedirectSafe ==
  ASSUME JourneyInv, Redirect
  PROVE  JourneyInv'
  <1>1. /\ post.at = "created" /\ place = "form" /\ place' = "return" /\ posted' = NoOrder
        /\ form' = BlankForm(form.kind) /\ post' = NoPost
        /\ page' = [NoPage EXCEPT !.shown = posted, !.polling = TRUE]
        /\ UNCHANGED <<order, everFailed, chat, reply, lost>>
    BY DEF Redirect, OpenForm, OpenReturn, serverVars, orderVars
  <1>2. posted \in Orders /\ page = NoPage /\ \A r \in Requests : reply[r] = NoReply
    BY <1>1 DEF JourneyInv, Whereabouts, NoPage
  <1>3. page' \in PageShapes /\ page'.shown = posted /\ page'.step = "pending"
    BY <1>1, <1>2 DEF NoPage, PageShapes, Steps, Chats
  <1>4. posted # NoOrder
    BY <1>2, ReturnConstants
  <1>5. "submitting" \in DOMAIN form' /\ "at" \in DOMAIN post' /\ post'.at = "none"
    BY <1>1, BlankForms
  <1>6. Shapes'
    BY <1>1, <1>3, <1>5 DEF JourneyInv, Shapes
  <1>7. Whereabouts'
    BY <1>1, <1>2, <1>3, <1>4, <1>5 DEF Whereabouts
  <1>8. Truth'
    BY <1>1, <1>2, <1>3, NothingShown DEF Truth, Says
  <1>9. OneOrder'
    BY <1>1 DEF JourneyInv, OneOrder
  <1> QED
    BY <1>6, <1>7, <1>8, <1>9 DEF JourneyInv

\* The form shows an error: an order may exist that its page will never hear of.
LEMMA ErrorSafe ==
  ASSUME JourneyInv, ShowFormError
  PROVE  JourneyInv'
  <1>1. /\ place = "form" /\ posted' = NoOrder /\ chat' = "none" /\ post' = NoPost
        /\ form' = [form EXCEPT !.submitting = FALSE]
        /\ lost' = IF post.at = "created" THEN lost \cup {posted} ELSE lost
        /\ UNCHANGED <<order, everFailed, page, reply, hop, place>>
    BY DEF ShowFormError, SubmitFails, orderVars, edgeVars
  <1>2. "submitting" \in DOMAIN form' /\ "at" \in DOMAIN post' /\ post'.at = "none"
    BY <1>1 DEF JourneyInv, Shapes, NoPost
  <1>3. Shapes' /\ Whereabouts'
    BY <1>1, <1>2 DEF JourneyInv, Shapes, Whereabouts, Chats
  <1>4. Truth' /\ OneOrder'
    BY <1>1 DEF JourneyInv, Truth, Says, OneOrder
  <1> QED
    BY <1>3, <1>4 DEF JourneyInv

\* The buyer leaves the return page, to pay again only after a failure.
LEMMA LeavingSafe ==
  ASSUME JourneyInv, Retry \/ LeaveForGood
  PROVE  JourneyInv'
  <1>1. /\ place = "return" /\ page' = NoPage /\ chat' = "none"
        /\ hop' = [r \in Requests |-> FreeHop] /\ reply' = [r \in Requests |-> NoReply]
        /\ UNCHANGED <<order, everFailed, posted, lost>>
    BY DEF Retry, LeaveForGood, LeaveReturn, orderVars
  <1>2. post.at = "none"
    BY <1>1 DEF JourneyInv, Whereabouts
  <1>3. "submitting" \in DOMAIN form' /\ "at" \in DOMAIN post' /\ post'.at = "none"
    <2>1. CASE Retry
      BY <2>1, BlankForms DEF Retry, OpenForm
    <2>2. CASE LeaveForGood
      BY <1>2, <2>2 DEF LeaveForGood, formVars, JourneyInv, Shapes
    <2> QED
      BY <2>1, <2>2
  <1>4. place' \in {"form", "elsewhere"} /\ (place' = "form" => page.shown \in everFailed)
    BY DEF Retry, LeaveForGood, Screen, JourneyInv, Truth, Says
  <1>5. Shapes'
    BY <1>1, <1>3, <1>4, NothingShown DEF JourneyInv, Shapes, Chats
  <1>6. Whereabouts'
    BY <1>1, <1>3, <1>4 DEF Whereabouts
  <1>7. Truth'
    BY <1>1, NothingShown DEF Truth, Says
  <1>8. OneOrder'
    BY <1>1, <1>4 DEF JourneyInv, OneOrder
  <1> QED
    BY <1>5, <1>6, <1>7, <1>8 DEF JourneyInv

-----------------------------------------------------------------------------
(* Polling *)

\* An answer stops the polls when it fails the page or ends their count, and
\* never starts them again.
LEMMA AnswersStopPolls ==
  ASSUME Shapes, PollInv, place = "return", NEW r \in Requests, Deliver(r) \/ DeliverError(r)
  PROVE  /\ page'.step = "pending" /\ ~page'.timedOut => page'.polling
         /\ page'.polling => page'.step # "error" /\ ~page'.timedOut
         /\ page.timedOut => page'.timedOut
  <1> DEFINE a == reply[r]
             w == WithChat(page, a.chat)
  <1>1. page \in PageShapes /\ a.chat \in Chats
    BY DEF Shapes
  <1>2. w \in PageShapes
    BY <1>1 DEF WithChat, PageShapes
  <1>3. w.step = page.step /\ w.polling = page.polling /\ w.timedOut = page.timedOut
    BY <1>1 DEF WithChat, PageShapes
  <1>4. /\ page.step = "pending" /\ ~page.timedOut => page.polling
        /\ page.polling => page.step # "error" /\ ~page.timedOut
    BY DEF PollInv, PollsWhileUseful
  <1>5. CASE Deliver(r) /\ r \in byHand
    <2>1. page' = ManuallyCheckedPage(page, a)
      BY <1>5 DEF Deliver
    <2>2. page'.polling = w.polling /\ page'.timedOut = w.timedOut
      BY <1>2, <2>1 DEF ManuallyCheckedPage, PageShapes
    <2>3. page.timedOut /\ ~page.polling
      BY <1>4, <1>5 DEF PollInv
    <2> QED
      BY <1>3, <2>2, <2>3
  <1>6. CASE Deliver(r) /\ r \notin byHand
    <2>1. page' = CheckedPage(page, a)
      BY <1>6 DEF Deliver
    <2>2. CASE a.status = "paid"
      <3>1. /\ page'.step = "done" /\ page'.timedOut = w.timedOut
            /\ page'.polling = (w.polling /\ a.chat = "opening")
        BY <1>2, <2>1, <2>2 DEF CheckedPage, PageShapes
      <3> QED
        BY <1>3, <1>4, <3>1
    <2>3. CASE a.status = "failed"
      <3>1. page'.step = "error" /\ page'.timedOut = w.timedOut /\ page'.polling = FALSE
        BY <1>2, <2>1, <2>3 DEF CheckedPage, PageShapes
      <3> QED
        BY <1>3, <3>1
    <2>4. CASE a.status \notin {"paid", "failed"}
      <3> DEFINE n == w.pollCount + 1
      <3>1. /\ page'.step = w.step
            /\ page'.polling = (w.polling /\ n < MaxAutoPolls)
            /\ page'.timedOut = (w.timedOut \/ n >= MaxAutoPolls)
        BY <1>2, <2>1, <2>4 DEF CheckedPage, PageShapes
      <3>2. n \in Nat /\ MaxAutoPolls \in Nat
        BY <1>2, ReturnConstants DEF PageShapes
      <3>3. (n < MaxAutoPolls) = ~(n >= MaxAutoPolls)
        BY <3>2
      <3> HIDE DEF n, w, a
      <3> QED
        BY <1>3, <1>4, <3>1, <3>3
    <2> QED
      BY <2>2, <2>3, <2>4
  <1>7. CASE DeliverError(r)
    <2>1. page' = page \/ page' = [page EXCEPT !.checkingNow = FALSE]
      BY <1>7 DEF DeliverError
    <2>2. page'.step = page.step /\ page'.polling = page.polling /\ page'.timedOut = page.timedOut
      BY <1>1, <2>1 DEF PageShapes
    <2> QED
      BY <1>4, <2>2
  <1> QED
    BY <1>5, <1>6, <1>7

\* Polling is what the state of the page calls for, through every step.
LEMMA PollsSafe ==
  ASSUME JourneyInv, PollInv, [Next]_vars
  PROVE  PollInv'
  <1>1. CASE UNCHANGED <<page, byHand, place>>
    BY <1>1 DEF PollInv, PollsWhileUseful
  <1>2. CASE OnReturn /\ handleManualCheck
    <2>1. /\ page' = [page EXCEPT !.checkingNow = TRUE] /\ Screen = "late"
          /\ UNCHANGED place
      BY <1>2 DEF OnReturn, handleManualCheck, journeyVars
    <2>2. page.timedOut
      BY <2>1 DEF Screen
    <2>3. page'.step = page.step /\ page'.polling = page.polling /\ page'.timedOut = page.timedOut
      BY <2>1 DEF JourneyInv, Shapes, PageShapes
    <2> QED
      BY <2>1, <2>2, <2>3 DEF PollInv, PollsWhileUseful
  <1>3. ASSUME NEW r \in Requests, OnReturn, Deliver(r) \/ DeliverError(r)
        PROVE  PollInv'
    <2>1. hop[r] # FreeHop
      BY <1>3 DEF Deliver, DeliverError, Answered, Unanswered, FreeHop
    <2>2. place = "return"
      BY <2>1, RequestsAreOfThePage DEF JourneyInv
    <2>3. UNCHANGED place /\ byHand' \subseteq byHand
      BY <1>3 DEF OnReturn, journeyVars, Deliver, DeliverError, Release
    <2> QED
      BY <1>3, <2>2, <2>3, AnswersStopPolls DEF JourneyInv, PollInv, PollsWhileUseful
  <1>4. CASE Redirect
    <2>1. /\ page' = [NoPage EXCEPT !.shown = posted, !.polling = TRUE]
          /\ byHand' = byHand /\ place = "form"
      BY <1>4 DEF Redirect, OpenReturn, Send
    <2>2. byHand = {}
      BY <2>1 DEF JourneyInv, Whereabouts, PollInv, NoPage
    <2> QED
      BY <2>1, <2>2 DEF PollInv, PollsWhileUseful, NoPage
  <1>5. CASE Retry \/ LeaveForGood
    BY <1>5 DEF Retry, LeaveForGood, LeaveReturn, PollInv, PollsWhileUseful
  <1>6. \/ UNCHANGED <<page, byHand, place>>
        \/ OnReturn /\ handleManualCheck
        \/ \E r \in Requests : OnReturn /\ (Deliver(r) \/ DeliverError(r))
        \/ Redirect \/ Retry \/ LeaveForGood
    BY DEF Next, vars, OnForm, RefuseOrder, ShowFormError, CreateOrder, OnReturn, ReturnNext,
       Tick, OpenDiscussion, SettleOrder, OnEdge, ReadStatus, ReadSession, returnVars, journeyVars
  <1> QED
    BY <1>1, <1>2, <1>3, <1>4, <1>5, <1>6

-----------------------------------------------------------------------------
(* The theorems *)

\* A journey begins on a blank form, with no order.
LEMMA InitSafe == Init => JourneyInv
  <1> SUFFICES ASSUME Init PROVE JourneyInv
    OBVIOUS
  <1>1. /\ order = [o \in Orders |-> "none"] /\ everFailed = {} /\ chat = "none"
        /\ page = NoPage /\ reply = [r \in Requests |-> NoReply]
        /\ hop = [r \in Requests |-> FreeHop] /\ place = "form"
        /\ lost = {}
    BY DEF Init, ReturnInit, EdgeInit
  <1>2. "submitting" \in DOMAIN form /\ "at" \in DOMAIN post /\ post.at = "none"
    BY DEF Init, FormInit, BlankForm, NoPost
  <1> QED
    BY <1>1, <1>2, NothingShown
    DEF JourneyInv, Shapes, Whereabouts, Truth, Says, OneOrder, Statuses, Chats

\* What the pages say is true and the orders are one at every moment of a journey.
THEOREM Invariance == Spec => []JourneyInv
  <1>1. JourneyInv /\ [Next]_vars => JourneyInv'
    <2> SUFFICES ASSUME JourneyInv, [Next]_vars PROVE JourneyInv'
      OBVIOUS
    <2>1. CASE UNCHANGED vars
      BY <2>1 DEF vars, formVars, returnVars, journeyVars, edgeVars, serverVars, orderVars,
         JourneyInv, Shapes, Whereabouts, Truth, Says, OneOrder
    <2> QED
      BY <2>1, OnFormSafe, RefuseSafe, RedirectSafe, ErrorSafe, LeavingSafe, CreateSafe,
         ReturnSafe DEF Next
  <1> QED
    BY <1>1, InitSafe, PTL DEF Spec

\* The return page says "paid" only of a paid order and "failed" only of one that
\* has been failed, however late, disordered or lost the answers to its polls
\* (check and handleManualCheck, return-view.tsx).
THEOREM TruthTold == Spec => []ScreenTellsTheTruth
  <1>1. JourneyInv => ScreenTellsTheTruth
    BY DEF JourneyInv, Truth, Says, ScreenTellsTheTruth
  <1> QED
    BY <1>1, Invariance, PTL

\* A buyer pays twice in one journey only if an order of theirs had been failed in
\* the database or its creation was answered by silence: no other path of the two
\* pages leads back to the form with an order alive.
THEOREM TwiceOnlyAfterFailure == Spec => []ChargedTwiceOnlyAfterFailure
  <1>1. JourneyInv => ChargedTwiceOnlyAfterFailure
    <2> SUFFICES ASSUME JourneyInv,
                        ~ \E o \in Orders : o \in everFailed \cup lost,
                        Cardinality({o \in Orders : order[o] = "paid"}) > 1
                 PROVE  FALSE
      BY DEF ChargedTwiceOnlyAfterFailure
    <2> DEFINE Paid == {o \in Orders : order[o] = "paid"}
    <2>1. everFailed \cup lost = {}
      BY DEF JourneyInv, Shapes
    <2>2. \A o, p \in Paid : o = p
      BY <2>1 DEF JourneyInv, OneOrder
    <2>3. CASE Paid = {}
      <3>1. Cardinality(Paid) = 0
        BY <2>3, FS_EmptySet
      <3> QED
        BY <3>1
    <2>4. CASE Paid # {}
      <3>1. PICK o \in Paid : TRUE
        BY <2>4
      <3>2. Paid = {o}
        BY <2>2, <3>1
      <3>3. Cardinality(Paid) = 1
        BY <3>2, FS_Singleton
      <3> QED
        BY <3>3
    <2> QED
      BY <2>3, <2>4
  <1> QED
    BY <1>1, Invariance, PTL

\* A page that waits for its payment keeps polling, and one that failed or gave up
\* never does, whatever answers are lost, late or asked for by hand (return-view.tsx).
THEOREM PollsUseful == Spec => []PollsWhileUseful
  <1>1. Init => PollInv
    BY DEF Init, ReturnInit, PollInv, PollsWhileUseful
  <1>2. JourneyInv /\ PollInv /\ [Next]_vars => PollInv'
    BY PollsSafe
  <1>3. PollInv => PollsWhileUseful
    BY DEF PollInv
  <1> QED
    BY <1>1, <1>2, <1>3, Invariance, PTL DEF Spec
-----------------------------------------------------------------------------
(* The orders.  What the journey supposes of the backend, and what it does to  *)
(* the orders itself, is what OrderOutcome says of them.                       *)

Outcome == INSTANCE OrderOutcome WITH outcome <- order

\* Whatever may become of an order at the backend (callbacks, the loop, administrators,
\* the poll itself), SettledAs allows, as far as buyers follow it.
THEOREM EnvironmentCovered ==
  ASSUME NEW m \in Outcome!Moves, m[1] # "none"
  PROVE  Outcome!Followed(m[2]) \in SettledAs(Outcome!Followed(m[1]))
  BY DEF Outcome!Moves, Outcome!Placed, Outcome!Settled, Outcome!Returned, Outcome!Followed,
         SettledAs

\* The journey moves one order at a time, along OrderOutcome.
LEMMA OrdersMove ==
  ASSUME JourneyInv, [Next]_vars
  PROVE  \/ order' = order
         \/ \E o \in Orders, m \in Outcome!Moves :
               order[o] = m[1] /\ order' = [order EXCEPT ![o] = m[2]]
  <1> DEFINE Goes(o, status) == \/ order' = order
                                \/ /\ <<order[o], status>> \in Outcome!Moves
                                   /\ order' = [order EXCEPT ![o] = status]
  <1>t. order \in [Orders -> Statuses]
    BY DEF JourneyInv, Shapes
  <1>1. ASSUME NEW o \in Orders, CreateOrder(o)
        PROVE  Goes(o, "pending") \/ Goes(o, "failed")
    BY <1>1 DEF CreateOrder, SetStatus, Outcome!Moves, Outcome!Placed
  <1>2. ASSUME NEW o \in Orders, NEW status \in SettledAs(order[o]), SetStatus(o, status)
        PROVE  Goes(o, status)
    BY <1>t, <1>2 DEF SettledAs, SetStatus, Outcome!Moves, Outcome!Settled, Statuses
  <1>3. ASSUME NEW o \in Orders, SettleOrder(o)
        PROVE  \E status \in SettledAs(order[o]) : Goes(o, status)
    BY <1>2, <1>3 DEF SettleOrder
  <1>4. ASSUME NEW r \in Requests, ReadStatus(r)
        PROVE  \E status \in SettledAs(order[page.shown]) : page.shown \in Orders /\ Goes(page.shown, status)
    <2>1. page.shown \in Orders
      BY <1>4, RequestsAreOfThePage DEF JourneyInv, ReadStatus, Forward, FreeHop
    <2>2. PICK status \in IF order[page.shown] = "pending" THEN SettledAs("pending")
                          ELSE {order[page.shown]} : SetStatus(page.shown, status)
      BY <1>4 DEF ReadStatus
    <2>3. status \in SettledAs(order[page.shown])
      BY <2>2 DEF SettledAs
    <2> QED
      BY <1>2, <2>1, <2>2, <2>3
  <1>5. \/ order' = order
        \/ \E o \in Orders : CreateOrder(o) \/ SettleOrder(o)
        \/ \E r \in Requests : ReadStatus(r)
    BY DEF Next, vars, OnForm, RefuseOrder, ShowFormError, Redirect, Retry, LeaveForGood,
       OnReturn, ReturnNext, Tick, handleManualCheck, OpenDiscussion, OnEdge, ReadSession, Deliver,
       DeliverError, returnVars, serverVars, orderVars
  <1>6. order' = order \/ \E o \in Orders : \E status : Goes(o, status)
    <2> HIDE DEF Goes
    <2> QED
      BY <1>1, <1>3, <1>4, <1>5
  <1>7. ASSUME NEW o \in Orders, NEW status, <<order[o], status>> \in Outcome!Moves
        PROVE  \E m \in Outcome!Moves : order[o] = m[1] /\ status = m[2]
    BY <1>7
  <1> QED
    BY <1>6, <1>7

\* The journey implements OrderOutcome: the orders it shows, retries and polls are
\* moved as the sales are.
THEOREM OrdersKeepOutcome == Spec => Outcome!Spec
  <1>1. Init => Outcome!Init
    BY DEF Init, ReturnInit, Outcome!Init
  <1>2. JourneyInv /\ [Next]_vars => [Outcome!Next]_order
    BY OrdersMove DEF Outcome!Next, Outcome!Move
  <1> QED
    BY <1>1, <1>2, Invariance, PTL DEF Spec, Outcome!Spec

-----------------------------------------------------------------------------
(* The form *)

\* A set of places has a first one.
LEMMA FirstPlace ==
  ASSUME NEW S \in SUBSET Nat, S # {}
  PROVE  \E i \in S : \A j \in S : i <= j
  <1> DEFINE R == {ss \in Nat \X Nat : ss[1] < ss[2]}
  <1>1. IsWellFoundedOn(R, Nat)
    BY NatLessThanWellFounded DEF OpToRel
  <1>2. \E i \in S : \A j \in S : ~ (<<j, i>> \in R)
    <2> HIDE DEF R
    <2> QED
      BY <1>1, WFMin
  <1>3. ASSUME NEW i \in S, NEW j \in S, <<j, i>> \notin R
        PROVE  i <= j
    <2>1. <<j, i>> \in Nat \X Nat /\ <<j, i>>[1] = j /\ <<j, i>>[2] = i
      OBVIOUS
    <2>2. ~ (j < i)
      BY <1>3, <2>1
    <2> QED
      BY <2>2
  <1> QED
    BY <1>2, <1>3

\* The first operator shown is one of those shown.
LEMMA FirstIsShown ==
  ASSUME NEW c \in Countries
  PROVE  FirstOperator(c) \in Shown(c) \cup {NoOperator}
  <1> DEFINE all == PawaPayOperators[c] \o PayDunyaOperators[c]
             places == {i \in DOMAIN all : all[i] \in Shown(c)}
  <1>1. PawaPayOperators[c] \in Seq(STRING) /\ PayDunyaOperators[c] \in Seq(STRING)
    BY FormConstants
  <1>2. all \in Seq(STRING)
    BY <1>1
  <1> HIDE DEF all
  <1>3. DOMAIN all = 1..Len(all) /\ Len(all) \in Nat
    BY <1>2
  <1>4. places \in SUBSET Nat
    BY <1>3
  <1>5. CASE places # {}
    <2> DEFINE i == CHOOSE p \in places : \A q \in places : p <= q
    <2>1. \E p \in places : \A q \in places : p <= q
      BY <1>4, <1>5, FirstPlace
    <2>2. i \in places
      BY <2>1
    <2>3. all[i] \in Shown(c)
      BY <2>2
    <2> QED
      BY <1>5, <2>3 DEF FirstOperator, all
  <1>6. CASE places = {}
    BY <1>6 DEF FirstOperator, all
  <1> QED
    BY <1>5, <1>6

\* The operators shown are of the country's list.
LEMMA ShownAre ==
  ASSUME NEW c \in Countries
  PROVE  /\ Shown(c) \subseteq AllOperators /\ Shown(c) \subseteq config.offered
         /\ Shown(c) \subseteq LogicalOperators(c)
         /\ OperatorAfter(c) \in Shown(c) \cup {NoOperator}
  BY FirstIsShown DEF Shown, AllOperators, OperatorAfter

\* A form holds an operator of its country, or none; without the card tab it holds a
\* number typed under its country; and what it has posted is acceptable.
FormSound ==
    /\ form.operator = NoOperator \/ form.operator \in Shown(form.country)
    /\ form.kind = "chat" => form.method = "mobile_money"
    /\ ~config.cards => form.method = "mobile_money" /\ form.phone.typedFor = form.country
    /\ post.at = "sent" => AcceptsPayment(post)
    /\ post.at = "sent" /\ post.method = "mobile_money" =>
         config # NoConfig /\ (~config.cards => post.phone.typedFor = post.country)

FormInv == FormTypeOK /\ FormSound

\* The lists arrive on a form that had none, and that has posted no payment by phone.
LEMMA ConfigArrives ==
  ASSUME FormInv, LoadConfig
  PROVE  FormInv'
  <1>1. config = NoConfig /\ config' \in Configs /\ UNCHANGED <<form, post>>
    BY JourneyConstants DEF LoadConfig
  <1>2. config.offered = {} /\ config.cards = FALSE
    BY <1>1 DEF NoConfig
  <1>3. form.operator = NoOperator
    BY <1>2 DEF FormInv, FormSound, Shown
  <1>4. post.at = "sent" => post.method # "mobile_money"
    BY <1>1 DEF FormInv, FormSound
  <1>5. FormSound'
    BY <1>1, <1>2, <1>3, <1>4 DEF FormInv, FormSound, AcceptsPayment
  <1> QED
    BY <1>1, <1>5 DEF FormInv, FormTypeOK

\* What the buyer types and chooses.
LEMMA FormFilled ==
  ASSUME FormInv,
         \/ FillDetails \/ TypeOtp \/ Unfold
         \/ \E m \in Methods : ChooseMethod(m)
         \/ \E c \in Countries : handleCountryChange(c) \/ ChangeBillingCountry(c)
         \/ \E o \in AllOperators : ChooseOperator(o)
         \/ \E d \in {0, PhoneLength[form.country] - 1, PhoneLength[form.country]} : handlePhoneChange(d)
  PROVE  FormInv'
  <1>1. UNCHANGED <<config, post>> /\ form \in Forms
    BY DEF FillDetails, TypeOtp, Unfold, ChooseMethod, handleCountryChange, ChangeBillingCountry,
       ChooseOperator, handlePhoneChange, FormInv, FormTypeOK
  <1>2. \A c : Shown(c)' = Shown(c)
    BY <1>1 DEF Shown
  <1>3. \A p : AcceptsPayment(p)' <=> AcceptsPayment(p)
    BY <1>1 DEF AcceptsPayment
  <1>4. ASSUME form' \in Forms, form'.operator = NoOperator \/ form'.operator \in Shown(form'.country),
               form'.kind = form.kind,
               form.kind = "chat" => form'.method = form.method,
               ~config.cards => form'.method = "mobile_money" /\ form'.phone.typedFor = form'.country
        PROVE  FormInv'
    BY <1>1, <1>2, <1>3, <1>4 DEF FormInv, FormTypeOK, FormSound
  <1>5. CASE FillDetails \/ TypeOtp \/ Unfold
    <2>1. /\ form' \in Forms
          /\ form'.operator = form.operator /\ form'.country = form.country /\ form'.kind = form.kind
          /\ form'.method = form.method /\ form'.phone = form.phone
      BY <1>1, <1>5 DEF FillDetails, TypeOtp, Unfold, Forms
    <2> QED
      BY <1>4, <2>1 DEF FormInv, FormSound
  <1>6. ASSUME NEW m \in Methods, ChooseMethod(m)
        PROVE  FormInv'
    <2>1. form' = [form EXCEPT !.method = m] /\ form.kind = "checkout" /\ m # form.method
          /\ (m = "card" => config.cards)
      BY <1>6 DEF ChooseMethod
    <2>2. /\ form' \in Forms
          /\ form'.operator = form.operator /\ form'.country = form.country /\ form'.kind = form.kind
          /\ form'.method = m /\ form'.phone = form.phone
      BY <1>1, <2>1 DEF Forms
    <2> QED
      BY <1>4, <2>1, <2>2 DEF FormInv, FormSound, Methods
  <1>7. ASSUME NEW c \in Countries, handleCountryChange(c)
        PROVE  FormInv'
    <2>1. form' = [form EXCEPT !.country = c, !.operator = OperatorAfter(c),
                               !.phone = [typedFor |-> c, digits |-> 0]]
      BY <1>7 DEF handleCountryChange
    <2>2. OperatorAfter(c) \in AllOperators \cup {NoOperator} /\ [typedFor |-> c, digits |-> 0] \in Phones
      BY ShownAre DEF Phones
    <2>3. /\ form' \in Forms
          /\ form'.operator = OperatorAfter(c) /\ form'.country = c /\ form'.kind = form.kind
          /\ form'.method = form.method /\ form'.phone = [typedFor |-> c, digits |-> 0]
      BY <1>1, <2>1, <2>2 DEF Forms
    <2> QED
      BY <1>4, <2>3, ShownAre DEF FormInv, FormSound
  <1>8. ASSUME NEW c \in Countries, ChangeBillingCountry(c)
        PROVE  FormInv'
    <2>1. form' = [form EXCEPT !.country = c, !.operator = OperatorAfter(c)] /\ form.method = "card"
      BY <1>8 DEF ChangeBillingCountry
    <2>2. OperatorAfter(c) \in AllOperators \cup {NoOperator}
      BY ShownAre
    <2>3. /\ form' \in Forms
          /\ form'.operator = OperatorAfter(c) /\ form'.country = c /\ form'.kind = form.kind
          /\ form'.method = form.method
      BY <1>1, <2>1, <2>2 DEF Forms
    <2>4. config.cards
      BY <2>1 DEF FormInv, FormSound, FormTypeOK, Configs
    <2> QED
      BY <1>4, <2>3, <2>4, ShownAre
  <1>9. ASSUME NEW o \in AllOperators, ChooseOperator(o)
        PROVE  FormInv'
    <2>1. form' = [form EXCEPT !.operator = o] /\ o \in Shown(form.country)
      BY <1>9 DEF ChooseOperator
    <2>2. /\ form' \in Forms
          /\ form'.operator = o /\ form'.country = form.country /\ form'.kind = form.kind
          /\ form'.method = form.method /\ form'.phone = form.phone
      BY <1>1, <2>1 DEF Forms
    <2> QED
      BY <1>4, <2>1, <2>2 DEF FormInv, FormSound
  <1>10. ASSUME NEW d \in {0, PhoneLength[form.country] - 1, PhoneLength[form.country]}, handlePhoneChange(d)
         PROVE  FormInv'
    <2>1. form' = [form EXCEPT !.phone = [typedFor |-> form.country, digits |-> d]]
      BY <1>10 DEF handlePhoneChange
    <2>2. form.country \in Countries /\ PhoneLength[form.country] \in Nat \ {0}
      BY <1>1, FormConstants DEF Forms
    <2>3. [typedFor |-> form.country, digits |-> d] \in Phones
      BY <2>2 DEF Phones
    <2>4. /\ form' \in Forms
          /\ form'.operator = form.operator /\ form'.country = form.country /\ form'.kind = form.kind
          /\ form'.method = form.method /\ form'.phone = [typedFor |-> form.country, digits |-> d]
      BY <1>1, <2>1, <2>3 DEF Forms
    <2> QED
      BY <1>4, <2>4 DEF FormInv, FormSound
  <1> QED
    BY <1>5, <1>6, <1>7, <1>8, <1>9, <1>10

\* The buyer presses the button: what is posted is what the form had to validate.
LEMMA FormPosted ==
  ASSUME FormInv, handleSubmit
  PROVE  FormInv'
  <1>1. /\ config' = config /\ form' = [form EXCEPT !.submitting = TRUE] /\ form \in Forms
        /\ MobileMoneyValid
    BY DEF handleSubmit, CanSubmit, CanPay, CanCheckout, FormInv, FormTypeOK
  <1>2. /\ form' \in Forms
        /\ form'.operator = form.operator /\ form'.country = form.country /\ form'.kind = form.kind
        /\ form'.method = form.method /\ form'.phone = form.phone
    BY <1>1 DEF Forms
  <1> DEFINE p == ConversationPost
             q == [NoPost EXCEPT !.at = "sent", !.country = form.country, !.method = form.method]
             Posts == [at: {"none", "sent", "created", "refused"}, country: Countries, method: Methods,
                       operator: AllOperators \cup {NoOperator}, phone: Phones, otp: BOOLEAN]
  <1>3. NoPost \in Posts
    BY FormConstants DEF NoPost, Methods, Phones
  <1>4. form.country \in Countries /\ form.method \in Methods /\ form.phone \in Phones
        /\ form.operator \in AllOperators \cup {NoOperator} /\ form.otp \in BOOLEAN
    BY <1>1 DEF Forms
  <1>5. /\ p \in Posts /\ p.at = "sent" /\ p.country = form.country /\ p.method = "mobile_money"
        /\ p.operator = form.operator /\ p.phone = form.phone
        /\ p.otp = (form.operator \in config.otpFor /\ form.otp)
    BY <1>3, <1>4 DEF ConversationPost, NoPost, Methods
  <1>6. q \in Posts /\ q.at = "sent" /\ q.method = form.method
    BY <1>3, <1>4 DEF NoPost
  <1>7. CASE form.method = "mobile_money"
    <2>1. post' = p
      BY <1>7 DEF handleSubmit, OrderPost
    <2>2. /\ form.operator # NoOperator /\ form.phone.digits = PhoneLength[form.country]
          /\ form.operator \in config.otpFor => form.otp
      BY <1>1, <1>7 DEF MobileMoneyValid
    <2>3. form.operator \in config.offered /\ form.operator \in LogicalOperators(form.country)
      BY <1>4, <2>2, ShownAre DEF FormInv, FormSound
    <2>4. AcceptsPayment(p) /\ config # NoConfig
      <3> HIDE DEF p
      <3> QED
        BY <1>5, <2>2, <2>3 DEF AcceptsPayment, NoConfig
    <2>5. FormSound'
      <3> HIDE DEF p
      <3> QED
        BY <1>1, <1>2, <1>5, <2>1, <2>4 DEF FormInv, FormSound, AcceptsPayment, Shown
    <2> QED
      BY <1>1, <1>2, <1>5, <2>1, <2>5 DEF FormInv, FormTypeOK
  <1>8. CASE form.method # "mobile_money"
    <2>1. post' = q
      BY <1>8 DEF handleSubmit, OrderPost, FormInv, FormSound
    <2>2. FormSound'
      <3> HIDE DEF q
      <3> QED
        BY <1>1, <1>2, <1>6, <1>8, <2>1 DEF FormInv, FormSound, AcceptsPayment, Shown
    <2> QED
      BY <1>1, <1>2, <1>6, <2>1, <2>2 DEF FormInv, FormTypeOK
  <1> QED
    BY <1>7, <1>8

\* A blank form.
LEMMA FormOpens ==
  ASSUME NEW kind \in Kinds, OpenForm(kind)
  PROVE  FormInv'
  <1>1. BlankForm(kind) \in Forms /\ NoConfig \in Configs
        /\ NoPost \in [at: {"none", "sent", "created", "refused"}, country: Countries, method: Methods,
                       operator: AllOperators \cup {NoOperator}, phone: Phones, otp: BOOLEAN]
    BY FormConstants DEF BlankForm, Forms, Kinds, Methods, Phones, NoConfig, Configs, NoPost
  <1> QED
    BY <1>1 DEF OpenForm, FormInv, FormTypeOK, FormSound, BlankForm, NoPost

\* Every step keeps the form sound.
LEMMA FormSafe ==
  ASSUME FormInv, [Next]_vars
  PROVE  FormInv'
  <1>1. CASE UNCHANGED formVars
    BY <1>1 DEF formVars, FormInv, FormTypeOK, FormSound, Shown, AcceptsPayment
  <1>2. CASE OnForm
    BY <1>2, ConfigArrives, FormFilled, FormPosted DEF OnForm, FormStep
  <1>3. ASSUME NEW at \in {"created", "refused"}, post' = [post EXCEPT !.at = at], UNCHANGED <<form, config>>
        PROVE  FormInv'
    BY <1>3 DEF FormInv, FormTypeOK, FormSound, Shown
  <1>4. CASE RefuseOrder \/ \E o \in Orders : CreateOrder(o)
    BY <1>3, <1>4 DEF RefuseOrder, CreateOrder
  <1>5. CASE ShowFormError
    <2>1. /\ form' = [form EXCEPT !.submitting = FALSE] /\ post' = NoPost /\ config' = config
      BY <1>5 DEF ShowFormError, SubmitFails
    <2>2. /\ form' \in Forms
          /\ form'.operator = form.operator /\ form'.country = form.country /\ form'.kind = form.kind
          /\ form'.method = form.method /\ form'.phone = form.phone
      BY <2>1 DEF FormInv, FormTypeOK, Forms
    <2>3. NoPost.at = "none"
          /\ NoPost \in [at: {"none", "sent", "created", "refused"}, country: Countries, method: Methods,
                         operator: AllOperators \cup {NoOperator}, phone: Phones, otp: BOOLEAN]
      BY FormConstants DEF NoPost, Methods, Phones
    <2> QED
      BY <2>1, <2>2, <2>3 DEF FormInv, FormTypeOK, FormSound, Shown
  <1>6. CASE Redirect \/ Retry
    BY <1>6, FormOpens DEF Redirect, Retry, FormsOffered, Kinds, FormInv, FormTypeOK, Forms
  <1> QED
    BY <1>1, <1>2, <1>4, <1>5, <1>6 DEF Next, vars, OnReturn, LeaveForGood

\* The invariant of the form.
LEMMA FormInvariant == Spec => []FormInv
  <1>1. Init => FormInv
    <2> SUFFICES ASSUME Init PROVE FormInv
      OBVIOUS
    <2> PICK kind \in Kinds : form = BlankForm(kind) /\ config = NoConfig /\ post = NoPost
      BY DEF Init, FormsOffered, Kinds, FormInit
    <2>1. BlankForm(kind) \in Forms /\ NoConfig \in Configs
          /\ NoPost \in [at: {"none", "sent", "created", "refused"}, country: Countries, method: Methods,
                         operator: AllOperators \cup {NoOperator}, phone: Phones, otp: BOOLEAN]
      BY FormConstants DEF BlankForm, Forms, Kinds, Methods, Phones, NoConfig, Configs, NoPost
    <2> QED
      BY <2>1 DEF FormInv, FormTypeOK, FormSound, BlankForm, NoPost
  <1> QED
    BY <1>1, FormSafe, PTL DEF Spec

\* The forms never post a payment the backend must refuse for its operator, its number
\* or its code, in whatever order the lists arrive and the buyer fills the fields
\* (CheckoutView and VendorChatYes; initiateCheckout).
THEOREM PaymentsAccepted == Spec => []PaymentsPostedAreAccepted
  <1>1. FormInv => PaymentsPostedAreAccepted
    BY DEF FormInv, FormSound, PaymentsPostedAreAccepted
  <1> QED
    BY <1>1, FormInvariant, PTL

\* Where there is no card tab, the number prompted was typed under the country of the
\* order: handleCountryChange empties the field.
THEOREM NumbersOfTheCountry == Spec => []NumberOfThisCountry
  <1>1. FormInv => NumberOfThisCountry
    BY DEF FormInv, FormSound, NumberOfThisCountry
  <1> QED
    BY <1>1, FormInvariant, PTL
-----------------------------------------------------------------------------
(* The requests *)

\* The requests the interval has sent and the page has not had back.
Flying == {r \in Requests \ byHand : hop[r] # FreeHop}

\* The requests the worker has counted and the page has not had back.
Counted == {r \in Requests : hop[r].at \in {"forward", "passed", "answered", "unavailable"}}

\* Every request asks for the status of the order, and only a troubled visit has
\* asked by hand.
Asked ==
    /\ EdgeTypeOK
    /\ \A r \in Requests : hop[r] # FreeHop => hop[r].path = StatusPath
    /\ byHand \subseteq Requests /\ troubled \in BOOLEAN
    /\ ~troubled => byHand = {}

\* What the other variables hold, and that an order that failed exists.
Rows ==
    /\ visitor \in Visitors /\ posted \in Orders \cup {NoOrder}
    /\ \A o \in everFailed : order[o] # "none"

\* A request goes a step of its way at the worker or the backend.
Moves(r) == (OnEdge(r) \/ ReadStatus(r) \/ ReadSession(r)) /\ UNCHANGED <<page, byHand, troubled>>

\* The interval sends a request.
Polls ==
    /\ FreeRequests # {}
    /\ hop' = [hop EXCEPT ![NextRequest] = ReceivedHop(StatusPath)]
    /\ UNCHANGED byHand

\* What a step of the journey does to the requests.
LEMMA RequestSteps ==
  ASSUME [Next]_vars
  PROVE  \/ UNCHANGED <<kv, hop, byHand, page, troubled>>
         \/ Tick /\ Elsewhere
         \/ handleManualCheck /\ Elsewhere
         \/ Redirect \/ Retry \/ LeaveForGood
         \/ \E r \in Requests : Elsewhere /\ (Moves(r) \/ Deliver(r) \/ DeliverError(r))
  BY DEF Next, vars, OnForm, RefuseOrder, ShowFormError, CreateOrder, OnReturn, ReturnNext,
     OpenDiscussion, SettleOrder, OnEdge, ReadStatus, ReadSession, returnVars, edgeVars,
     Moves, Elsewhere

\* The request chosen for a poll is a free one, and goes to the worker.
LEMMA Sent ==
  ASSUME EdgeTypeOK, FreeRequests # {},
         hop' = [hop EXCEPT ![NextRequest] = ReceivedHop(StatusPath)]
  PROVE  /\ NextRequest \in Requests /\ hop[NextRequest] = FreeHop
         /\ hop' \in [Requests -> Hops]
         /\ hop'[NextRequest].path = StatusPath /\ hop'[NextRequest].at \in {"get", "asset"}
         /\ \A s \in Requests \ {NextRequest} : hop'[s] = hop[s]
  <1>1. NextRequest \in FreeRequests
    BY DEF NextRequest
  <1>2. NextRequest \in Requests /\ hop[NextRequest] = FreeHop
    BY <1>1 DEF FreeRequests
  <1>3. ReceivedHop(StatusPath) \in Hops
        /\ ReceivedHop(StatusPath).path = StatusPath /\ ReceivedHop(StatusPath).at \in {"get", "asset"}
    BY ReturnConstants DEF ReceivedHop, Hops, Places
  <1> QED
    BY <1>2, <1>3 DEF EdgeTypeOK

\* On its way a request is never free, and keeps its path.
LEMMA Moved ==
  ASSUME Asked, NEW r \in Requests, Moves(r)
  PROVE  /\ hop[r] # FreeHop /\ hop'[r] # FreeHop
         /\ hop'[r].path = StatusPath
         /\ hop' \in [Requests -> Hops]
         /\ kv' \in [Paths -> [count: Nat, ttl: 0..Window]]
         /\ \A s \in Requests \ {r} : hop'[s] = hop[s]
  <1>1. hop[r].at \in {"get", "put", "forward", "passed"} /\ hop[r] # FreeHop
    BY DEF Moves, OnEdge, EdgeStep, GetCount, PutCount, BackendUnavailable, ReadStatus, ReadSession,
       Forward, RelayResponse, FreeHop
  <1>2. /\ hop[r].path = StatusPath /\ StatusPath \in Paths /\ hop[r] \in Hops
        /\ hop \in [Requests -> Hops] /\ kv \in [Paths -> [count: Nat, ttl: 0..Window]]
    BY <1>1, ReturnConstants DEF Asked, EdgeTypeOK
  <1>3. kv[StatusPath].count \in Nat /\ hop[r].seen + 1 \in Nat /\ Window \in 0..Window
    BY <1>2, EdgeConstants DEF Hops
  <1>4. \/ hop' = [hop EXCEPT ![r].at = "limited"]
        \/ hop' = [hop EXCEPT ![r].at = "put", ![r].seen = kv[StatusPath].count]
        \/ \E at \in {"forward", "passed", "answered", "unavailable"} : hop' = [hop EXCEPT ![r].at = at]
    BY <1>2 DEF Moves, OnEdge, EdgeStep, GetCount, PutCount, BackendUnavailable, ReadStatus, ReadSession,
       Forward, RelayResponse
  <1>5. \E h \in Hops : hop' = [hop EXCEPT ![r] = h] /\ h.path = StatusPath /\ h.at # "free"
    BY <1>2, <1>3, <1>4 DEF Hops, Places
  <1>6. kv' = kv \/ kv' = [kv EXCEPT ![StatusPath] = [count |-> hop[r].seen + 1, ttl |-> Window]]
    BY <1>2 DEF Moves, OnEdge, EdgeStep, GetCount, PutCount, BackendUnavailable, ReadStatus, ReadSession,
       Forward, RelayResponse
  <1>7. kv' \in [Paths -> [count: Nat, ttl: 0..Window]]
    BY <1>2, <1>3, <1>6
  <1> QED
    BY <1>1, <1>2, <1>5, <1>7 DEF FreeHop

\* The key only gets older.
LEMMA KeyAges ==
  ASSUME EdgeTypeOK, kv' = Aged
  PROVE  /\ kv' \in [Paths -> [count: Nat, ttl: 0..Window]]
         /\ kv'[StatusPath].count <= kv[StatusPath].count
  <1>1. ASSUME NEW p \in Paths
        PROVE  /\ kv'[p] \in [count: Nat, ttl: 0..Window]
               /\ kv'[p].count <= kv[p].count
    <2>1. kv[p] \in [count: Nat, ttl: 0..Window] /\ kv[p].count \in Nat /\ kv[p].ttl \in 0..Window
      BY DEF EdgeTypeOK
    <2>2. CASE kv[p].ttl <= 1
      <3>1. kv'[p] = [count |-> 0, ttl |-> 0]
        BY <2>2 DEF Aged
      <3> QED
        BY <2>1, <3>1, EdgeConstants
    <2>3. CASE ~ (kv[p].ttl <= 1)
      <3>1. kv'[p] = [kv[p] EXCEPT !.ttl = @ - 1]
        BY <2>3 DEF Aged
      <3>2. kv[p].ttl - 1 \in 0..Window
        BY <2>1, <2>3, EdgeConstants
      <3> QED
        BY <2>1, <3>1, <3>2
    <2> QED
      BY <2>2, <2>3
  <1>2. kv' \in [Paths -> [count: Nat, ttl: 0..Window]]
    BY <1>1 DEF Aged
  <1> QED
    BY <1>1, <1>2, ReturnConstants

\* Every step keeps the requests what they are.
LEMMA AskedSafe ==
  ASSUME JourneyInv, PollInv, Asked, [Next]_vars
  PROVE  Asked'
  <1>1. CASE UNCHANGED <<kv, hop, byHand, page, troubled>>
    BY <1>1 DEF Asked, EdgeTypeOK
  <1>2. CASE Tick
    <2>1. CASE Polls
      BY <1>2, <2>1, Sent, KeyAges DEF Tick, Polls, Asked, EdgeTypeOK
    <2>2. CASE hop' = hop
      BY <1>2, <2>2, KeyAges DEF Tick, Asked, EdgeTypeOK
    <2> QED
      BY <1>2, <2>1, <2>2 DEF Tick, Polls
  <1>3. CASE handleManualCheck \/ Redirect
    <2>1. /\ FreeRequests # {} /\ hop' = [hop EXCEPT ![NextRequest] = ReceivedHop(StatusPath)]
          /\ kv' = kv
      BY <1>3 DEF handleManualCheck, Redirect, OpenReturn, Send, Receive
    <2>2. \/ troubled' = TRUE /\ byHand' = byHand \cup {NextRequest}
          \/ troubled' = FALSE /\ byHand' = byHand /\ page = NoPage
      BY <1>3 DEF handleManualCheck, Redirect, OpenReturn, Send, JourneyInv, Whereabouts
    <2>3. page = NoPage => byHand = {}
      BY DEF PollInv, NoPage
    <2> QED
      BY <2>1, <2>2, <2>3, Sent DEF Asked, EdgeTypeOK
  <1>4. CASE Retry \/ LeaveForGood
    <2>1. FreeHop \in Hops
      BY DEF FreeHop, Hops, Places
    <2> QED
      BY <1>4, <2>1 DEF Retry, LeaveForGood, LeaveReturn, Asked, EdgeTypeOK
  <1>5. ASSUME NEW r \in Requests, Moves(r)
        PROVE  Asked'
    BY <1>5, Moved DEF Asked, EdgeTypeOK, Moves
  <1>6. ASSUME NEW r \in Requests, Deliver(r) \/ DeliverError(r)
        PROVE  Asked'
    <2>1. FreeHop \in Hops
      BY DEF FreeHop, Hops, Places
    <2>2. /\ hop' = [hop EXCEPT ![r] = FreeHop] /\ byHand' = byHand \ {r} /\ kv' = kv
          /\ troubled' \in {troubled, TRUE}
      BY <1>6 DEF Deliver, DeliverError, Release
    <2> QED
      BY <2>1, <2>2 DEF Asked, EdgeTypeOK
  <1> QED
    BY <1>1, <1>2, <1>3, <1>4, <1>5, <1>6, RequestSteps

\* An order once created exists for good, and one that failed has been created.
LEMMA RowsKept ==
  ASSUME JourneyInv, Rows, [Next]_vars
  PROVE  Rows' /\ \A o \in Orders : order[o] # "none" => order'[o] # "none"
  <1>1. order \in [Orders -> Statuses] /\ everFailed \subseteq Orders
    BY DEF JourneyInv, Shapes
  <1>2. visitor' = visitor /\ posted' \in Orders \cup {NoOrder}
    BY DEF Next, vars, OnForm, RefuseOrder, ShowFormError, CreateOrder, OnReturn, journeyVars,
       Redirect, Retry, LeaveForGood, Rows
  <1>3. \/ UNCHANGED <<order, everFailed>>
        \/ \E o \in Orders, status \in Statuses :
              SetStatus(o, status) /\ (order[o] # "none" => status # "none")
    <2>1. CASE \E o \in Orders : CreateOrder(o)
      BY <2>1 DEF CreateOrder, Statuses
    <2>2. CASE \E o \in Orders : SettleOrder(o)
      BY <1>1, <2>2 DEF SettleOrder, SettledAs, Statuses
    <2>3. ASSUME NEW r \in Requests, ReadStatus(r)
          PROVE  \E o \in Orders, status \in Statuses :
                    SetStatus(o, status) /\ (order[o] # "none" => status # "none")
      <3>1. page.shown \in Orders
        BY <2>3, RequestsAreOfThePage DEF JourneyInv, ReadStatus, Forward, FreeHop
      <3>2. PICK status \in IF order[page.shown] = "pending" THEN SettledAs("pending")
                            ELSE {order[page.shown]} : SetStatus(page.shown, status)
        BY <2>3 DEF ReadStatus
      <3>3. status \in Statuses /\ (order[page.shown] # "none" => status # "none")
        BY <1>1, <3>1, <3>2 DEF SettledAs, Statuses
      <3> QED
        BY <3>1, <3>2, <3>3
    <2> QED
      BY <2>1, <2>2, <2>3 DEF Next, vars, OnForm, RefuseOrder, ShowFormError, Redirect, Retry, LeaveForGood,
         OnReturn, ReturnNext, Tick, handleManualCheck, OpenDiscussion, OnEdge, ReadSession, Deliver,
         DeliverError, returnVars, serverVars, orderVars
  <1>4. CASE UNCHANGED <<order, everFailed>>
    BY <1>2, <1>4 DEF Rows
  <1>5. ASSUME NEW o \in Orders, NEW status \in Statuses, SetStatus(o, status),
               order[o] # "none" => status # "none"
        PROVE  Rows' /\ \A p \in Orders : order[p] # "none" => order'[p] # "none"
    <2>1. order' = [order EXCEPT ![o] = status] /\ everFailed' \subseteq everFailed \cup {o}
          /\ (o \in everFailed' => o \in everFailed \/ status = "failed")
      BY <1>5 DEF SetStatus
    <2>2. \A p \in Orders : order[p] # "none" => order'[p] # "none"
      BY <1>1, <1>5, <2>1
    <2>3. \A p \in everFailed' : order'[p] # "none"
      BY <1>1, <1>5, <2>1, <2>2 DEF Rows
    <2> QED
      BY <1>2, <2>2, <2>3 DEF Rows
  <1> QED
    BY <1>3, <1>4, <1>5

\* Few requests are in flight, and those the worker has counted are among them.
LEMMA Sets ==
  /\ IsFiniteSet(Flying) /\ Cardinality(Flying) \in Nat /\ Cardinality(Flying) <= Cardinality(Requests)
  /\ IsFiniteSet(Counted) /\ Cardinality(Counted) \in Nat
  /\ IsFiniteSet(Flying') /\ Cardinality(Flying') \in Nat /\ Cardinality(Flying') <= Cardinality(Requests)
  /\ IsFiniteSet(Counted') /\ Cardinality(Counted') \in Nat
  /\ Cardinality(Requests) \in Nat
  <1>1. \A S \in SUBSET Requests : IsFiniteSet(S) /\ Cardinality(S) <= Cardinality(Requests)
    BY ReturnConstants, FS_Subset
  <1>2. \A S : IsFiniteSet(S) => Cardinality(S) \in Nat
    BY FS_CardinalityType
  <1>3. /\ Flying \subseteq Requests /\ Counted \subseteq Requests
        /\ Flying' \subseteq Requests /\ Counted' \subseteq Requests
    BY DEF Flying, Counted
  <1> QED
    BY <1>1, <1>2, <1>3, ReturnConstants

\* The polls a page has counted and those it may still count are never more than
\* what its interval sends before it is cleared, and what was in flight then.
PollsCounted ==
    /\ page.polling => page.pollCount < MaxAutoPolls
    /\ page.shown # NoOrder =>
          page.pollCount + Cardinality(Flying) <= MaxAutoPolls - 1 + Cardinality(Requests)

\* What an answer does to the count: it counts for one at most, and only what was
\* in flight from the interval counts.
LEMMA AnswersCounted ==
  ASSUME Shapes, page.shown # NoOrder, PollsCounted, NEW r \in Requests, hop[r] # FreeHop, Asked,
         Deliver(r) \/ DeliverError(r)
  PROVE  PollsCounted'
  <1>1. /\ hop' = [hop EXCEPT ![r] = FreeHop] /\ byHand' = byHand \ {r}
        /\ hop \in [Requests -> Hops] /\ page \in PageShapes
        /\ page.pollCount \in Nat /\ MaxAutoPolls \in Nat /\ Cardinality(Requests) \in Nat
    BY Sets, ReturnConstants DEF Deliver, DeliverError, Release, Asked, EdgeTypeOK, Shapes, PageShapes
  <1>2. Flying' = Flying \ {r}
    BY <1>1 DEF Flying
  <1>3. /\ r \in byHand => Cardinality(Flying') = Cardinality(Flying)
        /\ r \notin byHand => Cardinality(Flying') = Cardinality(Flying) - 1
    <2>1. r \in byHand => r \notin Flying
      BY DEF Flying
    <2>2. r \notin byHand => r \in Flying
      BY DEF Flying
    <2> QED
      BY <1>2, <2>1, <2>2, Sets, FS_RemoveElement
  <1> DEFINE a == reply[r]
             w == WithChat(page, a.chat)
  <1>4. a.chat \in Chats
    BY DEF Shapes
  <1>5. w \in PageShapes /\ w.shown = page.shown /\ w.polling = page.polling /\ w.pollCount = page.pollCount
    BY <1>1, <1>4 DEF WithChat, PageShapes
  <1> HIDE DEF a
  <1>6. CASE r \in byHand \/ DeliverError(r)
    <2>1. \/ page' = page \/ page' = [page EXCEPT !.checkingNow = FALSE]
          \/ page' = ManuallyCheckedPage(page, a)
      BY <1>6 DEF Deliver, DeliverError, a
    <2>2. page'.polling = page.polling /\ page'.pollCount = page.pollCount
      <3>1. CASE page' = page \/ page' = [page EXCEPT !.checkingNow = FALSE]
        BY <1>1, <3>1 DEF PageShapes
      <3>2. CASE page' = ManuallyCheckedPage(page, a)
        <4>1. page'.polling = w.polling /\ page'.pollCount = w.pollCount
          BY <1>5, <3>2 DEF ManuallyCheckedPage, PageShapes
        <4> QED
          BY <1>5, <4>1
      <3> QED
        BY <2>1, <3>1, <3>2
    <2> QED
      BY <1>1, <1>3, <2>2, Sets DEF PollsCounted
  <1>7. CASE r \notin byHand /\ Deliver(r)
    <2>1. page' = CheckedPage(page, a)
      BY <1>7 DEF Deliver, a
    <2> HIDE DEF w
    <2>2. \/ page'.pollCount = w.pollCount /\ (page'.polling => w.polling)
          \/ page'.pollCount = w.pollCount + 1 /\ (page'.polling => w.pollCount + 1 < MaxAutoPolls)
      <3>1. CASE a.status = "paid"
        BY <1>5, <2>1, <3>1 DEF CheckedPage, PageShapes, w
      <3>2. CASE a.status = "failed"
        BY <1>5, <2>1, <3>2 DEF CheckedPage, PageShapes, w
      <3>3. CASE a.status \notin {"paid", "failed"}
        BY <1>5, <2>1, <3>3 DEF CheckedPage, PageShapes, w
      <3> QED
        BY <3>1, <3>2, <3>3
    <2> QED
      BY <1>1, <1>3, <1>5, <1>7, <2>2, Sets DEF PollsCounted
  <1> QED
    BY <1>6, <1>7

\* Every step counts the polls.
LEMMA PollsCountedSafe ==
  ASSUME JourneyInv, Asked, PollsCounted, [Next]_vars
  PROVE  PollsCounted'
  <1>1. /\ MaxAutoPolls \in Nat \ {0} /\ page \in PageShapes /\ page.pollCount \in Nat
        /\ hop \in [Requests -> Hops] /\ EdgeTypeOK
    BY ReturnConstants DEF JourneyInv, Shapes, PageShapes, Asked, EdgeTypeOK
  <1>2. CASE UNCHANGED <<kv, hop, byHand, page, troubled>>
    BY <1>2 DEF PollsCounted, Flying
  <1>3. CASE Tick
    <2>1. CASE page.polling
      BY <1>1, <1>3, <2>1, Sets DEF Tick, PollsCounted
    <2>2. CASE ~page.polling
      BY <1>3, <2>2 DEF Tick, PollsCounted, Flying
    <2> QED
      BY <2>1, <2>2
  <1>4. CASE handleManualCheck
    <2>1. /\ FreeRequests # {} /\ hop' = [hop EXCEPT ![NextRequest] = ReceivedHop(StatusPath)]
          /\ byHand' = byHand \cup {NextRequest} /\ page' = [page EXCEPT !.checkingNow = TRUE]
      BY <1>4 DEF handleManualCheck, Send, Receive
    <2>2. Flying' \subseteq Flying
      BY <1>1, <2>1, Sent DEF Flying
    <2>3. Cardinality(Flying') <= Cardinality(Flying)
      BY <2>2, Sets, FS_Subset
    <2>4. page'.polling = page.polling /\ page'.pollCount = page.pollCount /\ page'.shown = page.shown
      BY <1>1, <2>1 DEF PageShapes
    <2> QED
      BY <1>1, <2>3, <2>4, Sets DEF PollsCounted
  <1>5. CASE Redirect
    <2>1. /\ FreeRequests # {} /\ hop' = [hop EXCEPT ![NextRequest] = ReceivedHop(StatusPath)]
          /\ page' = [NoPage EXCEPT !.shown = posted, !.polling = TRUE] /\ place = "form"
      BY <1>5 DEF Redirect, OpenReturn, Send, Receive
    <2>2. \A r \in Requests : hop[r] = FreeHop
      BY <2>1 DEF JourneyInv, Whereabouts, NoPage
    <2>3. Flying' \subseteq {NextRequest} /\ NextRequest \in Requests
      BY <1>1, <2>1, <2>2, Sent DEF Flying
    <2>4. Cardinality(Flying') <= 1 /\ Cardinality(Requests) >= 1
      <3>1. IsFiniteSet({NextRequest}) /\ Cardinality({NextRequest}) = 1
        BY FS_Singleton
      <3>2. {NextRequest} \in SUBSET Requests
        BY <2>3
      <3> QED
        BY <2>3, <3>1, <3>2, ReturnConstants, Sets, FS_Subset
    <2>5. page'.pollCount = 0
      BY <2>1 DEF NoPage
    <2> QED
      BY <1>1, <2>4, <2>5, Sets DEF PollsCounted
  <1>6. CASE Retry \/ LeaveForGood
    BY <1>6 DEF Retry, LeaveForGood, LeaveReturn, PollsCounted, NoPage
  <1>7. ASSUME NEW r \in Requests, Moves(r)
        PROVE  PollsCounted'
    <2>1. page' = page /\ byHand' = byHand
      BY <1>7 DEF Moves
    <2>2. Flying' = Flying
      BY <1>7, <2>1, Moved DEF Flying
    <2> QED
      BY <2>1, <2>2 DEF PollsCounted
  <1>8. ASSUME NEW r \in Requests, Deliver(r) \/ DeliverError(r)
        PROVE  PollsCounted'
    <2>1. hop[r] # FreeHop
      BY <1>8 DEF Deliver, DeliverError, Answered, Unanswered, FreeHop
    <2>2. page.shown # NoOrder
      BY <2>1, RequestsAreOfThePage DEF JourneyInv
    <2> QED
      BY <1>8, <2>1, <2>2, AnswersCounted DEF JourneyInv
  <1> QED
    BY <1>2, <1>3, <1>4, <1>5, <1>6, <1>7, <1>8, RequestSteps

-----------------------------------------------------------------------------
(* The key of the worker *)

\* No order exists but the one on screen: this is the buyer's first visit.
FirstVisit == \A o \in Orders : order[o] # "none" => o = page.shown

\* Before the first visit nothing was counted; during it, as long as nothing went
\* wrong, the key holds at most the polls answered and those under way, and none
\* was refused.
KeyCounted ==
    /\ place = "form" /\ (\A o \in Orders : order[o] # "none" => post.at = "created" /\ o = posted)
         => kv[StatusPath].count = 0
    /\ place = "return" /\ FirstVisit /\ page.step = "pending" /\ ~troubled =>
         /\ kv[StatusPath].count <= page.pollCount + Cardinality(Counted)
         /\ \A r \in Requests :
               /\ hop[r].at = "put" => hop[r].seen <= page.pollCount + Cardinality(Counted)
               /\ hop[r].at # "limited"

KeyInv == Asked /\ Rows /\ PollsCounted /\ KeyCounted

\* The limit of the status path is the one of "/orders/status".
LEMMA StatusLimit == RateLimit(StatusPath) = Limits.status /\ Limits.status \in Nat
  BY PollsFitTheLimit, EdgeConstants DEF RateLimit

\* A request on its way keeps the key within what the page has asked.
LEMMA MovesCounted ==
  ASSUME JourneyInv, KeyInv, Elsewhere, NEW r \in Requests, Moves(r),
         place = "return", FirstVisit, page.step = "pending", ~troubled
  PROVE  /\ kv'[StatusPath].count <= page.pollCount + Cardinality(Counted')
         /\ \A s \in Requests :
               /\ hop'[s].at = "put" => hop'[s].seen <= page.pollCount + Cardinality(Counted')
               /\ hop'[s].at # "limited"
  <1> DEFINE n == page.pollCount
             key == kv[StatusPath].count
  <1>1. /\ n \in Nat /\ MaxAutoPolls \in Nat /\ page.shown # NoOrder /\ byHand = {}
        /\ hop \in [Requests -> Hops] /\ hop[r] \in Hops /\ hop[r].path = StatusPath /\ hop[r] # FreeHop
        /\ key \in Nat /\ hop[r].seen \in Nat /\ StatusPath \in Paths
        /\ kv \in [Paths -> [count: Nat, ttl: 0..Window]]
    BY Moved, ReturnConstants DEF KeyInv, Asked, EdgeTypeOK, JourneyInv, Shapes, Whereabouts, PageShapes, Hops
  <1>2. /\ key <= n + Cardinality(Counted)
        /\ \A s \in Requests :
              /\ hop[s].at = "put" => hop[s].seen <= n + Cardinality(Counted)
              /\ hop[s].at # "limited"
    BY DEF KeyInv, KeyCounted
  <1>3. n + Cardinality(Flying) <= MaxAutoPolls - 1 + Cardinality(Requests)
    BY <1>1 DEF KeyInv, PollsCounted
  <1>4. \A s \in Requests \ {r} : hop'[s] = hop[s]
    BY Moved DEF KeyInv
  <1>5. CASE hop[r].at = "get"
    <2>1. r \notin Counted /\ r \in Flying /\ Counted \subseteq Flying
      BY <1>1, <1>5 DEF Counted, Flying, FreeHop
    <2>2. Cardinality(Counted) <= Cardinality(Flying) - 1
      <3>1. Counted \in SUBSET (Flying \ {r})
        BY <2>1
      <3>2. IsFiniteSet(Flying \ {r}) /\ Cardinality(Flying \ {r}) = Cardinality(Flying) - 1
        BY <2>1, Sets, FS_RemoveElement
      <3> QED
        BY <3>1, <3>2, FS_Subset
    <2>3. ~ (key >= RateLimit(StatusPath))
      BY <1>1, <1>2, <1>3, <2>2, StatusLimit, Sets, PollsFitTheLimit
    <2>4. GetCount(r)
      BY <1>5 DEF Moves, OnEdge, EdgeStep, PutCount, BackendUnavailable, ReadStatus, ReadSession,
         Forward, RelayResponse
    <2>5. kv' = kv /\ hop' = [hop EXCEPT ![r].at = "put", ![r].seen = key]
      BY <1>1, <2>3, <2>4 DEF GetCount
    <2>6. hop'[r].at = "put" /\ hop'[r].seen = key
      BY <1>1, <2>5 DEF Hops
    <2>7. Counted' = Counted
      BY <1>4, <1>5, <2>6 DEF Counted
    <2> QED
      BY <1>2, <1>4, <2>5, <2>6, <2>7
  <1>6. CASE hop[r].at = "put"
    <2>1. PutCount(r)
      BY <1>6 DEF Moves, OnEdge, EdgeStep, GetCount, BackendUnavailable, ReadStatus, ReadSession,
         Forward, RelayResponse
    <2>2. /\ kv' = [kv EXCEPT ![StatusPath] = [count |-> hop[r].seen + 1, ttl |-> Window]]
          /\ hop' = [hop EXCEPT ![r].at = "forward"]
      BY <1>1, <2>1 DEF PutCount
    <2>3. kv'[StatusPath].count = hop[r].seen + 1 /\ hop'[r].at = "forward"
      BY <1>1, <2>2 DEF Hops
    <2>4. Counted' = Counted \cup {r} /\ r \notin Counted
      BY <1>4, <1>6, <2>3 DEF Counted
    <2>5. Cardinality(Counted') = Cardinality(Counted) + 1
      BY <2>4, Sets, FS_AddElement
    <2>6. hop[r].seen <= n + Cardinality(Counted)
      BY <1>2, <1>6
    <2>7. \A s \in Requests :
              /\ hop'[s].at = "put" => hop[s].at = "put" /\ hop'[s].seen = hop[s].seen /\ hop[s].seen \in Nat
              /\ hop'[s].at # "limited"
      BY <1>1, <1>2, <1>4, <2>3 DEF Hops
    <2> QED
      BY <1>1, <1>2, <2>3, <2>5, <2>6, <2>7, Sets
  <1>7. CASE hop[r].at \notin {"get", "put"}
    <2>1. /\ kv' = kv /\ hop[r].at \in {"forward", "passed"}
          /\ \E at \in {"passed", "answered", "unavailable"} : hop' = [hop EXCEPT ![r].at = at]
      BY <1>7 DEF Moves, OnEdge, EdgeStep, GetCount, PutCount, BackendUnavailable, ReadStatus, ReadSession,
         Forward, RelayResponse
    <2>2. hop'[r].at \in {"passed", "answered", "unavailable"}
      BY <1>1, <2>1 DEF Hops
    <2>3. Counted' = Counted
      BY <1>4, <2>1, <2>2 DEF Counted
    <2> QED
      BY <1>2, <1>4, <2>1, <2>2, <2>3
  <1> QED
    BY <1>5, <1>6, <1>7

\* An answer that leaves the page waiting is one poll the more that it has counted.
LEMMA DeliveredCounted ==
  ASSUME JourneyInv, KeyInv, Elsewhere, NEW r \in Requests, Deliver(r) \/ DeliverError(r)
  PROVE  KeyCounted'
  <1>1. hop[r] # FreeHop
    BY DEF Deliver, DeliverError, Answered, Unanswered, FreeHop
  <1>2. place = "return" /\ page.shown # NoOrder
    BY <1>1, RequestsAreOfThePage DEF JourneyInv
  <1>3. place' = "return" /\ UNCHANGED <<kv, order>>
    BY <1>2 DEF Elsewhere, journeyVars, Deliver, DeliverError, serverVars, orderVars
  <1>4. SUFFICES ASSUME FirstVisit', page'.step = "pending", ~troubled'
                 PROVE  /\ kv[StatusPath].count <= page'.pollCount + Cardinality(Counted')
                        /\ \A s \in Requests :
                              /\ hop'[s].at = "put" => hop'[s].seen <= page'.pollCount + Cardinality(Counted')
                              /\ hop'[s].at # "limited"
    BY <1>3 DEF KeyCounted
  <1>5. Deliver(r) /\ ~troubled
    BY <1>4 DEF Deliver, DeliverError
  <1>6. r \notin byHand
    BY <1>5 DEF KeyInv, Asked
  <1> DEFINE a == reply[r]
             w == WithChat(page, a.chat)
  <1>7. page' = CheckedPage(page, a) /\ hop' = [hop EXCEPT ![r] = FreeHop] /\ hop[r].at = "answered"
    BY <1>5, <1>6 DEF Deliver, Release, Answered
  <1>8. page \in PageShapes /\ a.chat \in Chats /\ hop \in [Requests -> Hops] /\ page.pollCount \in Nat
    BY DEF JourneyInv, Shapes, KeyInv, Asked, EdgeTypeOK, PageShapes
  <1>9. w \in PageShapes /\ w.shown = page.shown /\ w.step = page.step /\ w.pollCount = page.pollCount
    BY <1>8 DEF WithChat, PageShapes
  <1> HIDE DEF a, w
  <1>10. page'.step = w.step /\ page'.pollCount = w.pollCount + 1 /\ page'.shown = w.shown
    <2>1. a.status \notin {"paid", "failed"}
      BY <1>4, <1>7, <1>9 DEF CheckedPage, PageShapes, w
    <2> QED
      BY <1>7, <1>9, <2>1 DEF CheckedPage, PageShapes, w
  <1>11. FirstVisit /\ page.step = "pending"
    BY <1>3, <1>4, <1>9, <1>10 DEF FirstVisit
  <1>12. /\ kv[StatusPath].count <= page.pollCount + Cardinality(Counted)
         /\ \A s \in Requests :
               /\ hop[s].at = "put" => hop[s].seen <= page.pollCount + Cardinality(Counted)
               /\ hop[s].at # "limited"
    BY <1>2, <1>5, <1>11 DEF KeyInv, KeyCounted
  <1>13. Counted' = Counted \ {r} /\ r \in Counted
    BY <1>7, <1>8 DEF Counted, FreeHop
  <1>14. Cardinality(Counted') = Cardinality(Counted) - 1
    BY <1>13, Sets, FS_RemoveElement
  <1>15. \A s \in Requests : hop'[s].at \in {"put", "limited"} => hop'[s] = hop[s]
    BY <1>7, <1>8 DEF FreeHop
  <1>16. page'.pollCount + Cardinality(Counted') = page.pollCount + Cardinality(Counted)
    BY <1>8, <1>9, <1>10, <1>14, Sets
  <1> QED
    BY <1>12, <1>15, <1>16

\* Every order that exists is the one the form has just created.
NothingBefore == \A o \in Orders : order[o] # "none" => post.at = "created" /\ o = posted

\* A form that knows of every order already did before.
LEMMA FormKnows ==
  ASSUME JourneyInv, Rows, [Next]_vars, place = "form", place' = "form", NothingBefore'
  PROVE  NothingBefore
  <1>1. \A o \in Orders : order[o] # "none" => order'[o] # "none"
    BY RowsKept
  <1>2. CASE UNCHANGED <<post, posted>> \/ post'.at # "created"
    BY <1>1, <1>2 DEF NothingBefore
  <1>3. ASSUME NEW o \in Orders, CreateOrder(o)
        PROVE  NothingBefore
    <2>1. order[o] = "none" /\ posted' = o
      BY <1>3 DEF CreateOrder
    <2> QED
      BY <1>1, <2>1 DEF NothingBefore
  <1>4. ~ Redirect /\ ~ Retry /\ ~ LeaveForGood
    BY DEF Redirect, Retry, LeaveForGood
  <1>5. OnForm => UNCHANGED <<post, posted>> \/ post'.at # "created"
    <2>1. OnForm => FormStep /\ posted' = posted
      BY DEF OnForm, journeyVars
    <2> QED
      BY <2>1, FormSteps DEF JourneyInv
  <1>6. RefuseOrder \/ ShowFormError => post'.at # "created"
    BY DEF RefuseOrder, ShowFormError, SubmitFails, NoPost, JourneyInv, Shapes
  <1>7. OnReturn \/ UNCHANGED vars => UNCHANGED <<post, posted>>
    BY DEF OnReturn, vars, formVars, journeyVars
  <1> QED
    BY <1>2, <1>3, <1>4, <1>5, <1>6, <1>7 DEF Next

\* The first half: the form of the first visit finds nothing counted.
LEMMA FormKeySafe ==
  ASSUME JourneyInv, PollInv, KeyInv, [Next]_vars, place' = "form", NothingBefore'
  PROVE  kv'[StatusPath].count = 0
  <1>1. place = "form"
    <2>1. CASE Retry
      <3>1. page.shown \in Orders /\ page.shown \in everFailed /\ post' = NoPost
        BY <2>1 DEF Retry, Screen, OpenForm, JourneyInv, Truth, Says, Whereabouts
      <3>2. order'[page.shown] # "none"
        BY <3>1, RowsKept DEF KeyInv, Rows
      <3> QED
        BY <3>1, <3>2 DEF NothingBefore, NoPost
    <2> QED
      BY <2>1 DEF Next, vars, OnForm, RefuseOrder, ShowFormError, CreateOrder, OnReturn, Redirect,
         LeaveForGood, journeyVars
  <1>2. NothingBefore
    BY <1>1, FormKnows DEF KeyInv
  <1>3. kv[StatusPath].count = 0
    BY <1>1, <1>2 DEF KeyInv, KeyCounted, NothingBefore
  <1>4. page = NoPage /\ page.shown = NoOrder /\ \A r \in Requests : hop[r] = FreeHop
    BY <1>1 DEF JourneyInv, Whereabouts, NoPage
  <1>5. kv' = kv \/ kv' = Aged
    <2>1. ~ Redirect /\ ~ Retry /\ ~ LeaveForGood /\ ~ handleManualCheck
      BY <1>1, <1>4 DEF Redirect, Retry, LeaveForGood, handleManualCheck
    <2>2. \A r \in Requests : ~ Moves(r) /\ ~ Deliver(r) /\ ~ DeliverError(r)
      BY <1>4, Moved DEF KeyInv, Deliver, DeliverError, Answered, Unanswered, FreeHop
    <2> QED
      BY <2>1, <2>2, RequestSteps DEF Tick
  <1>6. kv'[StatusPath].count \in Nat /\ kv'[StatusPath].count <= kv[StatusPath].count
    BY <1>3, <1>5, KeyAges, ReturnConstants DEF KeyInv, Asked, EdgeTypeOK
  <1> QED
    BY <1>3, <1>6

\* The second half: every step keeps the key within what the page has asked.
LEMMA PageKeySafe ==
  ASSUME JourneyInv, JourneyInv', PollInv, KeyInv, [Next]_vars,
         place' = "return", FirstVisit', page'.step = "pending", ~troubled'
  PROVE  /\ kv'[StatusPath].count <= page'.pollCount + Cardinality(Counted')
         /\ \A r \in Requests :
               /\ hop'[r].at = "put" => hop'[r].seen <= page'.pollCount + Cardinality(Counted')
               /\ hop'[r].at # "limited"
  <1>1. /\ page.pollCount \in Nat /\ kv[StatusPath].count \in Nat /\ EdgeTypeOK
        /\ kv \in [Paths -> [count: Nat, ttl: 0..Window]] /\ StatusPath \in Paths
    BY ReturnConstants DEF JourneyInv, Shapes, PageShapes, KeyInv, Asked, EdgeTypeOK
  <1>2. page' = page => FirstVisit
    BY RowsKept DEF KeyInv, FirstVisit
  <1>3. page.shown # NoOrder => place = "return"
    BY DEF JourneyInv, Whereabouts, NoPage
  <1>4. page'.shown # NoOrder
    BY ReturnConstants DEF JourneyInv, Whereabouts
  <1>5. ASSUME page' = page, ~troubled
        PROVE  /\ place = "return" /\ FirstVisit /\ page.step = "pending"
               /\ kv[StatusPath].count <= page.pollCount + Cardinality(Counted)
               /\ \A r \in Requests :
                     /\ hop[r].at = "put" => hop[r].seen <= page.pollCount + Cardinality(Counted)
                     /\ hop[r].at # "limited"
    BY <1>2, <1>3, <1>4, <1>5 DEF KeyInv, KeyCounted
  <1>6. CASE UNCHANGED <<kv, hop, byHand, page, troubled>>
    <2>1. Counted' = Counted
      BY <1>6 DEF Counted
    <2> QED
      BY <1>5, <1>6, <2>1
  <1>7. CASE Tick
    <2>1. page' = page /\ troubled' = troubled /\ kv' = Aged
      BY <1>7 DEF Tick
    <2>2. \A r \in Requests : hop'[r] = hop[r] \/ (hop[r] = FreeHop /\ hop'[r].at \in {"get", "asset"})
      <3>1. CASE page.polling
        BY <1>1, <1>7, <3>1, Sent DEF Tick
      <3>2. CASE ~page.polling
        BY <1>7, <3>2 DEF Tick
      <3> QED
        BY <3>1, <3>2
    <2>3. Counted' = Counted
      BY <2>2 DEF Counted, FreeHop
    <2>4. kv'[StatusPath].count <= kv[StatusPath].count /\ kv'[StatusPath].count \in Nat
      BY <1>1, <2>1, KeyAges
    <2> QED
      BY <1>1, <1>5, <2>1, <2>2, <2>3, <2>4, Sets
  <1>8. CASE Redirect
    <2>1. /\ post.at = "created" /\ place = "form" /\ kv' = kv /\ order' = order
          /\ page' = [NoPage EXCEPT !.shown = posted, !.polling = TRUE]
          /\ FreeRequests # {} /\ hop' = [hop EXCEPT ![NextRequest] = ReceivedHop(StatusPath)]
      BY <1>8 DEF Redirect, OpenReturn, Send, Receive, serverVars, orderVars
    <2>2. page'.shown = posted /\ page'.pollCount = 0
      BY <2>1 DEF NoPage
    <2>3. kv'[StatusPath].count = 0
      BY <2>1, <2>2 DEF FirstVisit, KeyInv, KeyCounted
    <2>4. \A r \in Requests : hop[r].at = "free"
      BY <2>1 DEF JourneyInv, Whereabouts, NoPage, FreeHop
    <2>5. \A r \in Requests : hop'[r].at \notin {"put", "limited"}
      BY <1>1, <2>1, <2>4, Sent
    <2> QED
      BY <2>2, <2>3, <2>5, Sets
  <1>9. ASSUME NEW r \in Requests, Elsewhere, Moves(r)
        PROVE  /\ kv'[StatusPath].count <= page'.pollCount + Cardinality(Counted')
               /\ \A s \in Requests :
                     /\ hop'[s].at = "put" => hop'[s].seen <= page'.pollCount + Cardinality(Counted')
                     /\ hop'[s].at # "limited"
    <2>1. page' = page /\ troubled' = troubled
      BY <1>9 DEF Moves
    <2> QED
      BY <1>5, <1>9, <2>1, MovesCounted
  <1>10. ASSUME NEW r \in Requests, Elsewhere, Deliver(r) \/ DeliverError(r)
         PROVE  KeyCounted'
    BY <1>10, DeliveredCounted
  <1>11. ~ handleManualCheck /\ ~ Retry /\ ~ LeaveForGood
    BY DEF handleManualCheck, Retry, LeaveForGood
  <1> QED
    BY <1>6, <1>7, <1>8, <1>9, <1>10, <1>11, RequestSteps DEF KeyCounted

\* Every step keeps the key and the requests what they are.
LEMMA KeySafe ==
  ASSUME JourneyInv, JourneyInv', PollInv, KeyInv, [Next]_vars
  PROVE  KeyInv'
  <1>1. Asked' /\ Rows' /\ PollsCounted'
    BY AskedSafe, RowsKept, PollsCountedSafe DEF KeyInv
  <1>2. KeyCounted'
    BY FormKeySafe, PageKeySafe DEF KeyCounted, NothingBefore
  <1> QED
    BY <1>1, <1>2 DEF KeyInv

\* A journey begins with no request and nothing counted.
LEMMA KeyInit == Init => KeyInv
  <1> SUFFICES ASSUME Init PROVE KeyInv
    OBVIOUS
  <1>1. /\ kv = [p \in Paths |-> [count |-> 0, ttl |-> 0]]
        /\ hop = [r \in Requests |-> FreeHop] /\ byHand = {} /\ troubled = FALSE
        /\ page = NoPage /\ everFailed = {} /\ posted = NoOrder /\ visitor \in Visitors
        /\ order = [o \in Orders |-> "none"] /\ place = "form"
    BY DEF Init, ReturnInit, EdgeInit
  <1>2. FreeHop \in Hops /\ 0 \in 0..Window
    BY EdgeConstants DEF FreeHop, Hops, Places
  <1>3. Asked /\ Rows
    BY <1>1, <1>2 DEF Asked, EdgeTypeOK, Rows
  <1>4. PollsCounted /\ KeyCounted
    BY <1>1, ReturnConstants DEF PollsCounted, KeyCounted, NoPage
  <1> QED
    BY <1>3, <1>4 DEF KeyInv

\* The invariants of a journey hold together at every moment.
LEMMA KeyInvariant == Spec => [](JourneyInv /\ PollInv /\ KeyInv)
  <1>1. Init => PollInv
    BY DEF Init, ReturnInit, PollInv, PollsWhileUseful
  <1>2. JourneyInv /\ PollInv /\ [Next]_vars => PollInv'
    BY PollsSafe
  <1>3. JourneyInv /\ JourneyInv' /\ PollInv /\ KeyInv /\ [Next]_vars => KeyInv'
    BY KeySafe
  <1> QED
    BY <1>1, <1>2, <1>3, KeyInit, Invariance, PTL DEF Spec

\* The worker refuses no poll of a first visit that waits for its payment and has had
\* every answer: twenty polls every three seconds, and those in flight besides, stay
\* below the forty requests of /orders/status, although the key is renewed by every
\* poll and never expires while the page polls (getRateLimit, checkRateLimit and
\* return-view.tsx).
THEOREM FirstVisitIsNotLimited == Spec => []OnePageIsNotLimited
  <1>1. JourneyInv /\ KeyInv => OnePageIsNotLimited
    <2> SUFFICES ASSUME JourneyInv, KeyInv, page.step = "pending", ~troubled, FirstVisit,
                        NEW r \in Requests
                 PROVE  hop[r].at # "limited"
      BY DEF OnePageIsNotLimited, FirstVisit
    <2>1. CASE place = "return"
      BY <2>1 DEF KeyInv, KeyCounted
    <2>2. CASE place # "return"
      BY <2>2 DEF JourneyInv, Whereabouts, NoPage, FreeHop
    <2> QED
      BY <2>1, <2>2
  <1> QED
    BY <1>1, KeyInvariant, PTL

\* Every variable of the journey keeps its type: what needs an argument is the
\* page's count of polls, bounded only because an interval that has given up sends
\* no more and each request is answered once, and the life of the worker's key,
\* which a put renews and does not extend.
THEOREM Types == Spec => []TypeOK
  <1>1. FormInv /\ JourneyInv /\ KeyInv => TypeOK
    <2> SUFFICES ASSUME FormInv, JourneyInv, KeyInv PROVE TypeOK
      OBVIOUS
    <2>1. page \in PageShapes /\ page.pollCount \in Nat
      BY DEF JourneyInv, Shapes, PageShapes
    <2>2. page.pollCount <= MaxAutoPolls + Cardinality(Requests)
      <3>1. CASE page.shown = NoOrder
        <4>1. page.pollCount = 0
          BY <3>1, ReturnConstants DEF JourneyInv, Whereabouts, NoPage
        <4> QED
          BY <4>1, Sets, ReturnConstants
      <3>2. CASE page.shown # NoOrder
        BY <2>1, <3>2, Sets, ReturnConstants DEF KeyInv, PollsCounted
      <3> QED
        BY <3>1, <3>2
    <2>3. page.pollCount \in 0..MaxAutoPolls + Cardinality(Requests)
      BY <2>1, <2>2, Sets, ReturnConstants
    <2>4. page \in Pages
      BY <2>1, <2>3 DEF PageShapes, Pages
    <2>5. ReturnTypeOK
      BY <2>4 DEF ReturnTypeOK, KeyInv, Asked, JourneyInv, Shapes
    <2> QED
      BY <2>5 DEF TypeOK, FormInv, KeyInv, Rows, JourneyInv, Shapes
  <1> QED
    BY <1>1, FormInvariant, KeyInvariant, PTL
=============================================================================
