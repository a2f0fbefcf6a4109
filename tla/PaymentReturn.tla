----------------------------- MODULE PaymentReturn -----------------------------
(***************************************************************************)
(* The page a buyer lands on after paying (checkout/return), and the       *)
(* backend handler it polls.                                               *)
(*                                                                         *)
(* The page asks for the status of its order at once and every three       *)
(* seconds, without waiting for the previous answer; answers come back in  *)
(* any order, or not at all.  An order goes from pending to paid or failed *)
(* by callbacks, by the background loop or by the poll itself, and a       *)
(* failed order may still turn out to be paid.  The order of a             *)
(* conversational sale also opens a discussion, some time after it is paid.*)
(***************************************************************************)
EXTENDS EdgeProxy, FiniteSets

CONSTANTS
    Orders,         \* orders of one buyer
    NoOrder,
    Overlapping,    \* orders whose page may have several requests in flight (bound)
    MaxAutoPolls,   \* MAX_AUTO_POLLS
    StatusPath      \* the path of the status endpoint

ASSUME ReturnConstants ==
    /\ NoOrder \notin Orders
    /\ Overlapping \subseteq Orders
    /\ MaxAutoPolls \in Nat \ {0}
    /\ StatusPath \in Paths
    /\ IsFiniteSet(Requests)

\* The worker counts the polls apart, and lets through those of one page:
\* 20 polls, 40 requests a minute.
ASSUME PollsFitTheLimit ==
    /\ "/orders/status" \in StatusPath
    /\ StatusPath \cap {"/auth/login", "/auth/register"} = {}
    /\ MaxAutoPolls + Cardinality(Requests) <= Limits.status + 1

VARIABLES
    order,      \* sales.status of each order
    chat,       \* the vendor_chat_session of the latest: none, no chat_url yet, chat_url
    page,       \* the React state of the page
    byHand,     \* requests sent by the button rather than by the interval
    reply,      \* what the backend has read for each request
    everFailed, \* history: orders whose row has been "failed"
    troubled    \* history: has a poll of this visit gone unanswered, or been asked by hand?

orderVars == <<order, everFailed>>
serverVars == <<orderVars, chat>>
returnVars == <<edgeVars, serverVars, page, byHand, reply, troubled>>

Chats == {"none", "opening", "open"}
Statuses == {"none", "pending", "paid", "failed"}
Steps == {"pending", "done", "error"}

Pages == [shown: Orders \cup {NoOrder}, step: Steps, vendorChat: Chats, polling: BOOLEAN,
          pollCount: 0..MaxAutoPolls + Cardinality(Requests), timedOut: BOOLEAN,
          checkingNow: BOOLEAN]

NoPage == [shown |-> NoOrder, step |-> "pending", vendorChat |-> "none",
           polling |-> FALSE, pollCount |-> 0, timedOut |-> FALSE, checkingNow |-> FALSE]

NoReply == [status |-> "none", chat |-> "none"]

ReturnInit ==
    /\ EdgeInit
    /\ order = [o \in Orders |-> "none"]
    /\ chat = "none"
    /\ page = NoPage
    /\ byHand = {}
    /\ reply = [r \in Requests |-> NoReply]
    /\ everFailed = {}
    /\ troubled = FALSE

ReturnTypeOK ==
    /\ EdgeTypeOK
    /\ order \in [Orders -> Statuses]
    /\ chat \in Chats
    /\ page \in Pages
    /\ byHand \subseteq Requests
    /\ reply \in [Requests -> [status: Statuses, chat: Chats]]
    /\ everFailed \subseteq Orders
    /\ troubled \in BOOLEAN

-----------------------------------------------------------------------------
(* The order at the backend *)

\* What may become of an order whoever looks at it: see SaleLifecycle.
SettledAs(status) ==
    IF status = "pending" THEN {"pending", "paid", "failed"}
    ELSE IF status = "failed" THEN {"failed", "paid"}
    ELSE {status}

SetStatus(o, status) ==
    /\ order' = [order EXCEPT ![o] = status]
    /\ everFailed' = IF status = "failed" THEN everFailed \cup {o} ELSE everFailed

\* A callback, the reconciliation loop or an administrator.
SettleOrder(o) ==
    /\ order[o] # "none"
    /\ \E status \in SettledAs(order[o]) \ {order[o]} : SetStatus(o, status)
    /\ UNCHANGED <<edgeVars, chat, page, byHand, reply, troubled>>

\* OnSaleConfirmed has started the session in the background: chat_url arrives.
OpenDiscussion ==
    /\ page.shown # NoOrder
    /\ order[page.shown] = "paid" /\ chat = "opening"
    /\ chat' = "open"
    /\ UNCHANGED <<edgeVars, order, everFailed, page, byHand, reply, troubled>>

\* SaleHandler.CheckoutStatus: a pending order is settled if the provider says so,
\* and the status that results is the one answered ...
ReadStatus(r) ==
    LET o == page.shown IN
    /\ Forward(r)
    /\ \E status \in IF order[o] = "pending" THEN SettledAs("pending") ELSE {order[o]} :
          /\ SetStatus(o, status)
          /\ reply' = [reply EXCEPT ![r] = [status |-> status, chat |-> "none"]]
    /\ UNCHANGED <<chat, page, byHand, troubled>>

\* ... then the session of the order is read.
ReadSession(r) ==
    /\ RelayResponse(r)
    /\ reply' = [reply EXCEPT ![r].chat = chat]
    /\ UNCHANGED <<serverVars, page, byHand, troubled>>

-----------------------------------------------------------------------------
(* The page *)

\* What the page shows: two waiting screens, of which only the late one has
\* buttons, two of a paid order, and the failure that offers to pay again.
Screen ==
    IF page.step = "pending" THEN (IF page.timedOut THEN "late" ELSE "waiting")
    ELSE IF page.step = "error" THEN "failed"
    ELSE IF page.vendorChat = "none" THEN "download" ELSE "discussion"

Answered(r) == hop[r].at = "answered"

\* Requests are alike: any free one will do.
FreeRequests ==
    LET free == {r \in Requests : hop[r] = FreeHop}
    IN  IF page.shown \in Overlapping \/ free = Requests THEN free ELSE {}
NextRequest == CHOOSE r \in FreeRequests : TRUE

\* getCheckoutStatus.
Send(manual) ==
    /\ FreeRequests # {}
    /\ Receive(NextRequest, StatusPath)
    /\ byHand' = IF manual THEN byHand \cup {NextRequest} ELSE byHand

Release(r) ==
    /\ hop' = [hop EXCEPT ![r] = FreeHop]
    /\ byHand' = byHand \ {r}
    /\ reply' = [reply EXCEPT ![r] = NoReply]

\* Mount with the token of order o: the interval starts and a first check is sent.
OpenReturn(o) ==
    /\ page' = [NoPage EXCEPT !.shown = o, !.polling = TRUE]
    /\ troubled' = FALSE
    /\ Send(FALSE)

\* Unmount: the interval is cleared, and requests in flight go on for nobody.  They
\* are forgotten: what they may still do to the order, SettleOrder does.
LeaveReturn ==
    /\ page' = NoPage /\ troubled' = FALSE /\ chat' = "none"
    /\ hop' = [r \in Requests |-> FreeHop]
    /\ byHand' = {}
    /\ reply' = [r \in Requests |-> NoReply]
    /\ UNCHANGED kv

\* Three seconds pass; setInterval fires if it has not been cleared.
Tick ==
    /\ kv' = Aged
    /\ IF page.polling
       THEN /\ FreeRequests # {}
            /\ hop' = [hop EXCEPT ![NextRequest] = ReceivedHop(StatusPath)]
       ELSE UNCHANGED hop
    /\ UNCHANGED <<serverVars, page, byHand, reply, troubled>>

\* "Vérifier maintenant", offered once the automatic polls have given up.
handleManualCheck ==
    /\ page.shown # NoOrder /\ Screen = "late" /\ ~page.checkingNow
    /\ page' = [page EXCEPT !.checkingNow = TRUE]
    /\ troubled' = TRUE
    /\ Send(TRUE)
    /\ UNCHANGED <<serverVars, reply>>

\* setVendorChat, when the answer has a session.
WithChat(p, c) == IF c = "none" THEN p ELSE [p EXCEPT !.vendorChat = c]


\* Mutant: an order that failed leaves the interval running.
CheckedPage_PollsAfterFailure(p, a) ==
    LET q == WithChat(p, a.chat) IN
    IF a.status = "paid"
    THEN [q EXCEPT !.step = "done", !.polling = @ /\ a.chat = "opening"]
    ELSE IF a.status = "failed" THEN [q EXCEPT !.step = "error"]
    ELSE [q EXCEPT !.pollCount = @ + 1,
                   !.polling = @ /\ q.pollCount + 1 < MaxAutoPolls,
                   !.timedOut = @ \/ q.pollCount + 1 >= MaxAutoPolls]

\* Mutant: a paid order ends the polling, its discussion open or not.
CheckedPage_StopsOncePaid(p, a) ==
    LET q == WithChat(p, a.chat) IN
    IF a.status = "paid"
    THEN [q EXCEPT !.step = "done", !.polling = FALSE]
    ELSE IF a.status = "failed"
    THEN [q EXCEPT !.polling = FALSE, !.step = "error"]
    ELSE [q EXCEPT !.pollCount = @ + 1,
                   !.polling = @ /\ q.pollCount + 1 < MaxAutoPolls,
                   !.timedOut = @ \/ q.pollCount + 1 >= MaxAutoPolls]

\* check: what an answer to an automatic poll does to the page.
CheckedPage(p, a) ==
    LET q == WithChat(p, a.chat) IN
    IF a.status = "paid"
    THEN [q EXCEPT !.step = "done", !.polling = @ /\ a.chat = "opening"]
    ELSE IF a.status = "failed"
    THEN [q EXCEPT !.polling = FALSE, !.step = "error"]
    ELSE [q EXCEPT !.pollCount = @ + 1,
                   !.polling = @ /\ q.pollCount + 1 < MaxAutoPolls,
                   !.timedOut = @ \/ q.pollCount + 1 >= MaxAutoPolls]

\* handleManualCheck, once answered: neither counted nor a reason to stop or resume.
ManuallyCheckedPage(p, a) ==
    [WithChat(p, a.chat) EXCEPT
        !.step = IF a.status = "paid" THEN "done" ELSE IF a.status = "failed" THEN "error" ELSE @,
        !.checkingNow = FALSE]

\* An answer arrives.
Deliver(r) ==
    /\ Answered(r)
    /\ page' = IF r \in byHand THEN ManuallyCheckedPage(page, reply[r])
               ELSE CheckedPage(page, reply[r])
    /\ Release(r)
    /\ UNCHANGED <<kv, serverVars, troubled>>

Unanswered(r) == hop[r].at \in {"limited", "unavailable"}

\* Mutant: an unanswered poll is taken for a failed payment.
DeliverError_AsFailure(r) ==
    /\ Answered(r) \/ Unanswered(r)
    /\ page' = [page EXCEPT !.step = "error", !.polling = FALSE, !.checkingNow = FALSE]
    /\ troubled' = TRUE
    /\ Release(r)
    /\ UNCHANGED <<kv, serverVars>>

\* fetch rejects, or the answer is 429 or 502: both callers ignore it.
DeliverError(r) ==
    /\ Answered(r) \/ Unanswered(r)
    /\ page' = IF r \in byHand THEN [page EXCEPT !.checkingNow = FALSE] ELSE page
    /\ troubled' = TRUE
    /\ Release(r)
    /\ UNCHANGED <<kv, serverVars>>

OnEdge(r) == EdgeStep(r) /\ page.shown # NoOrder /\ UNCHANGED <<serverVars, page, byHand, reply, troubled>>

ReturnNext ==
    \/ Tick
    \/ handleManualCheck
    \/ OpenDiscussion
    \/ \E o \in Orders : SettleOrder(o)
    \/ \E r \in Requests : OnEdge(r) \/ ReadStatus(r) \/ ReadSession(r) \/ Deliver(r) \/ DeliverError(r)

\* The browser's timer fires, the worker and the backend serve what they were
\* asked, and not every answer is lost: the network fails now and then.
ReturnFairness ==
    /\ WF_returnVars(Tick)
    /\ EdgeFairness
    /\ \A r \in Requests :
          /\ SF_returnVars(ReadStatus(r))
          /\ WF_returnVars(ReadSession(r))
          /\ WF_returnVars(DeliverError(r) /\ Unanswered(r))
          /\ SF_returnVars(Deliver(r))
=============================================================================
