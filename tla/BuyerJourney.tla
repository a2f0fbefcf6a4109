------------------------------ MODULE BuyerJourney ------------------------------
(***************************************************************************)
(* A buyer's way from a product to a paid order: the payment form, the     *)
(* order posted to the backend, the page that waits for the payment, and   *)
(* the second attempt that page invites to when it says the payment failed.*)
(*                                                                         *)
(* Composes CheckoutForm with PaymentReturn, whose polls go through        *)
(* EdgeProxy.  The backend's side of a sale is SaleLifecycle's subject; an *)
(* order is here what this buyer's pages can tell of it.                   *)
(***************************************************************************)
EXTENDS CheckoutForm, PaymentReturn

CONSTANTS
    Chatty,     \* does the product sell through paid discussions?
    Visitors    \* who may look at the product page: "guest", "buyer", "vendor"

VARIABLES
    place,      \* the screen: the form, the return page, or elsewhere for good
    visitor,    \* who looks at the product page
    posted,     \* the order the post in progress has created, or NoOrder
    lost        \* history: orders created by a post whose answer was lost

journeyVars == <<place, visitor, posted, lost>>
vars == <<formVars, returnVars, journeyVars>>

ASSUME JourneyConstants ==
    /\ Chatty \in BOOLEAN
    /\ Visitors \subseteq {"guest", "buyer", "vendor"}
    /\ Settings \subseteq {c \in Configs : c.otpFor \subseteq c.offered}

TypeOK ==
    /\ FormTypeOK
    /\ ReturnTypeOK
    /\ place \in {"form", "return", "elsewhere"}
    /\ visitor \in Visitors
    /\ posted \in Orders \cup {NoOrder}
    /\ lost \subseteq Orders

\* The product page: its purchase button leads anyone to the checkout, the panel
\* of the paid discussion is there for a signed-in buyer other than the vendor.
FormsOffered(who) ==
    {"checkout"} \cup (IF Chatty /\ who = "buyer" THEN {"chat"} ELSE {})

Init ==
    /\ ReturnInit
    /\ visitor \in Visitors
    /\ \E kind \in FormsOffered(visitor) : FormInit(kind)
    /\ place = "form" /\ posted = NoOrder /\ lost = {}

\* Bound: the journey ends when every order has been created.
OrdersLeft == \E o \in Orders : order[o] = "none"

OnForm == OrdersLeft /\ FormStep /\ place = "form" /\ UNCHANGED <<returnVars, journeyVars>>

\* initiateCheckout refuses an operator that is not one of the country and of the
\* settings; the provider wants a complete number, and the code of an operator
\* that asks for one.
AcceptsPayment(p) ==
    p.method = "mobile_money" =>
        /\ p.operator \in config.offered /\ p.operator \in LogicalOperators(p.country)
        /\ p.phone.digits = PhoneLength[p.country]
        /\ p.operator \in config.otpFor => p.otp

\* The backend inserts the order, then initiates its deposit: a refusal marks the
\* row failed and is answered by an error.
CreateOrder(o) ==
    /\ post.at = "sent"
    /\ order[o] = "none"
    /\ o = CHOOSE fresh \in Orders : order[fresh] = "none"
    /\ posted' = o
    /\ \/ /\ AcceptsPayment(post)
          /\ SetStatus(o, "pending") /\ post' = [post EXCEPT !.at = "created"]
       \/ SetStatus(o, "failed") /\ post' = [post EXCEPT !.at = "refused"]
    /\ chat' = IF form.kind = "chat" THEN "opening" ELSE "none"
    /\ UNCHANGED <<form, config, edgeVars, page, byHand, reply, troubled, place, visitor, lost>>

\* Any refusal that creates nothing: the product is gone, 429 at the worker ...
RefuseOrder ==
    /\ post.at = "sent"
    /\ post' = [post EXCEPT !.at = "refused"]
    /\ UNCHANGED <<form, config, returnVars, journeyVars>>

\* redirect_url: the browser leaves the form for the page that waits.
Redirect ==
    /\ post.at = "created" /\ place = "form"
    /\ place' = "return" /\ posted' = NoOrder
    /\ OpenForm(form.kind)
    /\ OpenReturn(posted)
    /\ UNCHANGED <<kv, reply, serverVars, visitor, lost>>

\* The catch of the form: a refusal, or an answer that never came.
ShowFormError ==
    /\ place = "form"
    /\ SubmitFails
    /\ posted' = NoOrder /\ chat' = "none"
    /\ lost' = IF post.at = "created" THEN lost \cup {posted} ELSE lost
    /\ UNCHANGED <<edgeVars, orderVars, page, byHand, reply, troubled, place, visitor>>

\* "Réessayer le paiement": the product page, and a blank form again.
Retry ==
    /\ place = "return" /\ Screen = "failed" /\ OrdersLeft
    /\ place' = "form"
    /\ \E kind \in FormsOffered(visitor) : OpenForm(kind)
    /\ LeaveReturn
    /\ UNCHANGED <<orderVars, visitor, posted, lost>>

\* The links of the final screens and of the late one: catalogue, orders, support.
LeaveForGood ==
    /\ place = "return" /\ Screen # "waiting"
    /\ place' = "elsewhere"
    /\ LeaveReturn
    /\ UNCHANGED <<formVars, orderVars, visitor, posted, lost>>

OnReturn == ReturnNext /\ UNCHANGED <<formVars, journeyVars>>

Next ==
    \/ OnForm \/ RefuseOrder \/ Redirect \/ ShowFormError \/ Retry \/ LeaveForGood
    \/ \E o \in Orders : CreateOrder(o)
    \/ OnReturn

Spec == Init /\ [][Next]_vars /\ ReturnFairness

-----------------------------------------------------------------------------
(* Properties *)

\* The forms never post a payment the backend must refuse for its operator, its
\* number or its code, although the lists they validate against arrive after the
\* form is first shown and the country may be changed from two places.
PaymentsPostedAreAccepted == post.at = "sent" => AcceptsPayment(post)

\* The number prompted is one the buyer typed under the country of the order.
\* The card tab breaks it: it changes the country and keeps the number.
NumberOfThisCountry ==
    post.at = "sent" /\ post.method = "mobile_money" /\ ~config.cards
        => post.phone.typedFor = post.country

\* A buyer pays twice in one journey only if an order of theirs had been failed
\* in the database, or its creation had been answered by silence: neither the
\* waiting page nor the form ever invites to pay again for another reason.
ChargedTwiceOnlyAfterFailure ==
    Cardinality({o \in Orders : order[o] = "paid"}) > 1
        => \E o \in Orders : o \in everFailed \cup lost

\* The page says "paid" only of a paid order and "failed" only of one that has
\* been failed, however late or disordered the answers.
ScreenTellsTheTruth ==
    place = "return" =>
        /\ page.step = "done" => order[page.shown] = "paid"
        /\ page.step = "error" => page.shown \in everFailed

\* A page that waits keeps polling, and one that failed or gave up never does.
PollsWhileUseful ==
    place = "return" =>
        /\ page.step = "pending" /\ ~page.timedOut => page.polling
        /\ page.polling => page.step # "error" /\ ~page.timedOut

\* The worker refuses no poll of a page that waits for its payment and has had
\* every answer: the limit of the path is above what the page asks in a window.
OnePageIsNotLimited ==
    page.step = "pending" /\ ~troubled /\ (\A o \in Orders : order[o] # "none" => o = page.shown)
        => \A r \in Requests : hop[r].at # "limited"

\* Waiting ends, with a verdict or with the late screen, although answers may be
\* lost and the worker may refuse some polls.
WaitEnds ==
    (place = "return" /\ page.step = "pending") ~>
        (place # "return" \/ page.step # "pending" \/ page.timedOut)

\* "Le polling continue jusqu'à ce que chat_url arrive": a buyer who has paid and
\* whose discussion has opened is shown its link, although the worker refuses some
\* of the polls.  Not so on a page that had given up before, whose interval is
\* gone, nor when an answer may overtake another and bring the link back to nothing.
DiscussionReached ==
    (place = "return" /\ page.shown \notin Overlapping /\ ~page.timedOut
        /\ page.step = "done" /\ chat = "open")
      ~> (place # "return" \/ page.vendorChat = "open")
=============================================================================
