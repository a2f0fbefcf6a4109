------------------------------ MODULE CheckoutForm ------------------------------
(***************************************************************************)
(* The two forms that ask a buyer for a mobile-money payment: the checkout *)
(* page, and the panel of a product page that opens a paid discussion with *)
(* its vendor.  They share the country, the operator, the phone and the    *)
(* confirmation code; the checkout also has a card tab with a country list *)
(* of its own, an amount for free-price products and the buyer's details.  *)
(*                                                                         *)
(* Operators, names and logos are data: an operator is what one country's  *)
(* list holds, a phone is the country it was typed under and how many of   *)
(* its digits are there.                                                   *)
(***************************************************************************)
EXTENDS Naturals, SequencesExt

CONSTANTS
    Countries,          \* mobileMoneyCountries
    DefaultCountry,     \* "SEN"
    CheckoutCountries,  \* CHECKOUT_COUNTRIES, the list of the card tab
    PawaPayOperators,   \* [Countries -> Seq(operator)], PAYOUT_COUNTRIES
    PayDunyaOperators,  \* [Countries -> Seq(operator)], PAYDUNYA_COUNTRIES
    PawaPayCode,        \* their pawaPayCode: [PayDunya operator -> operator or ""]
    PhoneLength,        \* [Countries -> Nat]
    Settings            \* what the administrator may have configured: a set of Configs

ASSUME FormConstants ==
    /\ DefaultCountry \in CheckoutCountries /\ CheckoutCountries \subseteq Countries
    /\ PawaPayOperators \in [Countries -> Seq(STRING)]
    /\ PayDunyaOperators \in [Countries -> Seq(STRING)]
    /\ PhoneLength \in [Countries -> Nat \ {0}]

VARIABLES
    form,       \* the React state of the form in use
    config,     \* what getCheckoutConfig answered to it, or NoConfig
    post        \* the order being posted: where it is, and what it carries

formVars == <<form, config, post>>

\* buildLogicalOperators: PayDunya adds the operators with no PawaPay equivalent.
LogicalOperators(c) ==
    ToSet(PawaPayOperators[c]) \cup
    {o \in ToSet(PayDunyaOperators[c]) : PawaPayCode[o] \notin ToSet(PawaPayOperators[c])}

AllOperators == UNION {LogicalOperators(c) : c \in Countries}

NoOperator == ""
Kinds == {"checkout", "chat"}
Methods == {"mobile_money", "card"}
Phones == [typedFor: Countries, digits: Nat]

Forms == [kind: Kinds, country: Countries, operator: AllOperators \cup {NoOperator},
          phone: Phones, otp: BOOLEAN, method: Methods, details: BOOLEAN,
          expanded: BOOLEAN, submitting: BOOLEAN]

\* Before the first answer: no operator is known, so none is selected.
BlankForm(kind) ==
    [kind |-> kind, country |-> DefaultCountry, operator |-> NoOperator,
     phone |-> [typedFor |-> DefaultCountry, digits |-> 0], otp |-> FALSE,
     method |-> "mobile_money", details |-> FALSE,
     expanded |-> kind = "checkout", submitting |-> FALSE]

NoPost == [at |-> "none", country |-> DefaultCountry, method |-> "mobile_money",
           operator |-> NoOperator, phone |-> [typedFor |-> DefaultCountry, digits |-> 0],
           otp |-> FALSE]

\* Before the answer the form has no operator and no card tab.
Configs == [offered: SUBSET AllOperators, otpFor: SUBSET AllOperators, cards: BOOLEAN]
NoConfig == [offered |-> {}, otpFor |-> {}, cards |-> FALSE]

FormInit(kind) == form = BlankForm(kind) /\ config = NoConfig /\ post = NoPost

OpenForm(kind) == form' = BlankForm(kind) /\ config' = NoConfig /\ post' = NoPost

FormTypeOK ==
    /\ form \in Forms
    /\ config \in Configs
    /\ post \in [at: {"none", "sent", "created", "refused"}, country: Countries, method: Methods,
                 operator: AllOperators \cup {NoOperator}, phone: Phones, otp: BOOLEAN]

-----------------------------------------------------------------------------
\* The operators shown: those of the country present in operator_providers.
Shown(c) == LogicalOperators(c) \cap config.offered

\* PawaPay's come first, each list in its order.
FirstOperator(c) ==
    LET all == PawaPayOperators[c] \o PayDunyaOperators[c]
        places == {i \in DOMAIN all : all[i] \in Shown(c)}
    IN  IF places = {} THEN NoOperator ELSE all[CHOOSE i \in places : \A j \in places : i <= j]

\* Mutant: the effect on [country] is gone.
OperatorAfter_NoEffect(c) == form.operator

\* The effect on [country]: an operator the new list lacks gives way to its first.
OperatorAfter(c) ==
    IF form.operator \in Shown(c) THEN form.operator ELSE FirstOperator(c)

\* getCheckoutConfig answers.  The effect on [country] does not run again: the
\* buyer chooses an operator.  After an error the form stays without operators.
LoadConfig ==
    /\ config = NoConfig
    /\ config' \in Settings
    /\ UNCHANGED <<form, post>>

\* Name and email, typed or filled from the account, and the amount of a free-price
\* product: all there and above the minimum, or not.
FillDetails ==
    /\ form.kind = "checkout"
    /\ form' = [form EXCEPT !.details = ~@]
    /\ UNCHANGED <<config, post>>

\* The card tab exists when card_payment_enabled was answered.
ChooseMethod(m) ==
    /\ form.kind = "checkout" /\ m # form.method
    /\ m = "card" => config.cards
    /\ form' = [form EXCEPT !.method = m]
    /\ UNCHANGED <<config, post>>

\* Mutant: the country changes under the phone.
handleCountryChange_KeepsPhone(c) ==
    /\ form.method = "mobile_money" /\ form.expanded /\ c # form.country
    /\ form' = [form EXCEPT !.country = c, !.operator = OperatorAfter(c)]
    /\ UNCHANGED <<config, post>>

\* handleCountryChange: the phone is typed again.
handleCountryChange(c) ==
    /\ form.method = "mobile_money" /\ form.expanded /\ c # form.country
    /\ form' = [form EXCEPT !.country = c, !.operator = OperatorAfter(c),
                            !.phone = [typedFor |-> c, digits |-> 0]]
    /\ UNCHANGED <<config, post>>

\* The billing country of the card tab is the same state, and leaves the phone.
ChangeBillingCountry(c) ==
    /\ form.method = "card"
    /\ c \in CheckoutCountries /\ c # form.country
    /\ form' = [form EXCEPT !.country = c, !.operator = OperatorAfter(c)]
    /\ UNCHANGED <<config, post>>

ChooseOperator(o) ==
    /\ form.method = "mobile_money" /\ form.expanded
    /\ o \in Shown(form.country) \ {form.operator}
    /\ form' = [form EXCEPT !.operator = o]
    /\ UNCHANGED <<config, post>>

\* handlePhoneChange: what is beyond the length of the country is cut.
handlePhoneChange(digits) ==
    /\ form.method = "mobile_money" /\ form.expanded
    /\ digits <= PhoneLength[form.country] /\ digits # form.phone.digits
    /\ form' = [form EXCEPT !.phone = [typedFor |-> form.country, digits |-> digits]]
    /\ UNCHANGED <<config, post>>

\* The field exists for an operator of requires_otp; it is never emptied.
TypeOtp ==
    /\ form.method = "mobile_money" /\ ~form.otp
    /\ form.operator \in config.otpFor
    /\ form' = [form EXCEPT !.otp = TRUE]
    /\ UNCHANGED <<config, post>>

\* The button of the product page first unfolds the panel.
Unfold ==
    /\ ~form.expanded
    /\ form' = [form EXCEPT !.expanded = TRUE]
    /\ UNCHANGED <<config, post>>

MobileMoneyValid ==
    \/ form.method # "mobile_money"
    \/ /\ form.operator # NoOperator
       /\ form.phone.digits = PhoneLength[form.country]
       /\ form.operator \in config.otpFor => form.otp

\* Mutant: the button stays enabled while the order is being posted.
CanSubmit_NotWhileIdle ==
    /\ MobileMoneyValid
    /\ IF form.kind = "chat" THEN form.expanded ELSE form.details

\* canPay of the discussion panel, unfolded.
CanPay == form.expanded /\ MobileMoneyValid

\* The pay button of the checkout page.
CanCheckout == form.details /\ MobileMoneyValid

CanSubmit == ~form.submitting /\ IF form.kind = "chat" THEN CanPay ELSE CanCheckout

\* What the panel sends to openVendorConversation.
ConversationPost ==
    [NoPost EXCEPT !.at = "sent", !.country = form.country, !.operator = form.operator,
                   !.phone = form.phone, !.otp = form.operator \in config.otpFor /\ form.otp]

\* What the checkout sends to createOrder: a card order has no phone nor operator.
OrderPost ==
    IF form.method = "mobile_money" THEN ConversationPost
    ELSE [NoPost EXCEPT !.at = "sent", !.country = form.country, !.method = form.method]

\* handleSubmit and handleOpen up to their await.
handleSubmit ==
    /\ CanSubmit
    /\ form' = [form EXCEPT !.submitting = TRUE]
    /\ post' = IF form.kind = "chat" THEN ConversationPost ELSE OrderPost
    /\ UNCHANGED config

\* Its catch: the message is shown and the button enabled again.
SubmitFails ==
    /\ post.at # "none"
    /\ form' = [form EXCEPT !.submitting = FALSE]
    /\ post' = NoPost
    /\ UNCHANGED config

FormStep ==
    \/ LoadConfig \/ FillDetails \/ TypeOtp \/ Unfold \/ handleSubmit
    \/ \E m \in Methods : ChooseMethod(m)
    \/ \E c \in Countries : handleCountryChange(c) \/ ChangeBillingCountry(c)
    \/ \E o \in AllOperators : ChooseOperator(o)
    \/ \E d \in {0, PhoneLength[form.country] - 1, PhoneLength[form.country]} : handlePhoneChange(d)
=============================================================================
