---------------------------- MODULE MemberScreens -----------------------------
(***************************************************************************)
(* The pages every member has: orders, the account, support, the check of  *)
(* a ticket at the door, the codes that prove an address or a phone, and   *)
(* the notifications of a device.                                          *)
(***************************************************************************)
EXTENDS Screen, Naturals

-----------------------------------------------------------------------------
\* orders/page.tsx and order/order-detail.tsx

Orders == [status : {"pending", "paid", "delivered", "failed"}]
Deliverable(o) == o.status \in {"paid", "delivered"}

ordersDownload == Handler("before", PerRow("downloadingId"), "none")
orderDownload  == Handler("before", Whole("delivering"), "none")
OrdersOffers(o) == [download |-> Deliverable(o)]
OrderButtons(o) == [download |-> Deliverable(o)]
OrdersFiltered ==
    "all" :> Orders
    @@ "available" :> {o \in Orders : Deliverable(o)}
    @@ "pending" :> {o \in Orders : o.status = "pending"}

\* DeliveryHandler.generate; deliveryRegenerateLimit may refuse any order.
OrdersBackend(o) ==
    [download |-> When(Deliverable(o), Ok(o) \cup Error(o)),
     callback |-> When(o.status = "pending", {<<"ok", [status |-> s]>> : s \in {"paid", "failed"}}),
     deliver |-> When(o.status = "paid", Ok([status |-> "delivered"]))]

OrdersScreen ==
    NewScreen(Orders, {o \in Orders : o.status \in {"pending", "paid"}}, OrdersFiltered, "all",
        FALSE, TRUE, {}, [download |-> ordersDownload], OrdersOffers, OrdersBackend, NoCreates)

OrderScreen ==
    NewScreen(Orders, {o \in Orders : o.status \in {"pending", "paid"}}, "all" :> Orders, "all",
        FALSE, TRUE, {}, [download |-> orderDownload], OrderButtons, OrdersBackend, NoCreates)

-----------------------------------------------------------------------------
\* account/page.tsx: the account, as the session last read it.

Members ==
    [status : {"member"}, vendeur : BOOLEAN, profile : {"old", "new"},
     phone : {"none", "unverified", "verified"}]

accountBecomeVendor == Handler("before", Whole("becomingVendor"), "await")
accountSaveMethod   == Handler("success", Whole("methodSubmitting"), "await")
accountSaveProfile  == Handler("before", NoLock, "await")
AccountHandlers ==
    [becomeVendor |-> accountBecomeVendor, saveMethod |-> accountSaveMethod,
     saveProfile |-> accountSaveProfile]

AccountOffers(m) ==
    [becomeVendor |-> ~m.vendeur, saveProfile |-> m.vendeur, saveMethod |-> TRUE]
\* payout-method-form.tsx, in place of the method it edits.
MethodForm == {"saveMethod"}

\* The role is given before the profile is saved; another number has to be
\* verified again; the forms of codes verify it.
AccountBackend(m) ==
    [becomeVendor |-> Ok([m EXCEPT !.vendeur = TRUE, !.profile = "new"])
                      \cup Error([m EXCEPT !.vendeur = TRUE]),
     saveMethod |-> Ok([m EXCEPT !.phone = "unverified"])
                    \cup When(m.phone # "none", Ok(m)),
     saveProfile |-> Ok([m EXCEPT !.profile = "new"]),
     verify |-> When(m.phone = "unverified", Ok([m EXCEPT !.phone = "verified"]))]

MemberAccount ==
    NewScreen(Members, {m \in Members : m.profile = "old" /\ m.phone # "verified"},
        "all" :> Members, "all", FALSE, FALSE, MethodForm, AccountHandlers,
        AccountOffers, AccountBackend, NoCreates)

-----------------------------------------------------------------------------
\* support/page.tsx and support/ticket/ticket-detail.tsx.  No handler ever
\* closes a ticket.

MyTickets == [status : {"open", "answered"}, mine : 1..2]
NewTicket == [status |-> "open", mine |-> 1]

supportCreate == Handler("success", Whole("submitting"), "await")
NoButtons(r) == <<>>
Answer(t) == When(t.status = "open", Ok([t EXCEPT !.status = "answered"]))
MyTicketsBackend(t) == [answer |-> Answer(t)]

TicketForm == [create |-> {NewTicket}]

MemberSupport ==
    NewScreen(MyTickets, {Blank, NewTicket}, "all" :> MyTickets, "all", FALSE, TRUE,
        {"create"}, [create |-> supportCreate], NoButtons, MyTicketsBackend, TicketForm)

ticketSend == Handler("before", Whole("sending"), "await")
TicketOffers(t) == [send |-> TRUE]
\* Bound: a second message of a member stands for all that follow.
SendMessage(t) == Ok([t EXCEPT !.status = "open", !.mine = 2])
TicketBackend(t) == [send |-> SendMessage(t), answer |-> Answer(t)]

TicketThread ==
    NewScreen(MyTickets, MyTickets, "all" :> MyTickets, "all", FALSE, TRUE, {},
        [send |-> ticketSend], TicketOffers, TicketBackend, NoCreates)

-----------------------------------------------------------------------------
\* scan/ticket-scan.tsx: the door.  Other phones scan the same tickets, and
\* CheckIn lets one of them in.

EntryTickets == [status : {"ticket"}, already_used : BOOLEAN]

scanConfirm == Handler("before", Whole("confirming"), "patch")
ScanOffers(t) == [confirm |-> ~t.already_used]
CheckIn(t) == Ok([t EXCEPT !.already_used = TRUE])
ScanBackend(t) == [confirm |-> CheckIn(t)]

TicketScan ==
    NewScreen(EntryTickets, EntryTickets, "all" :> EntryTickets, "all", FALSE, TRUE, {},
        [confirm |-> scanConfirm], ScanOffers, ScanBackend, NoCreates)

-----------------------------------------------------------------------------
\* otp-form.tsx: a code is sent, then typed.  Each wrong code counts, up to
\* maxAttempts (here: "last" is the one before it).

CodeStates == {"none", "sent", "last", "spent"}
Codes == [status : {"unverified", "verified"}, code : CodeStates]
\* The page that holds the form leaves once the address is verified.
Unverified(c) == c.status = "unverified"

codeSend   == Handler("before", Whole("sending"), "patch")
codeVerify == Handler("before", Whole("verifying"), "await")
CodesOffers(c) == [send |-> Unverified(c), verify |-> Unverified(c)]

\* otp.Service: Issue may have to wait for resendCooldown, Verify looks at the
\* attempts before it compares; neither asks whether a code is still needed.
Issue(c) == Ok([c EXCEPT !.code = "sent"]) \cup Error(c)
Verify(c) ==
    When(c.code \in {"sent", "last"},
         Ok([c EXCEPT !.status = "verified", !.code = "none"])
         \cup Error([c EXCEPT !.code = IF @ = "sent" THEN "last" ELSE "spent"]))
CodesBackend(c) == [send |-> Issue(c), verify |-> Verify(c)]

CodeForm ==
    NewScreen(Codes, {c \in Codes : Unverified(c) /\ c.code \in {"none", "sent"}},
        "all" :> Codes, "all", FALSE, FALSE, {}, [send |-> codeSend, verify |-> codeVerify],
        CodesOffers, CodesBackend, NoCreates)

-----------------------------------------------------------------------------
\* phone-verify-form.tsx: Firebase sends and checks the message; a code by
\* e-mail replaces it when it does not arrive.

PhoneCodes ==
    [status : {"unverified", "verified"}, code : CodeStates, confirmation : BOOLEAN]
NeedsPhone(c) == c.status = "unverified"

phoneSendSms     == Handler("before", Whole("sending"), "patch")
phoneVerifySms   == Handler("before", Whole("verifying"), "await")
phoneSendEmail   == Handler("before", Whole("sending"), "patch")
phoneVerifyEmail == Handler("before", Whole("verifying"), "await")
PhoneHandlers ==
    [sendSms |-> phoneSendSms, verifySms |-> phoneVerifySms, sendEmail |-> phoneSendEmail,
     verifyEmail |-> phoneVerifyEmail]

\* Each form shows its first step until its code was sent.
SmsForm(c) ==
    [sendSms |-> NeedsPhone(c) /\ ~c.confirmation,
     verifySms |-> NeedsPhone(c) /\ c.confirmation]
EmailFallback(c) ==
    [sendEmail |-> NeedsPhone(c) /\ c.code = "none",
     verifyEmail |-> NeedsPhone(c) /\ c.code # "none"]
PhoneOffers(c) == SmsForm(c) @@ EmailFallback(c)

\* VerifyPhoneFirebase: the number Firebase checked may belong to an account.
VerifyPhone(c) == When(c.confirmation, Ok([c EXCEPT !.status = "verified"]) \cup Error(c))
PhoneBackend(c) ==
    [sendSms |-> Ok([c EXCEPT !.confirmation = TRUE]) \cup Error(c), verifySms |-> VerifyPhone(c),
     sendEmail |-> Issue(c), verifyEmail |-> Verify(c)]

PhoneForm ==
    NewScreen(PhoneCodes, {c \in PhoneCodes : NeedsPhone(c) /\ c.code \in {"none", "sent"}},
        "all" :> PhoneCodes, "all", FALSE, FALSE, {}, PhoneHandlers,
        PhoneOffers, PhoneBackend, NoCreates)

-----------------------------------------------------------------------------
\* notification-settings.tsx: the browser's subscription, and the backend's.

Devices == [status : {"device"}, browser : BOOLEAN, backend : BOOLEAN]

pushEnable  == Handler("before", Whole("loading"), "patch")
pushDisable == Handler("before", Whole("loading"), "patch")
PushOffers(d) == [enable |-> ~d.browser, disable |-> d.browser]

\* The browser subscribes before the backend is told of it; it unsubscribes
\* whether or not the backend could be told.
Enable(d) ==
    Ok([d EXCEPT !.browser = TRUE, !.backend = TRUE]) \cup Error([d EXCEPT !.browser = TRUE])
Disable(d) == {<<"ok", [d EXCEPT !.browser = FALSE, !.backend = b]>> : b \in {FALSE, d.backend}}
PushBackend(d) == [enable |-> Enable(d), disable |-> Disable(d)]

PushSettings ==
    NewScreen(Devices, {d \in Devices : d.browser = d.backend}, "all" :> Devices, "all",
        FALSE, FALSE, {}, [enable |-> pushEnable, disable |-> pushDisable],
        PushOffers, PushBackend, NoCreates)

===============================================================================
