------------------------------ MODULE MCWebPages ------------------------------
(***************************************************************************)
(* The pages behind the login, with every screen of the site, for TLC.     *)
(***************************************************************************)
EXTENDS WebPages, VendorScreens, PeopleScreens, MemberScreens

CONSTANTS t1, t2, c1, c2

\* Both calls are made by one tab; the other refreshes on its own.
MCOwner == c1 :> t1 @@ c2 :> t1

MCScreens ==
    [payouts |-> Payouts, sales |-> Sales, pending |-> PendingSales, donations |-> Donations,
     gateway |-> Gateway, transactions |-> GatewayTransactions, overview |-> Overview,
     products |-> ProductsScreen, events |-> EventsScreen, webinars |-> WebinarsScreen,
     sponsors |-> SponsorsScreen, announcements |-> AnnouncementsScreen, ads |-> AdsScreen,
     users |-> Users, permissions |-> Permissions, support |-> Support, agents |-> SupportAgents,
     mail |-> VendorMail, broadcast |-> Broadcast, automation |-> Automation,
     settings |-> Settings, log |-> ActivityLog,
     earnings |-> Earnings, vendorAds |-> VendorAdsScreen, vendorProducts |-> VendorProducts,
     vendorSales |-> VendorSales, vendorEvents |-> VendorEvents, editEvent |-> EditEvent,
     bundles |-> VendorBundles, affiliation |-> Affiliation,
     notifications |-> VendorNotifications, shop |-> VendorAccount, closer |-> CloserDashboard,
     orders |-> OrdersScreen, order |-> OrderScreen, account |-> MemberAccount,
     tickets |-> MemberSupport, thread |-> TicketThread, scan |-> TicketScan,
     code |-> CodeForm, phone |-> PhoneForm, push |-> PushSettings]

On(page, acts) == {page} \X acts

\* Buttons the page does not disable, and confirmations that can be pressed
\* again until the answer closes them.
MCUnlocked ==
    On("donations", {"toggleActive", "delete"}) \cup On("overview", {"retry"})
    \cup On("products", {"approve", "reject", "confirmDeletion", "cancelDeletion"})
    \cup On("sponsors", {"deleteTier", "deleteSponsor"})
    \cup On("users", {"suspend", "reactivate", "setRole", "promote", "yesChat"})
    \cup On("permissions", {"toggle", "demote"}) \cup On("agents", {"toggleActive", "delete"})
    \cup On("vendorAds", {"disconnect"}) \cup On("vendorProducts", {"delete"})
    \cup On("vendorEvents", {"delete"}) \cup On("bundles", {"delete"})
    \cup On("editEvent", {"deletePart", "deletePicture"})
    \cup On("notifications", {"markRead"}) \cup On("closer", {"create"})
    \cup On("account", {"saveProfile"})

\* Handlers that write whatever the row has become.  (A few of these need a
\* third decision to be seen: a refund during a check of the provider, a code
\* sent after the address was verified, a suspension during two others.)
MCTrusting ==
    On("payouts", {"checkProvider"}) \cup On("products", {"confirmDeletion"})
    \cup On("events", {"approve", "reject"})
    \cup On("users", {"suspend", "reactivate", "setRole", "yesChat"})
    \cup On("permissions", {"toggle"}) \cup On("account", {"becomeVendor"})
    \cup On("code", {"send", "verify"})
    \cup On("phone", {"sendSms", "sendEmail", "verifyEmail"})
    \cup On("push", {"enable", "disable"})

\* Buttons shown on rows the backend refuses: a sale paid through PayDunya, a
\* campaign whose Meta account was disconnected, a code never sent or tried
\* too often.
MCRefused ==
    On("sales", {"refund"}) \cup On("vendorAds", {"stop"}) \cup On("code", {"verify"})
    \cup On("phone", {"verifyEmail"})

\* Forms whose picture may be another one than the person's last: they do not
\* wait for uploads, or let two run under one flag, or keep one across an
\* emptied form.
MCHasty ==
    {"newProduct", "newEvent", "editEvent", "newWebinar", "sponsorForm", "announcement"}

\* finally gives the button back while router.push is still loading the page.
MCRepeatable == {"newProduct", "newEvent", "editEvent", "newBundle", "editProduct", "login"}

===============================================================================
