---------------------------- MODULE VendorScreens -----------------------------
(***************************************************************************)
(* The list screens of app/(app)/vendor and /closer: what vendors earn,    *)
(* sell and advertise, their shop and their links.  They show the rows the *)
(* administration's screens decide on.                                     *)
(***************************************************************************)
EXTENDS MoneyScreens, CatalogScreens

-----------------------------------------------------------------------------
\* vendor/earnings/page.tsx: where the money goes, and how much may leave.
\* That the phone was verified is known to the session, not to this page.

Earners == [status : {"vendor"}, mobile : BOOLEAN, paypal : BOOLEAN, available : BOOLEAN]
HasPayoutMethod(v) == v.mobile \/ v.paypal

earningsSaveMethod == Handler("success", Whole("methodSubmitting"), "await")
earningsSavePayPal == Handler("success", Whole("paypalSubmitting"), "await")
earningsPayout     == Handler("success", Whole("submitting"), "reload")

PayoutButton(v) == [payout |-> HasPayoutMethod(v) /\ v.available]
MethodCards(v)  == [saveMethod |-> TRUE, savePayPal |-> TRUE]
EarningsOffers(v) == PayoutButton(v) @@ MethodCards(v)
EarningsDialogs == {"saveMethod", "savePayPal", "payout"}

\* PayoutHandler.Create: below PayPal's minimum only a phone can be paid.
RequestPayout(v) ==
    When(HasPayoutMethod(v) /\ v.available,
         Ok([v EXCEPT !.available = FALSE]) \cup When(~v.mobile, Error(v)))

EarningsBackend(v) ==
    [saveMethod |-> Ok([v EXCEPT !.mobile = TRUE]),
     savePayPal |-> Ok([v EXCEPT !.paypal = TRUE]),
     payout |-> RequestPayout(v),
     sale |-> Ok([v EXCEPT !.available = TRUE])]

Earnings ==
    NewScreen(Earners, {v \in Earners : ~v.mobile}, "all" :> Earners, "all", FALSE, TRUE,
        EarningsDialogs,
        [saveMethod |-> earningsSaveMethod, savePayPal |-> earningsSavePayPal,
         payout |-> earningsPayout],
        EarningsOffers, EarningsBackend, NoCreates)

-----------------------------------------------------------------------------
\* vendor/ads/vendor-ads.tsx: the connection to Meta, and whether the
\* vendor's campaign runs.

VendorAds ==
    [status : {"ads"}, account : {"none", "expired", "connected", "ready"}, running : BOOLEAN]
Reachable(v) == v.account \in {"connected", "ready"}

adsConnect       == Handler("before", Whole("connecting"), "reload")
adsDisconnect    == Handler("before", NoLock, "patch")
adsSaveSelection == Handler("before", Whole("savingSelection"), "patch")
adsSubmit        == Handler("before", Whole("submitting"), "await")
adsStopOwn       == Handler("before", PerRow("busyId"), "await")
VendorAdsHandlers ==
    [connect |-> adsConnect, disconnect |-> adsDisconnect, saveSelection |-> adsSaveSelection,
     submit |-> adsSubmit, stop |-> adsStopOwn]

ConnectionOffers(v) == [connect |-> v.account # "ready", disconnect |-> v.account # "none"]
SelectionForm(v)    == [saveSelection |-> Reachable(v)]
CampaignForm(v)     == [submit |-> v.account = "ready"]
CampaignList(v)     == [stop |-> v.running]
VendorAdsOffers(v) ==
    ConnectionOffers(v) @@ SelectionForm(v) @@ CampaignForm(v) @@ CampaignList(v)
VendorAdsDialogs == {"disconnect", "submit", "stop"}

\* Meta may refuse anything, and says so of the connection it has ended.
MetaRefuses(v) == Error(v) \cup Error([v EXCEPT !.account = "expired"])

VendorAdsBackend(v) ==
    [connect |-> Ok([v EXCEPT !.account = "connected"]),
     disconnect |-> Ok([v EXCEPT !.account = "none"]),
     saveSelection |-> When(Reachable(v), Ok([v EXCEPT !.account = "ready"]) \cup MetaRefuses(v)),
     submit |-> When(v.account = "ready", Ok([v EXCEPT !.running = TRUE]) \cup MetaRefuses(v)),
     stop |-> When(v.running /\ Reachable(v), Ok([v EXCEPT !.running = FALSE]) \cup MetaRefuses(v)),
     sync |-> When(v.running, Ok([v EXCEPT !.running = FALSE]))]

VendorAdsScreen ==
    NewScreen(VendorAds, {[status |-> "ads", account |-> a, running |-> a = "ready"] :
                            a \in {"none", "expired", "ready"}},
        "all" :> VendorAds, "all", FALSE, TRUE, VendorAdsDialogs, VendorAdsHandlers,
        VendorAdsOffers, VendorAdsBackend, NoCreates)

-----------------------------------------------------------------------------
\* vendor/products/page.tsx: a vendor asks for a deletion, administrators do it.

vendorDeleteProduct == Handler("after", NoLock, "patch")
VendorProductsDialogs == {"delete"}
VendorProductsOffers(p) == [delete |-> ~p.deletion]
VendorProductsFiltered ==
    "all" :> Products @@ "pending" :> {p \in Products : p.status = "pending"}

VendorProductsBackend(p) ==
    LET admin == ProductsBackend(p) IN
    [delete |-> admin.requestDeletion, approve |-> admin.approve, reject |-> admin.reject,
     confirmDeletion |-> When(p.deletion, admin.confirmDeletion),
     cancelDeletion |-> When(p.deletion, admin.cancelDeletion)]

VendorProducts ==
    NewScreen(Products, {p \in Products : p.file /\ ~p.deletion}, VendorProductsFiltered, "all",
        FALSE, TRUE, VendorProductsDialogs, [delete |-> vendorDeleteProduct],
        VendorProductsOffers, VendorProductsBackend, NoCreates)

-----------------------------------------------------------------------------
\* vendor/sales/page.tsx: the reminder of a sale the buyer left unpaid.

vendorRemind == Handler("before", PerRow("remindingId"), "patch")
VendorSalesOffers(s) == [remind |-> s.status = "pending"]
VendorSalesFiltered ==
    "all" :> PendingRows @@ "pending" :> {s \in PendingRows : s.status = "pending"}

\* A second reminder waits for reminderMinInterval.
VendorSalesBackend(s) ==
    [remind |-> RemindSale(s) \cup When(s.reminded, Error(s)),
     callback |-> CheckSaleProvider(s)]

VendorSales ==
    NewScreen(PendingRows, {s \in PendingRows : s.status = "pending"}, VendorSalesFiltered, "all",
        FALSE, TRUE, {}, [remind |-> vendorRemind], VendorSalesOffers, VendorSalesBackend, NoCreates)

-----------------------------------------------------------------------------
\* vendor/events/page.tsx and vendor/products/bundles/page.tsx

vendorDeleteEvent  == Handler("after", NoLock, "reload")
vendorDeleteBundle == Handler("after", PerRow("deletingId"), "reload")
DeleteOffers(e) == [delete |-> TRUE]

\* DeleteOwned asks only whose row it is.
VendorEventsBackend(e) ==
    [delete |-> Ok(Gone), approve |-> ModerateEvent("approved"), reject |-> ModerateEvent("rejected")]

VendorEvents ==
    NewScreen(Events, Events, "all" :> Events, "all", FALSE, TRUE, {"delete"},
        [delete |-> vendorDeleteEvent], DeleteOffers, VendorEventsBackend, NoCreates)

Bundles == [status : {"bundle"}]
BundleOffers(b) == [delete |-> TRUE]
BundlesBackend(b) == [delete |-> Ok(Gone)]

VendorBundles ==
    NewScreen(Bundles, Bundles, "all" :> Bundles, "all", FALSE, TRUE, {"delete"},
        [delete |-> vendorDeleteBundle], BundleOffers, BundlesBackend, NoCreates)

-----------------------------------------------------------------------------
\* vendor/events/edit/edit-event.tsx: the offers, the programme and the
\* pictures of an event, each saved on its own.  An edition opens in place of
\* its line.  Only the last offer cannot be deleted, which no line knows.

EventParts == [status : {"offer", "item"}, edition : {"old", "new"}]
Pictures   == [status : {"gallery", "hero"}]
EventRows  == EventParts \cup Pictures

offerAdd      == Handler("success", Whole("addOfferSaving"), "reload")
offerSave     == Handler("success", Whole("offerSaving"), "reload")
itemAdd       == Handler("success", Whole("addItemSaving"), "reload")
itemSave      == Handler("success", Whole("itemSaving"), "reload")
partDelete    == Handler("after", NoLock, "reload")
galleryAdd    == Handler("before", Whole("galleryUploading"), "patch")
heroAdd       == Handler("before", Whole("heroUploading"), "patch")
pictureDelete == Handler("before", NoLock, "drop")
EditEventHandlers ==
    [saveOffer |-> offerSave, addOffer |-> offerAdd, saveItem |-> itemSave, addItem |-> itemAdd,
     deletePart |-> partDelete, addGallery |-> galleryAdd, addHero |-> heroAdd,
     deletePicture |-> pictureDelete]

EditEventOffers(r) ==
    [saveOffer |-> r.status = "offer", saveItem |-> r.status = "item",
     deletePart |-> r \in EventParts]
PictureOffers(r) == [deletePicture |-> r \in Pictures]
EventPartsAndPictures(r) == EditEventOffers(r) @@ PictureOffers(r)
EditEventDialogs == {"saveOffer", "saveItem", "deletePart", "addOffer", "addItem"}
EditEventCreates ==
    [addOffer |-> {[status |-> "offer", edition |-> "old"]},
     addItem |-> {[status |-> "item", edition |-> "old"]},
     addGallery |-> {[status |-> "gallery"]}, addHero |-> {[status |-> "hero"]}]

EditEventBackend(r) ==
    [saveOffer |-> When(r.status = "offer", Ok([r EXCEPT !.edition = "new"])),
     saveItem |-> When(r.status = "item", Ok([r EXCEPT !.edition = "new"])),
     deletePart |-> When(r \in EventParts, Ok(Gone) \cup When(r.status = "offer", Error(r))),
     deletePicture |-> When(r \in Pictures, Ok(Gone))]

EditEvent ==
    NewScreen(EventRows, {Blank, [status |-> "gallery"]} \cup {r \in EventParts : r.edition = "old"},
        "all" :> EventRows, "all", FALSE, FALSE, EditEventDialogs, EditEventHandlers,
        EventPartsAndPictures, EditEventBackend, EditEventCreates)

-----------------------------------------------------------------------------
\* vendor/affiliation/page.tsx: the switch sends the value the page shows,
\* inverted.

Affiliated == [status : {"product"}, affiliate : BOOLEAN]

affiliationToggle == Handler("before", PerRow("savingId"), "patch")
AffiliationOffers(p) == [enable |-> ~p.affiliate, disable |-> p.affiliate]
AffiliationBackend(p) ==
    [enable |-> Ok([p EXCEPT !.affiliate = TRUE]), disable |-> Ok([p EXCEPT !.affiliate = FALSE])]

Affiliation ==
    NewScreen(Affiliated, Affiliated, "all" :> Affiliated, "all", FALSE, TRUE, {},
        [enable |-> affiliationToggle, disable |-> affiliationToggle],
        AffiliationOffers, AffiliationBackend, NoCreates)

-----------------------------------------------------------------------------
\* vendor/notifications/page.tsx: opening an unread notification marks it.

Notifications == [status : {"notification"}, read : BOOLEAN]

notificationsMarkRead == Handler("before", NoLock, "patch")
NotificationsOffers(n) == [markRead |-> ~n.read]
NotificationsBackend(n) == [markRead |-> Ok([n EXCEPT !.read = TRUE])]

VendorNotifications ==
    NewScreen(Notifications, Notifications, "all" :> Notifications, "all", FALSE, TRUE, {},
        [markRead |-> notificationsMarkRead], NotificationsOffers, NotificationsBackend, NoCreates)

-----------------------------------------------------------------------------
\* vendor/account/page.tsx: two forms on one account, read back by the session.

Shops == [status : {"shop"}, shop : {"old", "new"}, tracking : {"old", "new"}]

shopSave     == Handler("before", Whole("saving"), "await")
shopTracking == Handler("before", Whole("savingTracking"), "await")
ShopForms(s) == [saveShop |-> TRUE, saveTracking |-> TRUE]
ShopBackend(s) ==
    [saveShop |-> Ok([s EXCEPT !.shop = "new"]),
     saveTracking |-> Ok([s EXCEPT !.tracking = "new"]) \cup Error(s)]

VendorAccount ==
    NewScreen(Shops, {[status |-> "shop", shop |-> "old", tracking |-> "old"]}, "all" :> Shops, "all",
        FALSE, FALSE, {}, [saveShop |-> shopSave, saveTracking |-> shopTracking],
        ShopForms, ShopBackend, NoCreates)

-----------------------------------------------------------------------------
\* closer/dashboard/page.tsx: the form of a new link is never disabled.

Links == [status : {"link"}]

closerCreate == Handler("success", NoLock, "reload")
LinksOffers(l) == <<>>
LinksBackend(l) == <<>>

LinksCreates == [create |-> Links]

CloserDashboard ==
    NewScreen(Links, Links \cup {Blank}, "all" :> Links, "all", FALSE, FALSE, {},
        [create |-> closerCreate], LinksOffers, LinksBackend, LinksCreates)

===============================================================================
