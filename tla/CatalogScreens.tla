---------------------------- MODULE CatalogScreens ----------------------------
(***************************************************************************)
(* The screens of app/(app)/admin on what the platform publishes: products *)
(* and events under moderation, webinars, the sponsors of the summit,      *)
(* announcements and the ads of vendors.                                   *)
(***************************************************************************)
EXTENDS Screen

-----------------------------------------------------------------------------
\* products/page.tsx.  [file]: there is something to deliver.

Products ==
    [status : {"pending", "approved", "rejected"}, file : BOOLEAN, deletion : BOOLEAN]

productsModerate     == Handler("after", NoLock, "await")
productsDeletion     == Handler("after", NoLock, "await")
productsAttachFile   == Handler("before", PerRow("uploadingId"), "await")
productsChangeCover  == Handler("before", PerRow("coverUploadingId"), "await")
productsDownloadFile == Handler("before", PerRow("downloadingId"), "none")
ProductsHandlers ==
    [approve |-> productsModerate, reject |-> productsModerate,
     confirmDeletion |-> productsDeletion, cancelDeletion |-> productsDeletion,
     attachFile |-> productsAttachFile, changeCover |-> productsChangeCover,
     downloadFile |-> productsDownloadFile]

ProductsOffers(p) ==
    [approve |-> p.status # "approved" /\ p.file,
     reject |-> p.status # "rejected",
     confirmDeletion |-> p.deletion, cancelDeletion |-> p.deletion,
     attachFile |-> ~p.file, changeCover |-> TRUE, downloadFile |-> p.file]
ProductsDialogs == {"approve", "reject", "confirmDeletion", "cancelDeletion"}

\* TABS: the moderation status is asked of the backend; the requests for
\* deletion are filtered among all the products.
ProductsTabs ==
    "all" :> Products
    @@ "pending" :> {p \in Products : p.status = "pending"}
    @@ "deletion" :> {p \in Products : p.deletion}

\* Moderate and ConfirmDeletion do not look at the row; a product that was
\* sold is not deleted.  The vendor asks for a deletion or edits the product.
ProductsBackend(p) ==
    [approve |-> Ok([p EXCEPT !.status = "approved"]),
     reject |-> Ok([p EXCEPT !.status = "rejected"]),
     confirmDeletion |-> Ok(Gone) \cup Error(p),
     cancelDeletion |-> Ok([p EXCEPT !.deletion = FALSE]),
     attachFile |-> Ok([p EXCEPT !.file = TRUE]),
     changeCover |-> Ok(p), downloadFile |-> When(p.file, Ok(p)),
     requestDeletion |-> Ok([p EXCEPT !.deletion = TRUE]),
     edit |-> When(p.status # "pending", Ok([p EXCEPT !.status = "pending"]))]

ProductsScreen ==
    NewScreen(Products, {p \in Products : p.status = "pending" /\ (p.file \/ ~p.deletion)},
        ProductsTabs, "pending", TRUE, TRUE, ProductsDialogs, ProductsHandlers,
        ProductsOffers, ProductsBackend, NoCreates)

-----------------------------------------------------------------------------
\* events/page.tsx: the backend lists what is pending, no answer is awaited
\* to take the row out of the page.

Events == [status : {"pending", "approved", "rejected"}]

eventsModerate == Handler("before", PerRow("busyId"), "drop")
EventsOffers(e) == [approve |-> e.status = "pending", reject |-> e.status = "pending"]
EventsListed == "all" :> {e \in Events : e.status = "pending"}

\* The UPDATE has no condition on the status.
ModerateEvent(status) == Ok([status |-> status])
EventsBackend(e) == [approve |-> ModerateEvent("approved"), reject |-> ModerateEvent("rejected")]

EventsScreen ==
    NewScreen(Events, {[status |-> "pending"]}, EventsListed, "all", TRUE, TRUE, {},
        [approve |-> eventsModerate, reject |-> eventsModerate], EventsOffers, EventsBackend,
        NoCreates)

-----------------------------------------------------------------------------
\* webinars/page.tsx: webinars and their registrations live on the YES platform.

Webinars == [status : {"scheduled", "live", "ended"}]
Registrations == [status : {"registered"}, resent : BOOLEAN]
WebinarRows == Webinars \cup Registrations

webinarsCreate == Handler("success", Whole("creating"), "await")
webinarsStart  == Handler("before", PerRow("busyId"), "await")
webinarsEnd    == Handler("before", PerRow("busyId"), "await")
webinarsStats  == Handler("before", PerRow("busyId"), "none")
webinarsResend == Handler("before", PerRow("resendingId"), "patch")
WebinarsHandlers ==
    [create |-> webinarsCreate, start |-> webinarsStart, end |-> webinarsEnd,
     stats |-> webinarsStats, resend |-> webinarsResend]

WebinarsOffers(w) ==
    [start |-> w.status = "scheduled", end |-> w.status \in {"scheduled", "live"},
     stats |-> w \in Webinars, resend |-> w.status = "registered"]
WebinarsDialogs == {"start", "end"}
WebinarsCreates == [create |-> {[status |-> "scheduled"]}]

\* YES refuses (409) what the state of the webinar does not allow.
WebinarsBackend(w) ==
    [start |-> When(w.status = "scheduled", Ok([status |-> "live"])),
     end |-> When(w.status \in {"scheduled", "live"}, Ok([status |-> "ended"])),
     stats |-> When(w \in Webinars, Ok(w)),
     resend |-> When(w.status = "registered", Ok([w EXCEPT !.resent = TRUE]))]

WebinarsScreen ==
    NewScreen(WebinarRows,
        {Blank, [status |-> "scheduled"], [status |-> "registered", resent |-> FALSE]},
        "all" :> WebinarRows, "all", FALSE, TRUE, WebinarsDialogs, WebinarsHandlers,
        WebinarsOffers, WebinarsBackend, WebinarsCreates)

-----------------------------------------------------------------------------
\* summit-sponsors/page.tsx: an edition form opens in place of its card, as a
\* confirmation does; tiers and sponsors are loaded together.

SponsorRows == [status : {"tier", "sponsor"}, edition : {"old", "new"}]

\* Each form on the page has its own flag, the two that add as well.
sponsorsSaveTier    == Handler("success", Whole("tierSaving"), "reload")
sponsorsAddTier     == Handler("success", Whole("addTierSaving"), "reload")
sponsorsSaveSponsor == Handler("success", Whole("sponsorSaving"), "reload")
sponsorsAddSponsor  == Handler("success", Whole("addSponsorSaving"), "reload")
sponsorsDelete      == Handler("success", NoLock, "reload")
SponsorsHandlers ==
    [saveTier |-> sponsorsSaveTier, addTier |-> sponsorsAddTier,
     saveSponsor |-> sponsorsSaveSponsor, addSponsor |-> sponsorsAddSponsor,
     deleteTier |-> sponsorsDelete, deleteSponsor |-> sponsorsDelete]

TierCard(r)    == r.status = "tier"
SponsorCard(r) == r.status = "sponsor"
SponsorsOffers(r) ==
    [saveTier |-> TierCard(r), deleteTier |-> TierCard(r),
     saveSponsor |-> SponsorCard(r), deleteSponsor |-> SponsorCard(r)]
SponsorsDialogs == {"saveTier", "deleteTier", "saveSponsor", "deleteSponsor"}

SponsorsBackend(r) ==
    LET Save == Ok([r EXCEPT !.edition = "new"]) IN
    [saveTier |-> When(TierCard(r), Save), deleteTier |-> When(TierCard(r), Ok(Gone)),
     saveSponsor |-> When(SponsorCard(r), Save), deleteSponsor |-> When(SponsorCard(r), Ok(Gone))]

SponsorsCreates ==
    [addTier |-> {[status |-> "tier", edition |-> "old"]},
     addSponsor |-> {[status |-> "sponsor", edition |-> "old"]}]

SponsorsScreen ==
    NewScreen(SponsorRows, {Blank} \cup {r \in SponsorRows : r.edition = "old"},
        "all" :> SponsorRows, "all", FALSE, FALSE, SponsorsDialogs, SponsorsHandlers,
        SponsorsOffers, SponsorsBackend, SponsorsCreates)

-----------------------------------------------------------------------------
\* announcements/page.tsx

Announcements == [status : {"published"}]

announcementsPublish == Handler("success", Whole("publishing"), "await")
announcementsDelete  == Handler("before", PerRow("busyId"), "await")
AnnouncementsOffers(a) == [delete |-> TRUE]
AnnouncementsBackend(a) == [delete |-> Ok(Gone)]

AnnouncementsDialogs == {"delete"}
AnnouncementsCreates == [publish |-> Announcements]

AnnouncementsScreen ==
    NewScreen(Announcements, Announcements \cup {Blank}, "all" :> Announcements, "all",
        FALSE, FALSE, AnnouncementsDialogs,
        [publish |-> announcementsPublish, delete |-> announcementsDelete],
        AnnouncementsOffers, AnnouncementsBackend, AnnouncementsCreates)

-----------------------------------------------------------------------------
\* ads/page.tsx: the campaigns and the switch that lets vendors create them.

Campaigns == [status : {"in_review", "active", "stopped", "ended", "rejected"}]
AdsSwitch == [status : {"switch"}, enabled : BOOLEAN]
AdRows == Campaigns \cup AdsSwitch
Runs(c) == c.status \in {"in_review", "active"}

adsToggleEnabled == Handler("before", Whole("saving"), "patch")
adsStop          == Handler("before", PerRow("busyId"), "await")
AdsDialogs == {"stop"}
AdsOffers(c) == [stop |-> Runs(c), toggleEnabled |-> c.status = "switch"]

\* stop: Meta may be out of reach; RunSyncLoop follows what Meta says.
AdsBackend(c) ==
    [stop |-> When(Runs(c), Ok([status |-> "stopped"]) \cup Error(c)),
     toggleEnabled |-> When(c.status = "switch", {<<"ok", s>> : s \in AdsSwitch}),
     sync |-> When(Runs(c), {<<"ok", [status |-> s]>> : s \in {"active", "ended", "rejected"}})]

AdsScreen ==
    NewScreen(AdRows,
        {[status |-> "in_review"], [status |-> "active"], [status |-> "switch", enabled |-> TRUE]},
        "all" :> AdRows, "all", FALSE, TRUE, AdsDialogs,
        [stop |-> adsStop, toggleEnabled |-> adsToggleEnabled], AdsOffers, AdsBackend, NoCreates)

===============================================================================
