---------------------------- MODULE PeopleScreens -----------------------------
(***************************************************************************)
(* The screens of app/(app)/admin on accounts and on what is sent to them: *)
(* users, administrators, support, the agents of support, mails to vendors,*)
(* newsletters, the automation key, the settings and the activity log.     *)
(***************************************************************************)
EXTENDS Screen

-----------------------------------------------------------------------------
\* users/page.tsx.  What was sent to a group is kept as a row of its own.

Accounts ==
    [status : {"active", "suspended"}, admin : BOOLEAN, vendeur : BOOLEAN, yesChat : BOOLEAN]
GroupMessages == [status : {"sent"}]
UserRows == Accounts \cup GroupMessages

usersSuspend      == Handler("after", NoLock, "reload")
usersReactivate   == Handler("before", NoLock, "reload")
usersYesChat      == Handler("before", NoLock, "reload")
usersSetRole      == Handler("after", NoLock, "reload")
usersPromote      == Handler("after", NoLock, "reload")
usersSendMessage  == Handler("success", Whole("sendingMessage"), "none")
usersGroupMessage == Handler("success", Whole("groupSending"), "patch")
UsersHandlers ==
    [suspend |-> usersSuspend, reactivate |-> usersReactivate, yesChat |-> usersYesChat,
     setRole |-> usersSetRole, promote |-> usersPromote, sendMessage |-> usersSendMessage,
     groupMessage |-> usersGroupMessage]

\* RowMenu
UsersOffers(u) ==
    LET account == u \in Accounts IN
    [setRole |-> account /\ ~u.admin, promote |-> account /\ ~u.admin,
     suspend |-> u.status = "active" /\ ~u.admin,
     reactivate |-> u.status = "suspended" /\ ~u.admin,
     yesChat |-> account /\ u.vendeur, sendMessage |-> account]
UsersConfirmed == {"suspend", "setRole", "promote"}
MessageForm    == {"sendMessage"}
GroupForm      == {"groupMessage"}
UsersDialogs   == UsersConfirmed \cup MessageForm \cup GroupForm

UsersFiltered ==
    "all" :> UserRows @@ "suspended" :> {u \in UserRows : u.status = "suspended"}

\* None of them looks at the account before writing.
UsersBackend(u) ==
    IF u \notin Accounts THEN <<>>
    ELSE [suspend |-> Ok([u EXCEPT !.status = "suspended"]),
          reactivate |-> Ok([u EXCEPT !.status = "active"]),
          setRole |-> Ok([u EXCEPT !.vendeur = ~@]),
          promote |-> Ok([u EXCEPT !.admin = TRUE]),
          yesChat |-> Ok([u EXCEPT !.yesChat = ~@]),
          sendMessage |-> Ok(u)]

Users ==
    NewScreen(UserRows,
        {Blank} \cup {u \in Accounts : u.status = "active" /\ ~u.admin /\ u.vendeur /\ ~u.yesChat},
        UsersFiltered, "all", FALSE, TRUE, UsersDialogs, UsersHandlers, UsersOffers,
        UsersBackend, [groupMessage |-> GroupMessages])

-----------------------------------------------------------------------------
\* permissions/page.tsx.  An administrator without any scope has them all;
\* SetAdminPermission does not ask whether the account still is one.

Admins  == [status : {"admin"}, scopes : {"all", "some"}]
Demoted == [status : {"user"}, scopes : {"all", "some"}]

permissionsToggle == Handler("after", NoLock, "await")
permissionsDemote == Handler("after", NoLock, "await")
PermissionsOffers(a) == [toggle |-> a.status = "admin", demote |-> a.status = "admin"]
PermissionsDialogs == {"toggle", "demote"}

PermissionsBackend(a) ==
    [toggle |-> {<<"ok", [a EXCEPT !.scopes = s]>> : s \in {"all", "some"}},
     demote |-> Ok([a EXCEPT !.status = "user"]) \cup Error(a),
     promote |-> Ok([a EXCEPT !.status = "admin"])]

Permissions ==
    NewScreen(Admins \cup Demoted, Admins, "all" :> Admins, "all", TRUE, TRUE,
        PermissionsDialogs, [toggle |-> permissionsToggle, demote |-> permissionsDemote],
        PermissionsOffers, PermissionsBackend, NoCreates)

-----------------------------------------------------------------------------
\* support/page.tsx.  The page also listens to a channel on which the hub of
\* the backend never publishes.

Tickets == [status : {"ticket"}, owner : {"none", "me", "other"}]

supportClaim  == Handler("before", PerRow("claimingId"), "await")
supportAssign == Handler("before", PerRow("assigningId"), "await")
SupportOffers(t) == [claim |-> t.owner = "none", assign |-> TRUE]
ClaimTicket(t) == When(t.owner = "none", {<<"ok", [t EXCEPT !.owner = o]>> : o \in {"me", "other"}})
AssignTicket(t) == {<<"ok", [t EXCEPT !.owner = o]>> : o \in {"me", "other"}}
SupportBackend(t) == [claim |-> ClaimTicket(t), assign |-> AssignTicket(t)]

Support ==
    NewScreen(Tickets, {t \in Tickets : t.owner \in {"none", "other"}}, "all" :> Tickets, "all",
        FALSE, FALSE, {}, [claim |-> supportClaim, assign |-> supportAssign],
        SupportOffers, SupportBackend, NoCreates)

-----------------------------------------------------------------------------
\* support-agents/page.tsx

Agents == [status : {"agent"}, active : BOOLEAN]

agentsAdd          == Handler("success", Whole("savingAgent"), "reload")
agentsToggleActive == Handler("before", NoLock, "reload")
agentsDelete       == Handler("after", NoLock, "reload")
AgentsHandlers == [add |-> agentsAdd, toggleActive |-> agentsToggleActive, delete |-> agentsDelete]
AgentsOffers(a) == [toggleActive |-> TRUE, delete |-> TRUE]
AgentsBackend(a) == [toggleActive |-> Ok([a EXCEPT !.active = ~@]), delete |-> Ok(Gone)]

AgentsDialogs == {"delete"}
AgentsCreates == [add |-> {a \in Agents : a.active}]

SupportAgents ==
    NewScreen(Agents, AgentsCreates.add \cup {Blank}, "all" :> Agents, "all", FALSE, FALSE,
        AgentsDialogs, AgentsHandlers, AgentsOffers, AgentsBackend, AgentsCreates)

-----------------------------------------------------------------------------
\* vendor-mail/page.tsx: the drafts to validate, and the forms that write
\* some.  A draft is marked approved before its mail is sent.

Drafts == [status : {"draft", "approved", "sent", "rejected"}]
NewDraft == [status |-> "draft"]

mailApprove   == Handler("before", Whole("busyId"), "await")
mailReject    == Handler("before", Whole("busyId"), "await")
mailReply     == Handler("success", Whole("replyBusy"), "await")
mailStart     == Handler("success", Whole("startBusy"), "await")
mailBroadcast == Handler("success", Whole("broadcastBusy"), "await")
VendorMailHandlers ==
    [approve |-> mailApprove, reject |-> mailReject, reply |-> mailReply,
     start |-> mailStart, broadcast |-> mailBroadcast]

DraftsOffers(d) == [approve |-> d.status = "draft", reject |-> d.status = "draft"]
\* ListDrafts
DraftsListed == "all" :> {NewDraft}
ReplyForm     == [reply |-> {NewDraft}]
StartForm     == [start |-> {NewDraft}]
BroadcastForm == [broadcast |-> {NewDraft}]
DraftForms    == ReplyForm @@ StartForm @@ BroadcastForm

ApproveDraft(d) ==
    When(d.status = "draft", Ok([status |-> "sent"]) \cup Error([status |-> "approved"]))
\* The UPDATE has the status in its WHERE clause; the answer does not say so.
RejectDraft(d) == IF d.status = "draft" THEN Ok([status |-> "rejected"]) ELSE Ok(d)
DraftsBackend(d) == [approve |-> ApproveDraft(d), reject |-> RejectDraft(d)]

VendorMail ==
    NewScreen(Drafts, {NewDraft, Blank}, DraftsListed, "all", TRUE, TRUE, {},
        VendorMailHandlers, DraftsOffers, DraftsBackend, DraftForms)

-----------------------------------------------------------------------------
\* broadcast/page.tsx: what was sent is the row.

Newsletters == [status : {"sent"}, to : {"me", "everyone"}]

broadcastSendTest == Handler("before", Whole("sendingTest"), "patch")
broadcastSendAll  == Handler("before", Whole("sendingAll"), "patch")
Nothing(r) == <<>>
BroadcastForms ==
    [sendTest |-> {[status |-> "sent", to |-> "me"]},
     sendAll |-> {[status |-> "sent", to |-> "everyone"]}]

BroadcastDialogs == {"sendAll"}

Broadcast ==
    NewScreen(Newsletters, {Blank}, "all" :> Newsletters, "all", FALSE, FALSE, BroadcastDialogs,
        [sendTest |-> broadcastSendTest, sendAll |-> broadcastSendAll], Nothing, Nothing,
        BroadcastForms)

-----------------------------------------------------------------------------
\* automation/page.tsx and settings/page.tsx: one key, one form of settings
\* which is saved whole.

Keys == [status : {"key"}, value : {"old", "new", "newer"}]

automationRegenerate == Handler("before", Whole("regenerating"), "patch")
AutomationOffers(k) == [regenerate |-> TRUE]
Regenerate(k) == Ok([k EXCEPT !.value = IF @ = "old" THEN "new" ELSE "newer"])
AutomationBackend(k) == [regenerate |-> Regenerate(k)]

AutomationDialogs == {"regenerate"}

Automation ==
    NewScreen(Keys, {k \in Keys : k.value = "old"}, "all" :> Keys, "all", FALSE, TRUE,
        AutomationDialogs, [regenerate |-> automationRegenerate], AutomationOffers,
        AutomationBackend, NoCreates)

AllSettings == [status : {"settings"}, values : {"old", "new"}]

settingsSave == Handler("before", Whole("saving"), "patch")
SettingsForm(s) == [save |-> TRUE]
SettingsBackend(s) == [save |-> Ok([s EXCEPT !.values = "new"])]

Settings ==
    NewScreen(AllSettings, {s \in AllSettings : s.values = "old"}, "all" :> AllSettings, "all",
        FALSE, TRUE, {}, [save |-> settingsSave], SettingsForm, SettingsBackend, NoCreates)

-----------------------------------------------------------------------------
\* activity-log/page.tsx: nothing to click but the pages.

LogEntries == [status : {"entry"}, page : {1, 2}]
LogPages ==
    "first" :> {e \in LogEntries : e.page = 1} @@ "second" :> {e \in LogEntries : e.page = 2}
LogBackend(e) == [newer |-> When(e.page = 1, Ok([e EXCEPT !.page = 2]))]

ActivityLog ==
    NewScreen(LogEntries, LogEntries, LogPages, "first", TRUE, TRUE, {}, <<>>, Nothing,
        LogBackend, NoCreates)

===============================================================================
