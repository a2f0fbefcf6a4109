------------------------------ MODULE WebSession ------------------------------
(***************************************************************************)
(* The session of the signed-in pages: every call goes through fetchApi    *)
(* (lib/api.ts), which carries the access token of localStorage, shares    *)
(* one refresh per tab among the calls the backend denies, sends a denied  *)
(* call again once, and leaves for the login page when the refresh fails.  *)
(* AuthProvider (lib/auth.tsx) refreshes on its own, outside that share.   *)
(* The tabs of one browser share the token and the refresh cookie; the     *)
(* backend (auth_service.go) revokes a refresh token when it uses it.      *)
(* The calls are those to routes behind RequireAuth.                       *)
(*                                                                         *)
(* A request the network loses never ran: one that runs after its page     *)
(* gave up is told apart from one that ran before only by the clock.       *)
(* Signing in again starts a page anew, which is the initial state.        *)
(***************************************************************************)
EXTENDS Naturals, FiniteSets

CONSTANTS Tabs,      \* the pages of the site open in one browser
          Calls,     \* calls the pages make
          Owner,     \* the tab that makes each call
          Refusing,  \* calls whose handler may answer 401 itself
          Providers, \* bound: the tabs whose AuthProvider refreshes on its own
          MaxTokens  \* bound: refresh tokens the backend issues

ASSUME TabsAssumption ==
    Owner \in [Calls -> Tabs] /\ Refusing \subseteq Calls /\ Providers \subseteq Tabs

VARIABLES stored,    \* access token in localStorage
          cookie,    \* refresh token in the httpOnly cookie, 0 when there is none
          live,      \* refresh tokens the backend has not revoked
          issued,    \* last refresh token issued
          shows,     \* per tab: the signed-in pages or the login page
          refresh,   \* per tab and path: the refresh under way
          at,        \* per call: how far it is
          again,     \* per call: isRetry
          carried,   \* per call on the wire: the token in its Authorization header
          runs,      \* per call: times its handler was entered
          work,      \* per call: times its handler did its work
          blamed     \* history: something happened that ends sessions

sessionVars == <<stored, cookie, live, issued, shows, refresh, blamed>>
callVars    == <<at, again, carried, runs, work>>
signedInVars == <<sessionVars, callVars>>

\* An expired token is denied as a missing one is: both are "none".
AccessTokens == {"none", "good"}
\* refreshInFlight is shared by the calls of a tab; AuthProvider has its own.
Refreshers ==
    {<<Owner[c], "shared">> : c \in Calls} \cup {<<t, "provider">> : t \in Providers}
NoRefresh  == [step |-> "none", token |-> 0]
CallSteps  == {"idle", "wire", "ran", "turned", "waiting", "ok", "failed"}

CallsOf(t) == {c \in Calls : Owner[c] = t}
Waiting(t) == {c \in CallsOf(t) : at[c] = "waiting"}

SessionInit ==
    /\ stored \in AccessTokens
    /\ cookie = 1 /\ issued = 1 /\ live = {1}
    /\ shows = [t \in Tabs |-> "pages"]
    /\ refresh = [r \in Refreshers |-> NoRefresh]
    /\ at = [c \in Calls |-> "idle"]
    /\ again = [c \in Calls |-> FALSE]
    /\ carried = [c \in Calls |-> "none"]
    /\ runs = [c \in Calls |-> 0]
    /\ work = [c \in Calls |-> 0]
    /\ blamed = FALSE

-----------------------------------------------------------------------------
\* Refreshing.  A refresh started while another is under way presents the
\* same cookie: the backend takes the first and may refuse the second.

OtherRefreshes(r) == {o \in Refreshers \ {r} : refresh[o].step # "none"}

StartRefresh(r) ==
    /\ refresh' = [refresh EXCEPT ![r] = [step |-> "sent", token |-> cookie]]
    /\ blamed' = (blamed \/ OtherRefreshes(r) # {})

\* AuthProvider.refresh and restoreSession call the endpoint directly.  The token
\* restoreSession drops first, getMe having failed with it, is as an expired one.
ProviderRefresh(t) ==
    /\ shows[t] = "pages"
    /\ refresh[<<t, "provider">>].step = "none"
    /\ issued < MaxTokens
    /\ StartRefresh(<<t, "provider">>)
    /\ UNCHANGED <<stored, cookie, live, issued, shows, callVars>>

\* FindRefreshToken and FindByID: the token must be known and not revoked, its
\* user found and not locked out (LockedUntil).
FindRefreshToken(r) ==
    /\ refresh[r].step = "sent" /\ refresh[r].token \in live
    /\ refresh' = [refresh EXCEPT ![r].step = "found"]
    /\ UNCHANGED <<stored, cookie, live, issued, shows, blamed, callVars>>

\* Otherwise the backend refuses; a live token too, when its seven days are over,
\* the account is locked for a while or one of the two reads fails.
DenyRefresh(r) ==
    /\ refresh[r].step = "sent"
    /\ refresh' = [refresh EXCEPT ![r].step = "refused"]
    /\ blamed' = (blamed \/ refresh[r].token \in live)
    /\ UNCHANGED <<stored, cookie, live, issued, shows, callVars>>

\* The error of RevokeRefreshToken is dropped: the old token may stay live.
RevokeOld(r) == \E gone \in {{}, {refresh[r].token}} : live' = live \ gone

\* Mutant: the new token is made, but not stored.
RotateToken_NotStored(r) ==
    /\ refresh[r].step = "found"
    /\ issued' = issued + 1
    /\ RevokeOld(r)
    /\ refresh' = [refresh EXCEPT ![r] = [step |-> "rotated", token |-> issued']]
    /\ UNCHANGED <<stored, cookie, shows, blamed, callVars>>

\* Revoking the old token and storing the new one are two statements that no
\* other step of this system can see apart.
RotateToken(r) ==
    /\ refresh[r].step = "found"
    /\ issued' = issued + 1
    /\ \E gone \in {{}, {refresh[r].token}} : live' = (live \ gone) \cup {issued'}
    /\ refresh' = [refresh EXCEPT ![r] = [step |-> "rotated", token |-> issued']]
    /\ UNCHANGED <<stored, cookie, shows, blamed, callVars>>

\* The old token is revoked, then GenerateAccessToken or issueRefreshToken fails.
RotationFails(r) ==
    /\ refresh[r].step = "found"
    /\ RevokeOld(r)
    /\ refresh' = [refresh EXCEPT ![r].step = "refused"]
    /\ blamed' = TRUE
    /\ UNCHANGED <<stored, cookie, issued, shows, callVars>>

-----------------------------------------------------------------------------
\* What the end of a refresh does to the tab that waited for it.

\* Mutant: only one of the calls that waited goes out again.
SendAgain_FirstOnly(t) ==
    LET c == CHOOSE x \in Waiting(t) : TRUE IN
    /\ at' = [at EXCEPT ![c] = "wire"]
    /\ again' = [again EXCEPT ![c] = TRUE]
    /\ carried' = [carried EXCEPT ![c] = "good"]
    /\ UNCHANGED <<runs, work>>

\* Calls sent again carry the token the refresh just stored.
SendAgain(t) ==
    /\ at' = [c \in Calls |-> IF c \in Waiting(t) THEN "wire" ELSE at[c]]
    /\ again' = [c \in Calls |-> c \in Waiting(t) \/ again[c]]
    /\ carried' = [c \in Calls |-> IF c \in Waiting(t) THEN "good" ELSE carried[c]]
    /\ UNCHANGED <<runs, work>>

\* forceLogout: the token is dropped and the browser leaves for the login page.
FailWaiting(t) ==
    /\ at' = [c \in Calls |-> IF c \in Waiting(t) THEN "failed" ELSE at[c]]
    /\ UNCHANGED <<again, carried, runs, work>>

ForceLogout(t) ==
    /\ stored' = "none"
    /\ shows' = [shows EXCEPT ![t] = "login"]

\* The refresh succeeded: the browser keeps the new cookie and the code the
\* new token; the calls that waited go out again.
RefreshAnswered(r) ==
    /\ refresh[r].step = "rotated"
    /\ refresh' = [refresh EXCEPT ![r] = NoRefresh]
    /\ cookie' = refresh[r].token
    /\ stored' = "good"
    /\ IF r[2] = "shared" THEN SendAgain(r[1]) ELSE UNCHANGED callVars
    /\ UNCHANGED <<live, issued, shows, blamed>>

\* The backend refused: its answer clears the cookie of the whole browser,
\* unless the request carried none (missing_token).
RefreshRefused(r) ==
    /\ refresh[r].step = "refused"
    /\ refresh' = [refresh EXCEPT ![r] = NoRefresh]
    /\ cookie' = IF refresh[r].token = 0 THEN cookie ELSE 0
    /\ ForceLogout(r[1])
    /\ IF r[2] = "shared" THEN FailWaiting(r[1]) ELSE UNCHANGED callVars
    /\ UNCHANGED <<live, issued, blamed>>

\* No answer of Refresh arrives whole: the worker or the backend's limiter
\* answers 429, the worker 502, the connection breaks, perhaps after the new
\* cookie was set; or the getMe that follows a provider's refresh fails.
RefreshLost(r) ==
    /\ refresh[r].step \in {"sent", "rotated", "refused"}
    /\ refresh' = [refresh EXCEPT ![r] = NoRefresh]
    /\ cookie' \in {cookie} \cup {k \in {refresh[r].token} : refresh[r].step = "rotated"}
    /\ ForceLogout(r[1])
    /\ blamed' = TRUE
    /\ IF r[2] = "shared" THEN FailWaiting(r[1]) ELSE UNCHANGED callVars
    /\ UNCHANGED <<live, issued>>

-----------------------------------------------------------------------------
\* Calls.

SendCall(c) ==
    /\ at[c] = "idle"
    /\ shows[Owner[c]] = "pages"
    /\ at' = [at EXCEPT ![c] = "wire"]
    /\ carried' = [carried EXCEPT ![c] = stored]
    /\ UNCHANGED <<again, runs, work, sessionVars>>

\* The call leaves the wire, or goes on.
Move(c, step) ==
    /\ at' = [at EXCEPT ![c] = step]
    /\ carried' = [carried EXCEPT ![c] = "none"]

\* The backend's middleware checks the token before it enters the handler, which
\* reads and writes.
RunCall(c) ==
    /\ at[c] = "wire"
    /\ carried[c] = "good"
    /\ Move(c, "ran")
    /\ runs' = [runs EXCEPT ![c] = @ + 1]
    /\ work' = [work EXCEPT ![c] = @ + 1]
    /\ UNCHANGED <<again, sessionVars>>

\* The handler turns the call away with a 401 of its own, before its work:
\* VerifyPhoneFirebase, of a telephone's token it cannot verify.
TurnAway(c) ==
    /\ at[c] = "wire" /\ c \in Refusing
    /\ carried[c] = "good"
    /\ Move(c, "turned")
    /\ runs' = [runs EXCEPT ![c] = @ + 1]
    /\ UNCHANGED <<again, work, sessionVars>>

CallAnswered(c) ==
    /\ at[c] = "ran"
    /\ Move(c, "ok")
    /\ UNCHANGED <<again, runs, work, sessionVars>>

\* fetch throws, or the answer is an error other than 401, before or after the
\* handler did its work: the call is not sent again.
CallLost(c) ==
    /\ at[c] \in {"wire", "ran", "turned"}
    /\ Move(c, "failed")
    /\ UNCHANGED <<again, runs, work, sessionVars>>

\* Mutant: the handler refuses with 401 after its work.
Denied_AfterWork(c) ==
    \/ at[c] \in {"wire", "turned"}
    \/ at[c] = "ran" /\ c \in Refusing

\* Either the handler answered 401 or the middleware does: a token that was good
\* when the call was sent can expire on the way.
Denied(c) == at[c] \in {"wire", "turned"}

\* A first 401 waits for the tab's refresh, starting it if there is none.
DeniedOnce(c) ==
    LET r == <<Owner[c], "shared">> IN
    /\ Denied(c) /\ ~again[c] /\ shows[Owner[c]] = "pages"
    /\ Move(c, "waiting")
    /\ IF refresh[r].step = "none"
       THEN StartRefresh(r) ELSE UNCHANGED <<refresh, blamed>>
    /\ UNCHANGED <<again, runs, work, stored, cookie, live, issued, shows>>

\* A second one is an error of the call, not the end of the session; the
\* answer to a page that has left is not heard.
DeniedAgain(c) ==
    /\ Denied(c) /\ (again[c] \/ shows[Owner[c]] = "login")
    /\ Move(c, "failed")
    /\ UNCHANGED <<again, runs, work, sessionVars>>

-----------------------------------------------------------------------------
\* The browser's user, the clock and the administrators.

\* The cookie's path keeps it from the logout endpoint, so no token is revoked;
\* the answer clears the cookie, but the page leaves without one as well.
Logout(t) ==
    /\ shows[t] = "pages"
    /\ cookie' \in {cookie, 0}
    /\ ForceLogout(t)
    /\ blamed' = TRUE
    /\ UNCHANGED <<live, issued, refresh, callVars>>

Expire ==
    /\ stored = "good"
    /\ stored' = "none"
    /\ UNCHANGED <<cookie, live, issued, shows, refresh, blamed, callVars>>

\* An administrator suspends the account or changes its role, or its password is
\* reset: every refresh token of the user is revoked.
EndSession ==
    /\ live' = {}
    /\ blamed' = TRUE
    /\ UNCHANGED <<stored, cookie, issued, shows, refresh, callVars>>

RefreshStep(r) ==
    \/ FindRefreshToken(r) \/ DenyRefresh(r) \/ RotateToken(r) \/ RotationFails(r)
    \/ RefreshAnswered(r) \/ RefreshRefused(r) \/ RefreshLost(r)

CallStep(c) ==
    \/ RunCall(c) \/ TurnAway(c) \/ CallAnswered(c) \/ CallLost(c)
    \/ DeniedOnce(c) \/ DeniedAgain(c)

SessionNext ==
    \/ \E r \in Refreshers : RefreshStep(r)
    \/ \E c \in Calls : SendCall(c) \/ CallStep(c)
    \/ \E t \in Providers : ProviderRefresh(t)
    \/ \E t \in Tabs : Logout(t)
    \/ Expire
    \/ EndSession

\* The browser and the backend settle every request they were given: it is
\* answered, or fetch reports that the connection broke.
SessionFairness ==
    /\ \A r \in Refreshers : WF_signedInVars(RefreshStep(r))
    /\ \A c \in Calls : WF_signedInVars(CallStep(c))

SessionSpec == SessionInit /\ [][SessionNext]_signedInVars /\ SessionFairness

-----------------------------------------------------------------------------
SessionTypeOK ==
    /\ stored \in AccessTokens
    /\ cookie \in Nat /\ issued \in Nat /\ live \subseteq 1..issued
    /\ shows \in [Tabs -> {"pages", "login"}]
    /\ refresh \in [Refreshers ->
         [step : {"none", "sent", "found", "rotated", "refused"}, token : Nat]]
    /\ at \in [Calls -> CallSteps]
    /\ again \in [Calls -> BOOLEAN]
    /\ carried \in [Calls -> AccessTokens]
    /\ runs \in [Calls -> Nat] /\ work \in [Calls -> Nat]
    /\ blamed \in BOOLEAN

\* What the page was told of a call, and the promise it implements.
verdict == [c \in Calls |-> IF at[c] \in {"ok", "failed"} THEN at[c] ELSE "none"]
Promise == INSTANCE OneRequest WITH runs <- runs, work <- work, verdict <- verdict

\* Denied, refreshed, sent again, lost: through all of it the handler of a call
\* does its work at most once, and success means that it did; it is entered once
\* at most, or twice when it answered 401 itself before its work (fetchApi).
CallsKeepPromise == Promise!Spec

\* Nobody is sent to the login page for a token that merely expired, however
\* often it is refreshed and rotated: only when somebody logged out, the session
\* was ended, a refresh was answered by an error of the worker, of the backend
\* or of the network, a live token was refused (account locked, read that
\* failed), or two refreshes of the browser overlapped, which the code does not
\* prevent between tabs nor between the shared refresh and the provider's.
NotThrownOutForNothing ==
    \A t \in Tabs : shows[t] = "login" => blamed

\* Every call that was sent is settled: no wait on a refresh is forgotten.
UnderWay == {c \in Calls : at[c] \in {"wire", "ran", "turned", "waiting"}}
CallsSettle == (UnderWay # {}) ~> (UnderWay = {})

===============================================================================
