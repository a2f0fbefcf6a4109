-------------------------- MODULE WebSession_proofs --------------------------
(***************************************************************************)
(* The session of the signed-in pages, for any number of tabs, of calls    *)
(* and of refreshes: type correctness, that a call keeps the promise of    *)
(* OneRequest through every denial, refresh and loss, that nobody is       *)
(* thrown out for a token that merely expired, and that no call waits for  *)
(* a refresh nobody makes.                                                 *)
(***************************************************************************)
EXTENDS WebSession, TLAPS

\* The calls' part of the type, what was done for each and whether it was sent again.
CallsOK ==
    /\ at \in [Calls -> CallSteps]
    /\ again \in [Calls -> BOOLEAN]
    /\ runs \in [Calls -> Nat] /\ work \in [Calls -> Nat]

\* How often a handler may have turned a call away without ending it.
Turns(c) == IF c \in Refusing THEN 1 ELSE 0

\* What has been done for a call that stands at a step, sent again or not.
Follows(c, step, retried, entered, done) ==
    /\ step \in {"idle", "waiting"} => ~retried
    /\ step \in {"idle", "wire"} /\ ~retried => entered = 0
    /\ step \in {"wire", "waiting"} => entered <= Turns(c)
    /\ step = "turned" => c \in Refusing /\ (retried \/ entered <= 1)
    /\ step \in {"idle", "wire", "turned", "waiting"} => done = 0
    /\ step \in {"ran", "ok"} => done = 1

RunsFollow == \A c \in Calls : Follows(c, at[c], again[c], runs[c], work[c])

CallsInv == CallsOK /\ RunsFollow

\* As long as nothing ends sessions, one refresh at a time turns one live
\* cookie into the next, and every page is a signed-in one.
Undisturbed ==
    /\ \A t \in Tabs : shows[t] = "pages"
    /\ \A r, o \in Refreshers :
          refresh[r].step # "none" /\ refresh[o].step # "none" => r = o
    /\ \A r \in Refreshers :
          /\ refresh[r].step # "refused"
          /\ refresh[r].step \in {"sent", "found"} => refresh[r].token = cookie
          /\ refresh[r].step = "rotated" => refresh[r].token \in live
    /\ (\A r \in Refreshers : refresh[r].step # "rotated") => cookie \in live

RefreshInv == SessionTypeOK /\ (~blamed => Undisturbed)

-----------------------------------------------------------------------------
(* Calls *)

\* What the end of a refresh does to calls: those that waited are sent again,
\* or all of them fail, or none is concerned.
LEMMA WaitersSafe ==
  ASSUME CallsInv, NEW t \in Tabs, SendAgain(t) \/ FailWaiting(t) \/ UNCHANGED callVars
  PROVE  CallsInv'
  <1>0. \A c \in Waiting(t) : at[c] = "waiting"
    BY DEF Waiting
  <1>1. CASE SendAgain(t)
    <2>1. /\ UNCHANGED <<runs, work>>
          /\ at' = [c \in Calls |-> IF c \in Waiting(t) THEN "wire" ELSE at[c]]
          /\ again' = [c \in Calls |-> c \in Waiting(t) \/ again[c]]
      BY <1>1 DEF SendAgain
    <2>2. CallsOK'
      BY <2>1 DEF CallsInv, CallsOK, CallSteps
    <2>3. ASSUME NEW c \in Calls PROVE Follows(c, at'[c], again'[c], runs'[c], work'[c])
      <3>1. Follows(c, at[c], again[c], runs[c], work[c])
        BY DEF CallsInv, RunsFollow
      <3>2. CASE c \in Waiting(t)
        <4>1. at[c] = "waiting" /\ at'[c] = "wire" /\ again'[c]
          BY <1>0, <2>1, <3>2
        <4> QED
          BY <2>1, <3>1, <4>1 DEF Follows
      <3>3. CASE c \notin Waiting(t)
        <4>1. at'[c] = at[c] /\ again'[c] = again[c]
          BY <2>1, <3>3 DEF CallsInv, CallsOK
        <4> QED
          BY <2>1, <3>1, <4>1
      <3> QED
        BY <3>2, <3>3
    <2> QED
      BY <2>2, <2>3 DEF CallsInv, RunsFollow
  <1>2. CASE FailWaiting(t)
    <2>1. /\ UNCHANGED <<again, runs, work>>
          /\ at' = [c \in Calls |-> IF c \in Waiting(t) THEN "failed" ELSE at[c]]
      BY <1>2 DEF FailWaiting
    <2>2. CallsOK'
      BY <2>1 DEF CallsInv, CallsOK, CallSteps
    <2>3. \A c \in Calls : at'[c] \in {at[c], "failed"}
      BY <2>1
    <2> QED
      BY <2>1, <2>2, <2>3 DEF CallsInv, RunsFollow, Follows
  <1>3. CASE UNCHANGED callVars
    BY <1>3 DEF callVars, CallsInv, CallsOK, RunsFollow
  <1> QED
    BY <1>1, <1>2, <1>3

\* A step of one call changes that call only.
LEMMA OneCallSafe ==
  ASSUME CallsInv, NEW c \in Calls, NEW s \in CallSteps, at' = [at EXCEPT ![c] = s],
         again' = again, NEW n \in Nat, runs' = [runs EXCEPT ![c] = n],
         NEW w \in Nat, work' = [work EXCEPT ![c] = w], Follows(c, s, again[c], n, w)
  PROVE  CallsInv'
  <1>1. CallsOK'
    BY DEF CallsInv, CallsOK
  <1>2. ASSUME NEW d \in Calls PROVE Follows(d, at'[d], again'[d], runs'[d], work'[d])
    <2>1. CASE d = c
      BY <2>1 DEF CallsInv, CallsOK
    <2>2. CASE d # c
      <3>1. at'[d] = at[d] /\ runs'[d] = runs[d] /\ work'[d] = work[d]
        BY <2>2 DEF CallsInv, CallsOK
      <3> QED
        BY <3>1 DEF CallsInv, RunsFollow
    <2> QED
      BY <2>1, <2>2
  <1> QED
    BY <1>1, <1>2 DEF CallsInv, RunsFollow

\* So does one that enters no handler.
LEMMA SilentCallSafe ==
  ASSUME CallsInv, NEW c \in Calls, NEW s \in CallSteps, at' = [at EXCEPT ![c] = s],
         UNCHANGED <<again, runs, work>>, Follows(c, s, again[c], runs[c], work[c])
  PROVE  CallsInv'
  <1>1. /\ runs[c] \in Nat /\ runs' = [runs EXCEPT ![c] = runs[c]]
        /\ work[c] \in Nat /\ work' = [work EXCEPT ![c] = work[c]]
    BY DEF CallsInv, CallsOK
  <1> QED
    BY <1>1, OneCallSafe

\* The refreshers are pairs of a tab and a path.
LEMMA RefreshersAre ==
  /\ \A r \in Refreshers : r[1] \in Tabs
  /\ \A c \in Calls : <<Owner[c], "shared">> \in Refreshers
  /\ \A t \in Providers : <<t, "provider">> \in Refreshers /\ t \in Tabs
  BY TabsAssumption DEF Refreshers

\* Each step of a call.
LEMMA CallSafe ==
  ASSUME CallsInv, NEW c \in Calls, SendCall(c) \/ CallStep(c)
  PROVE  CallsInv'
  <1>1. runs[c] \in Nat /\ Follows(c, at[c], again[c], runs[c], work[c])
    BY DEF CallsInv, CallsOK, RunsFollow
  <1>2. CASE SendCall(c)
    <2>1. at[c] = "idle" /\ at' = [at EXCEPT ![c] = "wire"] /\ UNCHANGED <<again, runs, work>>
      BY <1>2 DEF SendCall
    <2>2. Follows(c, "wire", again[c], runs[c], work[c])
      BY <1>1, <2>1 DEF Follows, Turns
    <2> QED
      BY <2>1, <2>2, SilentCallSafe DEF CallSteps
  <1>3. CASE RunCall(c)
    <2>1. /\ at[c] = "wire" /\ at' = [at EXCEPT ![c] = "ran"] /\ again' = again
          /\ runs' = [runs EXCEPT ![c] = runs[c] + 1]
      BY <1>3 DEF RunCall, Move
    <2>2. work[c] = 0 /\ work' = [work EXCEPT ![c] = 1]
      BY <1>1, <1>3, <2>1 DEF RunCall, Follows, CallsInv, CallsOK
    <2>3. Follows(c, "ran", again[c], runs[c] + 1, 1)
      BY <1>1, <1>3, <2>1 DEF RunCall, Follows
    <2>4. 1 \in Nat /\ runs[c] + 1 \in Nat /\ "ran" \in CallSteps
      BY <1>1 DEF CallSteps
    <2> QED
      BY <2>1, <2>2, <2>3, <2>4, OneCallSafe
  <1>8. CASE TurnAway(c)
    <2>1. /\ at[c] = "wire" /\ at' = [at EXCEPT ![c] = "turned"] /\ again' = again
          /\ runs' = [runs EXCEPT ![c] = runs[c] + 1]
      BY <1>8 DEF TurnAway, Move
    <2>2. work[c] = 0 /\ work' = [work EXCEPT ![c] = 0]
      BY <1>1, <1>8, <2>1 DEF TurnAway, Follows, CallsInv, CallsOK
    <2>3. Follows(c, "turned", again[c], runs[c] + 1, 0)
      BY <1>1, <1>8, <2>1 DEF TurnAway, Follows
    <2>4. 0 \in Nat /\ runs[c] + 1 \in Nat /\ "turned" \in CallSteps
      BY <1>1 DEF CallSteps
    <2> QED
      BY <2>1, <2>2, <2>3, <2>4, OneCallSafe
  <1>4. CASE CallAnswered(c)
    <2>1. at[c] = "ran" /\ at' = [at EXCEPT ![c] = "ok"] /\ UNCHANGED <<again, runs, work>>
      BY <1>4 DEF CallAnswered, Move
    <2> QED
      BY <1>1, <2>1, SilentCallSafe DEF CallSteps, Follows
  <1>5. CASE CallLost(c)
    <2>1. at[c] \in {"wire", "ran", "turned"} /\ at' = [at EXCEPT ![c] = "failed"] /\ UNCHANGED <<again, runs, work>>
      BY <1>5 DEF CallLost, Move
    <2> QED
      BY <1>1, <2>1, SilentCallSafe DEF CallSteps, Follows
  <1>6. CASE DeniedOnce(c)
    <2>1. /\ at[c] \in {"wire", "turned"} /\ ~again[c]
          /\ at' = [at EXCEPT ![c] = "waiting"] /\ UNCHANGED <<again, runs, work>>
      BY <1>6 DEF DeniedOnce, Denied, Move
    <2>2. Follows(c, "waiting", again[c], runs[c], work[c])
      BY <1>1, <2>1 DEF Follows, Turns
    <2> QED
      BY <2>1, <2>2, SilentCallSafe DEF CallSteps
  <1>7. CASE DeniedAgain(c)
    <2>1. at[c] \in {"wire", "turned"} /\ at' = [at EXCEPT ![c] = "failed"] /\ UNCHANGED <<again, runs, work>>
      BY <1>7 DEF DeniedAgain, Denied, Move
    <2> QED
      BY <1>1, <2>1, SilentCallSafe DEF CallSteps, Follows
  <1> QED
    BY <1>2, <1>3, <1>4, <1>5, <1>6, <1>7, <1>8 DEF CallStep

\* What a step of a refresh does to the calls.
LEMMA RefreshMovesWaiters ==
  ASSUME NEW r \in Refreshers, RefreshStep(r)
  PROVE  SendAgain(r[1]) \/ FailWaiting(r[1]) \/ UNCHANGED callVars
  BY DEF RefreshStep, FindRefreshToken, DenyRefresh, RotateToken, RotationFails,
     RefreshAnswered, RefreshRefused, RefreshLost

\* Whatever is neither a call's step nor a refresh's leaves the calls alone.
LEMMA NextCases ==
  ASSUME [SessionNext]_signedInVars
  PROVE  \/ \E c \in Calls : SendCall(c) \/ CallStep(c)
         \/ \E r \in Refreshers : RefreshStep(r)
         \/ UNCHANGED callVars
  BY DEF SessionNext, ProviderRefresh, Logout, Expire, EndSession, signedInVars, callVars

\* The calls' invariant is inductive.
LEMMA CallsInvariant ==
  /\ SessionInit => CallsInv
  /\ CallsInv /\ [SessionNext]_signedInVars => CallsInv'
  <1>1. SessionInit => CallsInv
    BY DEF SessionInit, CallsInv, CallsOK, RunsFollow, Follows, Turns, CallSteps
  <1>2. ASSUME CallsInv, [SessionNext]_signedInVars
        PROVE  CallsInv'
    <2>1. CASE \E c \in Calls : SendCall(c) \/ CallStep(c)
      BY <1>2, <2>1, CallSafe
    <2>2. CASE \E r \in Refreshers : RefreshStep(r)
      BY <1>2, <2>2, RefreshMovesWaiters, RefreshersAre, WaitersSafe
    <2>3. CASE UNCHANGED callVars
      BY <1>2, <2>3 DEF callVars, CallsInv, CallsOK, RunsFollow
    <2> QED
      BY <1>2, <2>1, <2>2, <2>3, NextCases
  <1> QED
    BY <1>1, <1>2

-----------------------------------------------------------------------------
(* The promise *)

\* A step of one call that is not its end is no verdict.
LEMMA VerdictOf ==
  ASSUME CallsInv, NEW c \in Calls, NEW s \in CallSteps, at' = [at EXCEPT ![c] = s]
  PROVE  verdict' = [verdict EXCEPT ![c] = IF s \in {"ok", "failed"} THEN s ELSE "none"]
  BY DEF verdict, CallsInv, CallsOK

\* A call on the wire may still enter its handler.
LEMMA OnTheWire ==
  ASSUME CallsInv, NEW c \in Calls, at[c] = "wire"
  PROVE  Promise!MayEnter(c) /\ work[c] = 0
  <1>1. Follows(c, "wire", again[c], runs[c], work[c]) /\ runs[c] \in Nat
    BY DEF CallsInv, CallsOK, RunsFollow
  <1>2. work[c] = 0 /\ (runs[c] = 0 \/ (runs[c] = 1 /\ c \in Refusing))
    BY <1>1 DEF Follows, Turns
  <1> QED
    BY <1>2 DEF Promise!MayEnter, verdict

\* Each step of a call is a step of the promise, or none of its business.
LEMMA CallRefines ==
  ASSUME CallsInv, NEW c \in Calls, SendCall(c) \/ CallStep(c)
  PROVE  [Promise!Next]_<<runs, work, verdict>>
  <1>1. CASE SendCall(c) \/ DeniedOnce(c)
    <2>1. /\ at[c] \in {"idle", "wire", "turned"} /\ UNCHANGED <<runs, work>>
          /\ \E s \in {"wire", "waiting"} : at' = [at EXCEPT ![c] = s]
      BY <1>1 DEF SendCall, DeniedOnce, Denied, Move
    <2>2. verdict' = verdict
      BY <2>1 DEF verdict, CallsInv, CallsOK
    <2> QED
      BY <2>1, <2>2
  <1>2. CASE RunCall(c)
    <2>1. /\ at[c] = "wire" /\ at' = [at EXCEPT ![c] = "ran"]
          /\ runs' = [runs EXCEPT ![c] = @ + 1] /\ work' = [work EXCEPT ![c] = @ + 1]
      BY <1>2 DEF RunCall, Move
    <2>2. Promise!MayEnter(c) /\ work[c] = 0
      BY <2>1, OnTheWire
    <2>3. work' = [work EXCEPT ![c] = 1]
      BY <2>1, <2>2 DEF CallsInv, CallsOK
    <2>4. verdict' = verdict
      BY <2>1 DEF verdict, CallsInv, CallsOK
    <2> QED
      BY <2>1, <2>2, <2>3, <2>4 DEF Promise!Next, Promise!Run
  <1>5. CASE TurnAway(c)
    <2>1. /\ at[c] = "wire" /\ at' = [at EXCEPT ![c] = "turned"] /\ c \in Refusing
          /\ runs' = [runs EXCEPT ![c] = @ + 1] /\ work' = work
      BY <1>5 DEF TurnAway, Move
    <2>2. verdict' = verdict
      BY <2>1 DEF verdict, CallsInv, CallsOK
    <2> QED
      BY <2>1, <2>2, OnTheWire DEF Promise!Next, Promise!TurnAway
  <1>3. CASE CallAnswered(c)
    <2>1. at[c] = "ran" /\ at' = [at EXCEPT ![c] = "ok"] /\ UNCHANGED <<runs, work>>
      BY <1>3 DEF CallAnswered, Move
    <2>2. work[c] = 1 /\ verdict[c] = "none"
      BY <2>1 DEF CallsInv, RunsFollow, Follows, verdict
    <2>3. verdict' = [verdict EXCEPT ![c] = "ok"]
      BY <2>1, VerdictOf DEF CallSteps
    <2> QED
      BY <2>1, <2>2, <2>3 DEF Promise!Next, Promise!Succeed
  <1>4. CASE CallLost(c) \/ DeniedAgain(c)
    <2>1. /\ at[c] \in {"wire", "ran", "turned"} /\ at' = [at EXCEPT ![c] = "failed"]
          /\ UNCHANGED <<runs, work>>
      BY <1>4 DEF CallLost, DeniedAgain, Denied, Move
    <2>2. \A d \in {c} : verdict[d] = "none"
      BY <2>1 DEF verdict
    <2>3. verdict' = [d \in Calls |-> IF d \in {c} THEN "failed" ELSE verdict[d]]
      BY <2>1 DEF verdict, CallsInv, CallsOK
    <2>4. Promise!Fail({c})
      BY <2>1, <2>2, <2>3 DEF Promise!Fail
    <2> QED
      BY <2>4 DEF Promise!Next
  <1> QED
    BY <1>1, <1>2, <1>3, <1>4, <1>5 DEF CallStep

\* The calls that waited for a refresh are sent again in silence, or fail together.
LEMMA RefreshRefines ==
  ASSUME CallsInv, NEW r \in Refreshers, RefreshStep(r)
  PROVE  [Promise!Next]_<<runs, work, verdict>>
  <1> DEFINE t == r[1]
  <1>0. \A c \in Waiting(t) : at[c] = "waiting"
    BY DEF Waiting
  <1>1. CASE SendAgain(t)
    <2>1. UNCHANGED <<runs, work>> /\ at' = [c \in Calls |-> IF c \in Waiting(t) THEN "wire" ELSE at[c]]
      BY <1>1 DEF SendAgain
    <2>2. verdict' = verdict
      BY <1>0, <2>1 DEF verdict
    <2> QED
      BY <2>1, <2>2
  <1>2. CASE FailWaiting(t)
    <2>1. UNCHANGED <<runs, work>> /\ at' = [c \in Calls |-> IF c \in Waiting(t) THEN "failed" ELSE at[c]]
      BY <1>2 DEF FailWaiting
    <2>2. \A c \in Waiting(t) : c \in Calls /\ verdict[c] = "none"
      BY <1>0 DEF verdict, Waiting, CallsOf
    <2>3. verdict' = [c \in Calls |-> IF c \in Waiting(t) THEN "failed" ELSE verdict[c]]
      BY <2>1 DEF verdict
    <2>4. Promise!Fail(Waiting(t)) /\ Waiting(t) \in SUBSET Calls
      BY <2>1, <2>2, <2>3 DEF Promise!Fail
    <2> QED
      BY <2>4 DEF Promise!Next
  <1>3. CASE UNCHANGED callVars
    BY <1>3 DEF callVars, verdict
  <1> QED
    BY <1>1, <1>2, <1>3, RefreshMovesWaiters

\* Denied, refreshed, sent again or lost (fetchApi, api.ts), the handler of a call
\* does its work at most once, is never entered after it, and is entered twice only
\* if it turned the call away itself; success means that the work was done, and a
\* verdict is given once: the session implements OneRequest.
THEOREM PromiseKept == SessionSpec => CallsKeepPromise
  <1>1. SessionInit => Promise!Init
    BY DEF SessionInit, Promise!Init, verdict
  <1>2. CallsInv /\ [SessionNext]_signedInVars => [Promise!Next]_<<runs, work, verdict>>
    <2> SUFFICES ASSUME CallsInv, [SessionNext]_signedInVars
                 PROVE  [Promise!Next]_<<runs, work, verdict>>
      OBVIOUS
    <2>1. CASE UNCHANGED callVars
      BY <2>1 DEF callVars, verdict
    <2> QED
      BY <2>1, NextCases, CallRefines, RefreshRefines
  <1> QED
    BY <1>1, <1>2, CallsInvariant, PTL DEF SessionSpec, CallsKeepPromise, Promise!Spec

-----------------------------------------------------------------------------
(* Type correctness *)

\* A step of a refresh.
LEMMA RefreshTyped ==
  ASSUME SessionTypeOK, NEW r \in Refreshers, RefreshStep(r)
  PROVE  SessionTypeOK'
  <1> USE RefreshersAre DEF SessionTypeOK, AccessTokens, CallSteps
  <1>0. r[1] \in Tabs /\ refresh[r].token \in Nat
    OBVIOUS
  <1>1. CASE FindRefreshToken(r)
    BY <1>1 DEF FindRefreshToken, callVars
  <1>6. CASE DenyRefresh(r)
    BY <1>6 DEF DenyRefresh, callVars
  <1>2. CASE RotateToken(r)
    <2>1. issued' = issued + 1 /\ live' \subseteq 1..issued'
      BY <1>2 DEF RotateToken
    <2>2. refresh' = [refresh EXCEPT ![r] = [step |-> "rotated", token |-> issued']]
      BY <1>2 DEF RotateToken
    <2> QED
      BY <1>2, <2>1, <2>2 DEF RotateToken, callVars
  <1>7. CASE RotationFails(r)
    BY <1>7 DEF RotationFails, RevokeOld, callVars
  <1>3. CASE RefreshAnswered(r)
    <2>1. /\ refresh' = [refresh EXCEPT ![r] = [step |-> "none", token |-> 0]]
          /\ cookie' \in Nat /\ stored' \in AccessTokens
          /\ UNCHANGED <<live, issued, shows, blamed>>
      BY <1>0, <1>3 DEF RefreshAnswered, NoRefresh
    <2>2. CASE SendAgain(r[1])
      BY <2>1, <2>2 DEF SendAgain
    <2>3. CASE UNCHANGED callVars
      BY <2>1, <2>3 DEF callVars
    <2> QED
      BY <1>3, <2>2, <2>3 DEF RefreshAnswered
  <1>4. CASE RefreshRefused(r)
    <2>1. /\ refresh' = [refresh EXCEPT ![r] = [step |-> "none", token |-> 0]]
          /\ shows' = [shows EXCEPT ![r[1]] = "login"] /\ cookie' \in Nat
          /\ stored' = "none" /\ UNCHANGED <<live, issued, blamed>>
      BY <1>4 DEF RefreshRefused, ForceLogout, NoRefresh
    <2>2. CASE FailWaiting(r[1])
      BY <1>0, <2>1, <2>2 DEF FailWaiting
    <2>3. CASE UNCHANGED callVars
      BY <1>0, <2>1, <2>3 DEF callVars
    <2> QED
      BY <1>4, <2>2, <2>3 DEF RefreshRefused
  <1>5. CASE RefreshLost(r)
    <2>1. /\ refresh' = [refresh EXCEPT ![r] = [step |-> "none", token |-> 0]]
          /\ shows' = [shows EXCEPT ![r[1]] = "login"]
          /\ stored' = "none" /\ blamed' = TRUE /\ UNCHANGED <<live, issued>>
      BY <1>5 DEF RefreshLost, ForceLogout, NoRefresh
    <2>4. cookie' \in {cookie, refresh[r].token}
      BY <1>5 DEF RefreshLost
    <2>2. CASE FailWaiting(r[1])
      BY <1>0, <2>1, <2>2, <2>4 DEF FailWaiting
    <2>3. CASE UNCHANGED callVars
      BY <1>0, <2>1, <2>3, <2>4 DEF callVars
    <2> QED
      BY <1>5, <2>2, <2>3 DEF RefreshLost
  <1> QED
    BY <1>1, <1>2, <1>3, <1>4, <1>5, <1>6, <1>7 DEF RefreshStep

\* A step of a call.
LEMMA CallTyped ==
  ASSUME SessionTypeOK, NEW c \in Calls, SendCall(c) \/ CallStep(c)
  PROVE  SessionTypeOK'
  <1> USE RefreshersAre DEF SessionTypeOK, AccessTokens, CallSteps, Move
  <1>1. CASE SendCall(c)
    BY <1>1 DEF SendCall, sessionVars
  <1>3. CASE RunCall(c)
    BY <1>3 DEF RunCall, sessionVars
  <1>7. CASE TurnAway(c)
    BY <1>7 DEF TurnAway, sessionVars
  <1>4. CASE CallAnswered(c)
    BY <1>4 DEF CallAnswered, sessionVars
  <1>5. CASE CallLost(c)
    BY <1>5 DEF CallLost, sessionVars
  <1>6. CASE DeniedAgain(c)
    BY <1>6 DEF DeniedAgain, sessionVars
  <1>2. CASE DeniedOnce(c)
    <2> DEFINE r == <<Owner[c], "shared">>
    <2>1. r \in Refreshers
      OBVIOUS
    <2>2. CASE refresh[r].step = "none"
      <3>1. /\ refresh' = [refresh EXCEPT ![r] = [step |-> "sent", token |-> cookie]]
            /\ blamed' \in BOOLEAN
        BY <1>2, <2>2 DEF DeniedOnce, StartRefresh
      <3> QED
        BY <1>2, <2>1, <3>1 DEF DeniedOnce
    <2>3. CASE refresh[r].step # "none"
      BY <1>2, <2>3 DEF DeniedOnce
    <2> QED
      BY <2>2, <2>3
  <1> QED
    BY <1>1, <1>2, <1>3, <1>4, <1>5, <1>6, <1>7 DEF CallStep

\* The session's state keeps its type.
THEOREM TypeCorrect == SessionSpec => []SessionTypeOK
  <1>1. SessionInit => SessionTypeOK
    <2> SUFFICES ASSUME SessionInit PROVE SessionTypeOK
      OBVIOUS
    <2>1. live \subseteq 1..issued /\ cookie \in Nat /\ issued \in Nat
      BY DEF SessionInit
    <2>2. /\ shows \in [Tabs -> {"pages", "login"}]
          /\ refresh \in [Refreshers ->
               [step : {"none", "sent", "found", "rotated", "refused"}, token : Nat]]
      BY DEF SessionInit, NoRefresh
    <2>3. /\ stored \in AccessTokens /\ blamed \in BOOLEAN
          /\ at \in [Calls -> CallSteps] /\ runs \in [Calls -> Nat] /\ work \in [Calls -> Nat]
          /\ again \in [Calls -> BOOLEAN] /\ carried \in [Calls -> AccessTokens]
      BY DEF SessionInit, AccessTokens, CallSteps
    <2> QED
      BY <2>1, <2>2, <2>3 DEF SessionTypeOK
  <1>2. SessionTypeOK /\ [SessionNext]_signedInVars => SessionTypeOK'
    <2> SUFFICES ASSUME SessionTypeOK, [SessionNext]_signedInVars
                 PROVE  SessionTypeOK'
      OBVIOUS
    <2>1. CASE UNCHANGED signedInVars
      BY <2>1 DEF signedInVars, sessionVars, callVars, SessionTypeOK
    <2>4. CASE Expire
      BY <2>4 DEF Expire, callVars, SessionTypeOK, AccessTokens
    <2>5. CASE EndSession
      BY <2>5 DEF EndSession, callVars, SessionTypeOK
    <2>2. ASSUME NEW t \in Providers, ProviderRefresh(t) PROVE SessionTypeOK'
      BY <2>2, RefreshersAre DEF ProviderRefresh, StartRefresh, callVars, SessionTypeOK
    <2>3. ASSUME NEW t \in Tabs, Logout(t) PROVE SessionTypeOK'
      BY <2>3 DEF Logout, ForceLogout, callVars, SessionTypeOK, AccessTokens
    <2> QED
      BY <2>1, <2>2, <2>3, <2>4, <2>5, RefreshTyped, CallTyped DEF SessionNext
  <1> QED
    BY <1>1, <1>2, PTL DEF SessionSpec

-----------------------------------------------------------------------------
(* Nobody is thrown out for nothing *)

\* A refresh that starts alone presents the cookie, which is live.
LEMMA StartSafe ==
  ASSUME RefreshInv, NEW r \in Refreshers, refresh[r].step = "none", StartRefresh(r),
         UNCHANGED <<cookie, live, shows>>
  PROVE  ~blamed' => Undisturbed'
  <1> SUFFICES ASSUME ~blamed' PROVE Undisturbed'
    OBVIOUS
  <1>1. ~blamed /\ \A o \in Refreshers : o # r => refresh[o].step = "none"
    BY DEF StartRefresh, OtherRefreshes
  <1>2. refresh' = [refresh EXCEPT ![r] = [step |-> "sent", token |-> cookie]]
    BY DEF StartRefresh
  <1>3. /\ refresh'[r].step = "sent" /\ refresh'[r].token = cookie
        /\ \A o \in Refreshers : o # r => refresh'[o].step = "none"
    BY <1>1, <1>2 DEF RefreshInv, SessionTypeOK
  <1>4. cookie \in live /\ \A t \in Tabs : shows[t] = "pages"
    BY <1>1 DEF RefreshInv, Undisturbed
  <1> QED
    BY <1>3, <1>4 DEF Undisturbed

\* Every step of a refresh leaves the session undisturbed, or is to blame.
LEMMA RefreshSafe ==
  ASSUME RefreshInv, NEW r \in Refreshers, RefreshStep(r)
  PROVE  ~blamed' => Undisturbed'
  <1> SUFFICES ASSUME ~blamed' PROVE Undisturbed'
    OBVIOUS
  <1>t. refresh \in [Refreshers ->
          [step : {"none", "sent", "found", "rotated", "refused"}, token : Nat]]
    BY DEF RefreshInv, SessionTypeOK
  <1>1. CASE FindRefreshToken(r)
    <2>1. Undisturbed
      BY <1>1 DEF FindRefreshToken, RefreshInv
    <2>2. \A o \in Refreshers : o # r => refresh[o].step = "none"
      BY <1>1, <2>1 DEF FindRefreshToken, Undisturbed
    <2>3. refresh[r].token = cookie /\ cookie \in live
      BY <1>1, <2>1, <2>2 DEF FindRefreshToken, Undisturbed
    <2>4. refresh' = [refresh EXCEPT ![r] = [refresh[r] EXCEPT !.step = "found"]]
      BY <1>1, <2>3 DEF FindRefreshToken
    <2>5. /\ refresh'[r].step = "found" /\ refresh'[r].token = cookie
          /\ \A o \in Refreshers : o # r => refresh'[o].step = "none"
      BY <1>t, <2>2, <2>3, <2>4
    <2>6. UNCHANGED <<cookie, live, shows>>
      BY <1>1 DEF FindRefreshToken
    <2> QED
      BY <2>1, <2>3, <2>5, <2>6 DEF Undisturbed
  <1>6. CASE DenyRefresh(r)
    <2>1. Undisturbed /\ refresh[r].step = "sent" /\ refresh[r].token \notin live
      BY <1>6 DEF DenyRefresh, RefreshInv
    <2>2. \A o \in Refreshers : refresh[o].step # "rotated"
      BY <2>1 DEF Undisturbed
    <2> QED
      BY <2>1, <2>2 DEF Undisturbed
  <1>2. CASE RotateToken(r)
    <2>1. Undisturbed
      BY <1>2 DEF RotateToken, RefreshInv
    <2>2. \A o \in Refreshers : o # r => refresh[o].step = "none"
      BY <1>2, <2>1 DEF RotateToken, Undisturbed
    <2>3. /\ refresh' = [refresh EXCEPT ![r] = [step |-> "rotated", token |-> issued']]
          /\ issued' \in live'
          /\ UNCHANGED <<cookie, shows>>
      BY <1>2 DEF RotateToken
    <2>4. /\ refresh'[r].step = "rotated" /\ refresh'[r].token \in live'
          /\ \A o \in Refreshers : o # r => refresh'[o].step = "none"
      BY <1>t, <2>2, <2>3
    <2> QED
      BY <2>1, <2>3, <2>4 DEF Undisturbed
  <1>3. CASE RefreshAnswered(r)
    <2>1. Undisturbed
      BY <1>3 DEF RefreshAnswered, RefreshInv
    <2>2. \A o \in Refreshers : o # r => refresh[o].step = "none"
      BY <1>3, <2>1 DEF RefreshAnswered, Undisturbed
    <2>3. \A o \in Refreshers : refresh'[o].step = "none"
      BY <1>3, <1>t, <2>2 DEF RefreshAnswered, NoRefresh
    <2>4. cookie' \in live' /\ UNCHANGED shows
      BY <1>3, <2>1 DEF RefreshAnswered, Undisturbed
    <2> QED
      BY <2>1, <2>3, <2>4 DEF Undisturbed
  <1>4. CASE RefreshRefused(r)
    BY <1>4 DEF RefreshRefused, RefreshInv, Undisturbed
  <1>5. CASE RefreshLost(r) \/ RotationFails(r)
    BY <1>5 DEF RefreshLost, RotationFails
  <1> QED
    BY <1>1, <1>2, <1>3, <1>4, <1>5, <1>6 DEF RefreshStep

\* A session is undisturbed until something is to blame.
LEMMA SessionUndisturbed ==
  ASSUME RefreshInv, [SessionNext]_signedInVars
  PROVE  ~blamed' => Undisturbed'
  <1>1. CASE UNCHANGED sessionVars
    BY <1>1 DEF sessionVars, RefreshInv, Undisturbed
  <1>2. ASSUME NEW c \in Calls, SendCall(c) \/ CallStep(c) PROVE ~blamed' => Undisturbed'
    <2> DEFINE r == <<Owner[c], "shared">>
    <2>1. CASE DeniedOnce(c) /\ refresh[r].step = "none"
      <3>1. StartRefresh(r) /\ UNCHANGED <<cookie, live, shows>>
        BY <2>1 DEF DeniedOnce
      <3> QED
        BY <2>1, <3>1, StartSafe, RefreshersAre
    <2>2. CASE ~(DeniedOnce(c) /\ refresh[r].step = "none")
      <3>1. UNCHANGED sessionVars
        BY <1>2, <2>2 DEF SendCall, CallStep, RunCall, TurnAway, CallAnswered, CallLost,
           DeniedOnce, DeniedAgain, sessionVars
      <3> QED
        BY <1>1, <3>1
    <2> QED
      BY <2>1, <2>2
  <1>3. ASSUME NEW t \in Providers, ProviderRefresh(t) PROVE ~blamed' => Undisturbed'
    <2>1. /\ refresh[<<t, "provider">>].step = "none" /\ StartRefresh(<<t, "provider">>)
          /\ UNCHANGED <<cookie, live, shows>>
      BY <1>3 DEF ProviderRefresh
    <2> QED
      BY <2>1, StartSafe, RefreshersAre
  <1>4. CASE Expire
    BY <1>4 DEF Expire, RefreshInv, Undisturbed
  <1>5. CASE EndSession \/ \E t \in Tabs : Logout(t)
    BY <1>5 DEF EndSession, Logout
  <1> QED
    BY <1>1, <1>2, <1>3, <1>4, <1>5, RefreshSafe DEF SessionNext, signedInVars, sessionVars

\* Nobody is sent to the login page for a token that merely expired: unless somebody
\* logged out, every token was revoked, a live one was refused (its days over, the
\* account locked, a read failed), a rotation failed half-way, a refresh was answered
\* by an error or not at all, or two overlapped, every refresh presents a live token
\* and every page stays a signed-in one (refreshAccessToken and forceLogout, api.ts).
THEOREM NobodyThrownOut == SessionSpec => []NotThrownOutForNothing
  <1>1. SessionInit => (~blamed => Undisturbed)
    BY DEF SessionInit, Undisturbed, NoRefresh
  <1>2. SessionTypeOK /\ (~blamed => Undisturbed) /\ [SessionNext]_signedInVars
          => (~blamed' => Undisturbed')
    BY SessionUndisturbed DEF RefreshInv
  <1>3. (~blamed => Undisturbed) => NotThrownOutForNothing
    BY DEF Undisturbed, NotThrownOutForNothing
  <1> QED
    BY <1>1, <1>2, <1>3, TypeCorrect, PTL DEF SessionSpec

-----------------------------------------------------------------------------
(* Waiting.  CallsSettle is a liveness property; what makes it so is that no  *)
(* call waits for a refresh that is not under way.                            *)

WaitsOnRefresh == \A c \in Calls : at[c] = "waiting" => refresh[<<Owner[c], "shared">>].step # "none"

\* The end of a refresh settles every call that waited for it, and no other.
LEMMA RefreshKeepsWaiters ==
  ASSUME SessionTypeOK, WaitsOnRefresh, NEW r \in Refreshers, RefreshStep(r)
  PROVE  WaitsOnRefresh'
  <1> USE DEF SessionTypeOK
  <1>1. CASE FindRefreshToken(r) \/ DenyRefresh(r) \/ RotateToken(r) \/ RotationFails(r)
    <2>1. at' = at /\ refresh \in [Refreshers -> [step: {"none", "sent", "found", "rotated", "refused"}, token: Nat]]
      BY <1>1 DEF FindRefreshToken, DenyRefresh, RotateToken, RotationFails, callVars
    <2>2. refresh'[r].step # "none" /\ \A o \in Refreshers : o # r => refresh'[o] = refresh[o]
      <3>1. CASE FindRefreshToken(r)
        BY <2>1, <3>1 DEF FindRefreshToken
      <3>2. CASE RotateToken(r)
        BY <2>1, <3>2 DEF RotateToken
      <3>3. CASE DenyRefresh(r)
        BY <2>1, <3>3 DEF DenyRefresh
      <3>4. CASE RotationFails(r)
        BY <2>1, <3>4 DEF RotationFails
      <3> QED
        BY <1>1, <3>1, <3>2, <3>3, <3>4
    <2> QED
      BY <2>1, <2>2, RefreshersAre DEF WaitsOnRefresh
  <1>2. CASE RefreshAnswered(r) \/ RefreshRefused(r) \/ RefreshLost(r)
    <2>1. refresh' = [refresh EXCEPT ![r] = NoRefresh]
      BY <1>2 DEF RefreshAnswered, RefreshRefused, RefreshLost
    <2>2. \/ r[2] = "shared" /\ (SendAgain(r[1]) \/ FailWaiting(r[1]))
          \/ r[2] # "shared" /\ at' = at
      BY <1>2 DEF RefreshAnswered, RefreshRefused, RefreshLost, callVars
    <2> SUFFICES ASSUME NEW c \in Calls, at'[c] = "waiting"
                 PROVE  refresh'[<<Owner[c], "shared">>].step # "none"
      BY DEF WaitsOnRefresh
    <2>3. at[c] = "waiting" /\ (r[2] = "shared" => Owner[c] # r[1])
      BY <2>2 DEF SendAgain, FailWaiting, Waiting, CallsOf
    <2>4. <<Owner[c], "shared">> # r
      BY <2>3
    <2> QED
      BY <2>1, <2>3, <2>4, RefreshersAre DEF WaitsOnRefresh
  <1> QED
    BY <1>1, <1>2 DEF RefreshStep

\* A call that begins to wait starts the refresh, or joins it.
LEMMA CallKeepsWaiters ==
  ASSUME SessionTypeOK, WaitsOnRefresh, NEW c \in Calls, SendCall(c) \/ CallStep(c)
  PROVE  WaitsOnRefresh'
  <1> USE DEF SessionTypeOK
  <1>1. CASE DeniedOnce(c)
    <2> DEFINE r == <<Owner[c], "shared">>
    <2>1. r \in Refreshers /\ at' = [at EXCEPT ![c] = "waiting"]
      BY <1>1, RefreshersAre DEF DeniedOnce, Move
    <2>2. /\ refresh'[r].step # "none"
          /\ \A o \in Refreshers : refresh[o].step # "none" => refresh'[o].step # "none"
      <3>1. CASE refresh[r].step = "none"
        <4>1. refresh' = [refresh EXCEPT ![r] = [step |-> "sent", token |-> cookie]]
          BY <1>1, <3>1 DEF DeniedOnce, StartRefresh
        <4> QED
          BY <2>1, <4>1
      <3>2. CASE refresh[r].step # "none"
        BY <1>1, <3>2 DEF DeniedOnce
      <3> QED
        BY <3>1, <3>2
    <2> QED
      BY <2>1, <2>2, RefreshersAre DEF WaitsOnRefresh
  <1>2. CASE ~DeniedOnce(c)
    <2>1. \E s \in {"wire", "ran", "turned", "ok", "failed"} : at' = [at EXCEPT ![c] = s]
      BY <1>2 DEF SendCall, CallStep, RunCall, TurnAway, CallAnswered, CallLost, DeniedAgain, Move
    <2>2. refresh' = refresh
      BY <1>2 DEF SendCall, CallStep, RunCall, TurnAway, CallAnswered, CallLost, DeniedAgain,
         sessionVars
    <2> QED
      BY <2>1, <2>2 DEF WaitsOnRefresh
  <1> QED
    BY <1>1, <1>2 DEF CallStep

\* No wait on a refresh is forgotten: as long as a call waits, the shared refresh of
\* its tab is under way, whatever the other tabs, AuthProvider, the user and the
\* administrators do (refreshInFlight, api.ts).
THEOREM NobodyForgotten == SessionSpec => []WaitsOnRefresh
  <1>1. SessionInit => WaitsOnRefresh
    BY DEF SessionInit, WaitsOnRefresh
  <1>2. SessionTypeOK /\ WaitsOnRefresh /\ [SessionNext]_signedInVars => WaitsOnRefresh'
    <2> SUFFICES ASSUME SessionTypeOK, WaitsOnRefresh, [SessionNext]_signedInVars PROVE WaitsOnRefresh'
      OBVIOUS
    <2>1. ASSUME NEW t \in Providers, ProviderRefresh(t)
          PROVE  WaitsOnRefresh'
      BY <2>1, RefreshersAre DEF ProviderRefresh, StartRefresh, callVars, WaitsOnRefresh, SessionTypeOK
    <2>2. CASE UNCHANGED signedInVars \/ Expire \/ EndSession \/ \E t \in Tabs : Logout(t)
      BY <2>2 DEF signedInVars, sessionVars, callVars, Expire, EndSession, Logout, WaitsOnRefresh
    <2> QED
      BY <2>1, <2>2, RefreshKeepsWaiters, CallKeepsWaiters DEF SessionNext
  <1> QED
    BY <1>1, <1>2, TypeCorrect, PTL DEF SessionSpec
=============================================================================
