------------------------------ MODULE OneRequest ------------------------------
(***************************************************************************)
(* What a page expects of one call to the API, whatever happens to its     *)
(* session meanwhile: its handler does its work at most once, success is   *)
(* reported only after it did, and the verdict is given once and stays.    *)
(* A handler that may turn the call away itself can be entered twice, but  *)
(* never again after its work.                                             *)
(***************************************************************************)
EXTENDS Naturals

CONSTANTS Calls, Refusing

VARIABLES runs,     \* how many times the backend entered the call's handler
          work,     \* how many times the handler did its work
          verdict   \* what the page was told: "none", "ok" or "failed"

Init ==
    /\ runs = [c \in Calls |-> 0]
    /\ work = [c \in Calls |-> 0]
    /\ verdict = [c \in Calls |-> "none"]

MayEnter(c) ==
    /\ work[c] = 0 /\ verdict[c] = "none"
    /\ runs[c] = 0 \/ (runs[c] = 1 /\ c \in Refusing)

Run(c) ==
    /\ MayEnter(c)
    /\ runs' = [runs EXCEPT ![c] = @ + 1]
    /\ work' = [work EXCEPT ![c] = 1]
    /\ UNCHANGED verdict

TurnAway(c) ==
    /\ MayEnter(c) /\ c \in Refusing
    /\ runs' = [runs EXCEPT ![c] = @ + 1]
    /\ UNCHANGED <<work, verdict>>

Succeed(c) ==
    /\ verdict[c] = "none"
    /\ work[c] = 1
    /\ verdict' = [verdict EXCEPT ![c] = "ok"]
    /\ UNCHANGED <<runs, work>>

\* Several calls may fail at once: they share the refresh that failed.
Fail(failing) ==
    /\ \A c \in failing : verdict[c] = "none"
    /\ verdict' = [c \in Calls |-> IF c \in failing THEN "failed" ELSE verdict[c]]
    /\ UNCHANGED <<runs, work>>

Next ==
    \/ \E c \in Calls : Run(c) \/ TurnAway(c) \/ Succeed(c)
    \/ \E failing \in SUBSET Calls : Fail(failing)

Spec == Init /\ [][Next]_<<runs, work, verdict>>

===============================================================================
