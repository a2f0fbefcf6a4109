---------------------------- MODULE PayoutOutcome ----------------------------
(***************************************************************************)
(* What a vendor and the administration may count on for a payout: its     *)
(* status, and the transfers of it that have paid or may still pay.  Money *)
(* leaves again only when none of what left before can arrive; "failed" is *)
(* said only then, "paid" only of money that left or by hand; and one step *)
(* decides of one payout.                                                  *)
(*                                                                         *)
(* PayoutLifecycle implements it as long as requests for one payout do not *)
(* overlap, no answer is lost and nobody crashes.                          *)
(***************************************************************************)

CONSTANTS Payouts, Transfers

VARIABLES
    outcome,    \* the status of each payout, "none" before its request
    live,       \* the transfers of each that have paid or may still pay
    byHand      \* settled outside the program, on an administrator's word

Init ==
    /\ outcome = [p \in Payouts |-> "none"]
    /\ live = [p \in Payouts |-> {}]
    /\ byHand = [p \in Payouts |-> FALSE]

Decide(p, x) == outcome' = [outcome EXCEPT ![p] = x]

Request(p) == outcome[p] = "none" /\ Decide(p, "requested") /\ UNCHANGED <<live, byHand>>

\* Money leaves, and the payout is then followed.
Send(p) ==
    /\ outcome[p] \in {"requested", "failed"} /\ live[p] = {}
    /\ \E t \in Transfers : live' = [live EXCEPT ![p] = {t}]
    /\ UNCHANGED <<outcome, byHand>>

Follow(p) ==
    /\ outcome[p] \in {"requested", "failed"} /\ Decide(p, "processing")
    /\ UNCHANGED <<live, byHand>>

\* The provider gives up.
Bounce(p) ==
    /\ live[p] # {} /\ live' = [live EXCEPT ![p] = {}]
    /\ UNCHANGED <<outcome, byHand>>

\* A payout that was refunded is still followed, and may be decided once more.
Fail(p) ==
    /\ outcome[p] \notin {"none", "paid"} /\ live[p] = {} /\ Decide(p, "failed")
    /\ UNCHANGED <<live, byHand>>

Confirm(p) ==
    /\ outcome[p] \notin {"none", "paid", "failed"} /\ live[p] # {} /\ Decide(p, "paid")
    /\ UNCHANGED <<live, byHand>>

\* An administrator pays elsewhere, or takes a payout back.
SettleByHand(p) ==
    /\ outcome[p] \notin {"paid", "refunded"} /\ Decide(p, "paid")
    /\ byHand' = [byHand EXCEPT ![p] = TRUE]
    /\ UNCHANGED live

Refund(p) ==
    /\ outcome[p] \in {"paid", "failed"} /\ Decide(p, "refunded")
    /\ UNCHANGED <<live, byHand>>

Next ==
    \E p \in Payouts :
        \/ Request(p) \/ Send(p) \/ Follow(p) \/ Bounce(p) \/ Fail(p) \/ Confirm(p)
        \/ SettleByHand(p) \/ Refund(p)

Spec == Init /\ [][Next]_<<outcome, live, byHand>>

==============================================================================
