----------------------------- MODULE OrderOutcome -----------------------------
(***************************************************************************)
(* What may become of an order, for all who follow it: buyer, vendor and   *)
(* administration.  A paid order was pending, or failed whose money came   *)
(* after all; it leaves that state by a refund only, and one step decides  *)
(* of one order.                                                           *)
(*                                                                         *)
(* SaleLifecycle implements it as long as no two requests for one sale     *)
(* overlap, and BuyerJourney supposes no more of the backend.              *)
(***************************************************************************)

CONSTANT Orders

VARIABLE outcome    \* the status of each order, "none" before the checkout

Placed   == {<<"none", "pending">>, <<"none", "failed">>}
Settled  == {<<"pending", "paid">>, <<"pending", "failed">>, <<"failed", "paid">>}
Returned == {<<"paid", "refund_pending">>, <<"refund_pending", "refunded">>}

Moves == Placed \cup Settled \cup Returned

Init == outcome = [o \in Orders |-> "none"]

Move(o, m) == outcome[o] = m[1] /\ outcome' = [outcome EXCEPT ![o] = m[2]]

Next == \E o \in Orders, m \in Moves : Move(o, m)

Spec == Init /\ [][Next]_outcome

\* Buyers do not follow an order beyond its payment.
Followed(status) == IF status \in {"refund_pending", "refunded"} THEN "paid" ELSE status

===============================================================================
