------------------------- MODULE MCPayoutLifecycle -------------------------
(***************************************************************************)
(* Bounded instances of PayoutLifecycle.                                   *)
(***************************************************************************)
EXTENDS PayoutLifecycle, TLC

\* Handlers and provider references are interchangeable.
Symmetry == Permutations(Handlers) \cup Permutations(Transfers)

=============================================================================
