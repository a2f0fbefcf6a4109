-------------------------- MODULE MCSaleLifecycle --------------------------
(***************************************************************************)
(* Bounded instances of SaleLifecycle.                                     *)
(***************************************************************************)
EXTENDS SaleLifecycle, TLC

\* Handlers and refund identifiers are interchangeable.
Symmetry == Permutations(Handlers) \cup Permutations(Refunds)

=============================================================================
