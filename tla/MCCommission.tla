--------------------------- MODULE MCCommission ---------------------------
(***************************************************************************)
(* A bounded instance of Commission: prices on both sides of the           *)
(* high-value threshold, a price and rates at which the product of doubles *)
(* is inexact, rates at the bounds of every check.                         *)
(***************************************************************************)
EXTENDS Commission

MCAmounts == {1, 10000, 999999, 1000000}

MCRates == {0, 57, 1000, 1500, 8500, 8501, 10000, 10001}

===========================================================================
