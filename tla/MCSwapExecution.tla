--------------------------- MODULE MCSwapExecution ---------------------------
(***************************************************************************)
(* A pool small enough that single swaps move its price by a third, so the *)
(* rounding of every step shows.                                           *)
(***************************************************************************)
EXTENDS SwapExecution

MCReserves == [quote |-> 3000, faction |-> 5000]
MCWallet   == [quote |-> 4000, faction |-> 4000]

\* A cheap epoch and an expensive one.
MCTaxes == {[buy |-> 100, sell |-> 1400], [buy |-> 1300, sell |-> 400]}

MCAmounts   == {7, 150, 1999}
MCSlippages == {0, 100}
=============================================================================
