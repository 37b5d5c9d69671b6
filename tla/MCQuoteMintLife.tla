--------------------------- MODULE MCQuoteMintLife ---------------------------
(***************************************************************************)
(* Two routes on one mint whose authority sets and retires a fee, one that *)
(* is capped at nothing included.                                          *)
(***************************************************************************)
EXTENDS QuoteMintLife

MCFees    == {[bps |-> 0, max |-> 0], [bps |-> 100, max |-> 5], [bps |-> 100, max |-> 0]}
MCAmounts == {0, 1, 1000}
=============================================================================
