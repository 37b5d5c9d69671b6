----------------------------- MODULE MCHopRoutes -----------------------------
(***************************************************************************)
(* Routes of two and three hops, into, out of and through PROFIT, over     *)
(* pools whose outputs leave dust in a conversion.                         *)
(***************************************************************************)
EXTENDS HopRoutes

MCPools == [CRIME |-> [quote |-> 300, faction |-> 3000],
            FRAUD |-> [quote |-> 500, faction |-> 2000]]
MCVault == [CRIME |-> 800, FRAUD |-> 900, PROFIT |-> 9]
MCUser  == [CRIME |-> 150, FRAUD |-> 450, PROFIT |-> 2, WSOL |-> 120]

Rates(crimeBuy, crimeSell, fraudBuy, fraudSell) ==
  [CRIME |-> [buy |-> crimeBuy, sell |-> crimeSell],
   FRAUD |-> [buy |-> fraudBuy, sell |-> fraudSell]]
MCTaxes == {Rates(400, 1300, 1200, 200), Rates(1400, 100, 300, 1100)}

MCPaths == {<<"WSOL", "CRIME", "PROFIT">>, <<"WSOL", "CRIME", "PROFIT", "FRAUD">>,
            <<"PROFIT", "CRIME", "WSOL">>, <<"FRAUD", "PROFIT", "CRIME", "WSOL">>}
MCAmounts   == {1, 120, 250}
MCSlippages == {0, 150}
MCOther     == {1, 100, 400}
=============================================================================
