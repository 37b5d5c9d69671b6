---------------------------- MODULE SwapExecution ----------------------------
(***************************************************************************)
(* What becomes of a faction pool's quotes: the adapter quotes from its    *)
(* last snapshot, the engine turns the quote into a swap with a minimum    *)
(* output, and the programs execute it, later, against reserves and taxes  *)
(* that other swaps and epoch rolls have moved.                            *)
(*                                                                         *)
(* The programs run the same arithmetic (src/src/math/ is their exact copy *)
(* by its own account); how a swap settles is modelled from the pipeline   *)
(* the tests replicate.  Mints are reduced to the two roles.               *)
(***************************************************************************)
EXTENDS TaxedSwap

CONSTANTS
  InitReserves,   \* [quote, faction]: the pool's opening reserves
  InitWallet,     \* [quote, faction]: what all traders together hold
  LpFeeBps,
  Taxes,          \* the [buy, sell] tax pairs of the epochs
  Amounts,        \* amounts traders swap
  Slippages,      \* how far below its quote a swap's minimum output may lie
  MaxSwaps,       \* bound on executed swaps
  NoOrder

VARIABLES
  reserves,    \* the pool on chain
  tax,         \* the epoch's taxes on chain
  wallet,      \* the traders' tokens
  collected,   \* tax taken so far, in quote tokens
  snapshot,    \* [reserves, tax]: what the route was last refreshed from
  order,       \* a swap that was quoted and is not yet executed
  swaps        \* executed swaps so far

vars == <<reserves, tax, wallet, collected, snapshot, order, swaps>>

Sides == {"buy", "sell"}
Pair  == [quote : U64, faction : U64]

ASSUME SwapAssumption ==
  /\ InitReserves \in Pair /\ InitReserves.quote > 0 /\ InitReserves.faction > 0
  /\ InitWallet \in Pair
  /\ InitReserves.quote + InitWallet.quote <= U64Max
  /\ InitReserves.faction + InitWallet.faction <= U64Max
  /\ LpFeeBps \in 0 .. 10000
  /\ Taxes \subseteq [buy : 0 .. 10000, sell : 0 .. 10000]
  /\ Amounts \subseteq U64 /\ Slippages \subseteq U64 /\ MaxSwaps \in Nat

Quote(s, side, amount) ==
  IF side = "buy"
  THEN QuoteBuy(s.reserves.quote, s.reserves.faction, LpFeeBps, s.tax.buy, amount)
  ELSE QuoteSell(s.reserves.quote, s.reserves.faction, LpFeeBps, s.tax.sell, amount)

Chain == [reserves |-> reserves, tax |-> tax]

-----------------------------------------------------------------------------
(* Settlement on chain *)

Settlement(side, amount) == SettledSwap(reserves, LpFeeBps, tax, side, amount)

Held(side) == IF side = "buy" THEN wallet.quote ELSE wallet.faction

Swap(side, amount, minimumOutput) ==
  LET s == Settlement(side, amount) IN
  /\ swaps < MaxSwaps
  /\ amount <= Held(side)
  /\ s.eff > 0 /\ s.paid > 0 /\ s.paid >= minimumOutput
  /\ wallet' = IF side = "buy"
               THEN [quote |-> wallet.quote - amount, faction |-> wallet.faction + s.paid]
               ELSE [quote |-> wallet.quote + s.paid, faction |-> wallet.faction - amount]
  /\ reserves' = ReservesAfter(reserves, side, amount, s)
  /\ collected' = collected + s.taxed
  /\ swaps' = swaps + 1

-----------------------------------------------------------------------------
(* Actions *)

Init ==
  /\ reserves = InitReserves /\ wallet = InitWallet
  /\ tax \in Taxes
  /\ collected = 0
  /\ snapshot = [reserves |-> InitReserves, tax |-> tax]
  /\ order = NoOrder
  /\ swaps = 0

\* SolPoolAmm::update with the accounts as they are on chain.
Refresh ==
  /\ snapshot' = Chain
  /\ UNCHANGED <<reserves, tax, wallet, collected, order, swaps>>

EpochRolls ==
  /\ tax' \in Taxes \ {tax}
  /\ UNCHANGED <<reserves, wallet, collected, snapshot, order, swaps>>

PlaceOrder(side, amount, slippage) ==
  LET q == Quote(snapshot, side, amount) IN
  /\ order = NoOrder
  /\ q.ok /\ amount <= Held(side)
  /\ order' = [side |-> side, amount |-> amount, quoted |-> q.out,
               minimumOutput |-> SaturatingSub(q.out, slippage), basis |-> snapshot]
  /\ UNCHANGED <<reserves, tax, wallet, collected, snapshot, swaps>>

ExecuteOrder ==
  /\ order # NoOrder
  /\ Swap(order.side, order.amount, order.minimumOutput)
  /\ order' = NoOrder
  /\ UNCHANGED <<tax, snapshot>>

DropOrder ==
  /\ order # NoOrder
  /\ order' = NoOrder
  /\ UNCHANGED <<reserves, tax, wallet, collected, snapshot, swaps>>

OtherSwap(side, amount) ==
  /\ Swap(side, amount, 0)
  /\ UNCHANGED <<tax, snapshot, order>>

Next ==
  \/ Refresh
  \/ EpochRolls
  \/ \E side \in Sides, amount \in Amounts, s \in Slippages : PlaceOrder(side, amount, s)
  \/ ExecuteOrder
  \/ DropOrder
  \/ \E side \in Sides, amount \in Amounts : OtherSwap(side, amount)

Spec == Init /\ [][Next]_vars

-----------------------------------------------------------------------------
(* Properties *)

Snapshots == [reserves : Pair, tax : Taxes]

\* Balances stay u64: no swap drives a reserve or a wallet below zero.
TypeOK ==
  /\ reserves \in Pair /\ wallet \in Pair /\ collected \in U64
  /\ tax \in Taxes
  /\ snapshot \in Snapshots
  /\ order # NoOrder => order.basis \in Snapshots
  /\ swaps \in 0 .. MaxSwaps

\* An executed order pays what it was quoted when the pool and the epoch are as
\* they were at the quote, for every order built since the last refresh.
UnmovedMarketPaysQuote ==
  [][order # NoOrder /\ order.basis = Chain /\ reserves' # reserves /\ order' = NoOrder =>
       LET got == IF order.side = "buy" THEN wallet'.faction - wallet.faction
                                        ELSE wallet'.quote - wallet.quote
       IN  got = order.quoted]_vars

\* No swap, at any tax and in any order of buys and sells, lowers the
\* product of the reserves (the program's own check on every swap).
KNeverDecreases ==
  [][VerifyKInvariant(reserves.quote, reserves.faction,
                      reserves'.quote, reserves'.faction)]_vars

\* No sequence of buys and sells, whatever the epochs in between, ends with the
\* traders holding more of one token and no less of the other.
NoProfitFromThePool ==
  /\ wallet.faction >= InitWallet.faction => wallet.quote <= InitWallet.quote
  /\ wallet.quote >= InitWallet.quote => wallet.faction <= InitWallet.faction

\* The fee a quote reports is what the trade really withholds: on a buy the
\* part of the input that does not move the price, on a sell the part of the
\* gross output the seller does not get; never more than what was traded.
ReportedFeeIsWithheld ==
  \A side \in Sides, amount \in Amounts :
    LET q == Quote(Chain, side, amount)
        s == Settlement(side, amount)
    IN  q.ok =>
          /\ side = "buy" => q.fee = amount - s.eff
          /\ side = "sell" => q.fee = s.taxed
=============================================================================
