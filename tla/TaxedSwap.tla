------------------------------ MODULE TaxedSwap ------------------------------
(***************************************************************************)
(* The quote arithmetic of a faction pool (SolPoolAmm::quote_buy and       *)
(* quote_sell, src/src/sol_pool_amm.rs): a constant-product swap behind an *)
(* LP fee, with the epoch's tax taken on the quote side of the trade, from *)
(* the input of a buy and from the output of a sell.  A Rust Result is a   *)
(* quote record, or Err.                                                   *)
(***************************************************************************)
EXTENDS AmmMath

Err == [ok |-> FALSE, out |-> 0, fee |-> 0, feeBps |-> 0]

QuoteOk(out, fee, feeBps) ==
  [ok |-> TRUE, out |-> out, fee |-> fee, feeBps |-> feeBps]

\* A plausible bug: the LP fee is left out of the reported fee.
BuyFeeTaxOnly(tax, toSwap, effective) == tax

\* fee_amount: tax plus LP fee; the LP fee goes through a cast of the u128
\* effective input to u64, and an overflowing sum falls back to the tax.
BuyFee(tax, toSwap, effective) ==
  LET lpFee == SaturatingSub(toSwap, effective % (U64Max + 1))
  IN  IF tax + lpFee > U64Max THEN tax ELSE tax + lpFee

QuoteBuy(reserveQuote, reserveFaction, lpFeeBps, buyTaxBps, amountIn) ==
  LET tax       == CalculateTax(amountIn, buyTaxBps)
      toSwap    == amountIn - tax
      effective == CalculateEffectiveInput(toSwap, lpFeeBps)
      out       == CalculateSwapOutput(reserveQuote, reserveFaction, effective)
      feeBps    == lpFeeBps + buyTaxBps
  IN  IF tax = None \/ tax > amountIn THEN Err
      ELSE IF toSwap = 0 THEN QuoteOk(0, tax, feeBps)
      ELSE IF effective = None \/ out = None THEN Err
      ELSE QuoteOk(out, BuyFee(tax, toSwap, effective), feeBps)

\* A plausible bug: the seller is quoted the gross output.
QuoteSellGross(reserveQuote, reserveFaction, lpFeeBps, sellTaxBps, amountIn) ==
  LET effective == CalculateEffectiveInput(amountIn, lpFeeBps)
      gross     == CalculateSwapOutput(reserveFaction, reserveQuote, effective)
  IN  IF effective = None \/ gross = None THEN Err
      ELSE QuoteOk(gross, CalculateTax(gross, sellTaxBps), lpFeeBps + sellTaxBps)

QuoteSell(reserveQuote, reserveFaction, lpFeeBps, sellTaxBps, amountIn) ==
  LET effective == CalculateEffectiveInput(amountIn, lpFeeBps)
      gross     == CalculateSwapOutput(reserveFaction, reserveQuote, effective)
      tax       == CalculateTax(gross, sellTaxBps)
  IN  IF effective = None \/ gross = None \/ tax = None \/ tax > gross
      THEN Err
      ELSE QuoteOk(gross - tax, tax, lpFeeBps + sellTaxBps)

-----------------------------------------------------------------------------
(* Settlement on chain, as the pipeline the tests replicate *)

\* reserves [quote, faction], tax [buy, sell].  The tax leaves the trade on the
\* quote side; all the rest of the input, LP fee included, stays in the pool.
SettledSwap(reserves, lpFeeBps, tax, side, amount) ==
  IF side = "buy"
  THEN LET taxed == CalculateTax(amount, tax.buy)
           eff   == CalculateEffectiveInput(amount - taxed, lpFeeBps)
       IN  [paid |-> CalculateSwapOutput(reserves.quote, reserves.faction, eff),
            taxed |-> taxed, eff |-> eff]
  ELSE LET eff   == CalculateEffectiveInput(amount, lpFeeBps)
           gross == CalculateSwapOutput(reserves.faction, reserves.quote, eff)
           taxed == CalculateTax(gross, tax.sell)
       IN  [paid |-> gross - taxed, taxed |-> taxed, eff |-> eff]

ReservesAfter(reserves, side, amount, s) ==
  IF side = "buy"
  THEN [quote |-> reserves.quote + amount - s.taxed, faction |-> reserves.faction - s.paid]
  ELSE [quote |-> reserves.quote - s.paid - s.taxed, faction |-> reserves.faction + amount]
=============================================================================
