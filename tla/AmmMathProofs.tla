--------------------------- MODULE AmmMathProofs -----------------------------
(***************************************************************************)
(* What the arithmetic of AmmMath guarantees for every u64 input and every *)
(* width of u64, and that the quotes of TaxedSwap are settled as quoted.   *)
(* A valid rate is at most the whole; the value of BPS_DENOM is used in    *)
(* two places only, and is otherwise kept symbolic.                        *)
(***************************************************************************)
EXTENDS TaxedSwap, TLAPS

Rate == 0 .. BPS_DENOM

LEMMA DenomPositive == BPS_DENOM \in Nat \ {0}
  BY DEF BPS_DENOM

\* Truncating division, by the two inequalities that define it.
LEMMA DivBounds ==
  ASSUME NEW a \in Nat, NEW b \in Nat \ {0}
  PROVE  /\ a \div b \in Nat
         /\ (a \div b) * b <= a
         /\ a < (a \div b) * b + b
  BY Z3

\* The product of two u64 values fits in a u128.
LEMMA ProductFitsU128 ==
  ASSUME NEW x \in U64, NEW y \in U64
  PROVE  x * y \in 0 .. U128Max
  <1>1. x \in Nat /\ y \in Nat /\ x <= U64Max /\ y <= U64Max /\ U64Max \in Nat
    BY U64MaxAssumption DEF U64
  <1>2. x * y \in Nat /\ x * y <= x * U64Max /\ x * U64Max <= U64Max * U64Max
    BY <1>1, Z3
  <1>3. U64Max * U64Max <= U128Max
    BY <1>1, Z3 DEF U128Max
  <1> QED BY <1>1, <1>2, <1>3, Z3 DEF U128Max

\* A valid rate is a u64, and so is what it leaves of the whole a valid rate.
LEMMA RateIsU64 ==
  ASSUME NEW n \in Rate
  PROVE  n \in U64 /\ BPS_DENOM - n \in Rate /\ ~(n > BPS_DENOM)
  <1>1. n \in U64
    BY U64MaxAssumption, DenomPositive DEF Rate, U64
  <1>2. BPS_DENOM - n \in Rate
    BY DenomPositive DEF Rate
  <1>3. ~(n > BPS_DENOM)
    BY DenomPositive DEF Rate
  <1> QED BY <1>1, <1>2, <1>3

\* A checked product of a u64 and a rate is that product, never None.
LEMMA ScaledIsSome ==
  ASSUME NEW x \in U64, NEW n \in Rate
  PROVE  CheckedU128(x * n) = x * n /\ CheckedU128(x * n) # None
  <1>1. x * n \in 0 .. U128Max
    BY RateIsU64, ProductFitsU128
  <1>2. CheckedU128(x * n) = x * n
    BY <1>1 DEF CheckedU128
  <1>3. x * n # None
    BY <1>1 DEF None
  <1> QED BY <1>2, <1>3

\* A share of at most the whole, rounded down, is at most the whole.
LEMMA ShareBounded ==
  ASSUME NEW x \in U64, NEW n \in Rate
  PROVE  (x * n) \div BPS_DENOM \in 0 .. x
  <1> DEFINE p == x * n
             q == p \div BPS_DENOM
  <1>1. x \in Nat /\ n \in Nat /\ n <= BPS_DENOM /\ BPS_DENOM \in Nat \ {0}
    BY U64MaxAssumption, DenomPositive DEF U64, Rate
  <1>2. p \in Nat /\ p <= x * BPS_DENOM
    BY <1>1, Z3
  <1> HIDE DEF p
  <1>3. q \in Nat /\ q * BPS_DENOM <= p
    BY <1>1, <1>2, DivBounds
  <1> HIDE DEF q
  <1>4. q <= x
    BY <1>1, <1>2, <1>3, Z3
  <1>5. q \in 0 .. x
    BY <1>1, <1>3, <1>4
  <1> QED BY <1>5 DEF p, q

\* calculate_tax never fails on a valid rate and never takes more than all.
THEOREM TaxNeverExceedsAmount ==
  ASSUME NEW amount \in U64, NEW taxBps \in Rate
  PROVE  /\ CalculateTax(amount, taxBps) = (amount * taxBps) \div BPS_DENOM
         /\ CalculateTax(amount, taxBps) \in 0 .. amount
  <1> DEFINE share == (amount * taxBps) \div BPS_DENOM
  <1>1. share \in 0 .. amount
    BY ShareBounded
  <1>2. CalculateTax(amount, taxBps) = CheckedU64(share)
    BY RateIsU64, ScaledIsSome DEF CalculateTax
  <1> HIDE DEF share
  <1>3. CheckedU64(share) = share
    BY <1>1, U64MaxAssumption DEF CheckedU64, U64
  <1>4. CalculateTax(amount, taxBps) = share
    BY <1>2, <1>3
  <1> QED BY <1>1, <1>4 DEF share

\* calculate_effective_input never fails on a valid fee and never adds to the
\* input it is given.
THEOREM EffectiveNeverExceedsInput ==
  ASSUME NEW amountIn \in U64, NEW feeBps \in Rate
  PROVE  /\ CalculateEffectiveInput(amountIn, feeBps)
              = (amountIn * (BPS_DENOM - feeBps)) \div BPS_DENOM
         /\ CalculateEffectiveInput(amountIn, feeBps) \in 0 .. amountIn
  <1> DEFINE keep == BPS_DENOM - feeBps
  <1>1. keep \in Rate /\ ~(feeBps > BPS_DENOM)
    BY RateIsU64
  <1>2. CalculateEffectiveInput(amountIn, feeBps)
          = IF CheckedU128(amountIn * keep) = None
            THEN None ELSE CheckedU128(amountIn * keep) \div BPS_DENOM
    BY <1>1 DEF CalculateEffectiveInput
  <1> HIDE DEF keep
  <1>3. CalculateEffectiveInput(amountIn, feeBps)
          = (amountIn * keep) \div BPS_DENOM
    BY <1>1, <1>2, ScaledIsSome
  <1>4. (amountIn * keep) \div BPS_DENOM \in 0 .. amountIn
    BY <1>1, ShareBounded
  <1> QED BY <1>3, <1>4 DEF keep

\* The integer facts behind the swap formula: with out = rout * eff div den,
\* where den = rin + eff, no more than rout leaves, and what stays on the two
\* sides multiplies to at least rin * rout.
LEMMA SwapArithmetic ==
  ASSUME NEW rin \in Nat, NEW rout \in Nat, NEW eff \in Nat, NEW out \in Nat,
         rin + eff > 0, out * (rin + eff) <= rout * eff
  PROVE  /\ out <= rout
         /\ rin > 0 /\ rout > 0 => out < rout
         /\ (rin + eff) * (rout - out) >= rin * rout
  <1> DEFINE den == rin + eff
  <1>1. den \in Nat /\ den > 0 /\ den >= eff
    OBVIOUS
  <1>2. rout * eff + rout * rin = rout * den
    BY Z3
  <1> HIDE DEF den
  <1>3. out * den <= rout * eff
    BY DEF den
  <1>4. out * den + rout * rin <= rout * den
    BY <1>1, <1>2, <1>3, Z3
  <1>5. rout * rin \in Nat
    BY Z3
  <1>6. out <= rout
    BY <1>1, <1>4, <1>5, Z3
  <1>7. ASSUME rin > 0, rout > 0 PROVE out < rout
    <2>1. rout * rin > 0
      BY <1>7, Z3
    <2>2. out * den < rout * den
      BY <1>1, <1>4, <2>1, Z3
    <2> QED BY <1>1, <2>2, Z3
  <1>8. den * (rout - out) >= rin * rout
    BY <1>1, <1>4, <1>6, Z3
  <1> QED BY <1>6, <1>7, <1>8 DEF den

\* No checked operation of calculate_swap_output fails on u64 inputs with a
\* non-zero denominator: the output is the quotient, and within the reserve.
LEMMA SwapOutputInRange ==
  ASSUME NEW reserveIn \in U64, NEW reserveOut \in U64, NEW effective \in U64,
         reserveIn + effective > 0
  PROVE  LET out == CalculateSwapOutput(reserveIn, reserveOut, effective)
         IN  /\ out = (reserveOut * effective) \div (reserveIn + effective)
             /\ out \in 0 .. reserveOut
             /\ reserveIn > 0 /\ reserveOut > 0 => out < reserveOut
             /\ out * (reserveIn + effective) <= reserveOut * effective
  <1> DEFINE num == reserveOut * effective
             den == reserveIn + effective
             quot == num \div den
  <1>1. /\ reserveIn \in Nat /\ reserveOut \in Nat /\ effective \in Nat
        /\ reserveIn <= U64Max /\ reserveOut <= U64Max /\ effective <= U64Max
        /\ U64Max \in Nat
    BY U64MaxAssumption DEF U64
  <1>2. den \in Nat \ {0} /\ den <= 2 * U64Max
    BY <1>1
  <1>3. num \in 0 .. U128Max
    BY ProductFitsU128
  <1>4. U128Max = U64Max * U64Max + 2 * U64Max /\ U64Max * U64Max >= 0
    BY <1>1, Z3 DEF U128Max
  <1>5. num \in Nat
    BY <1>1, Z3
  <1>6. CalculateSwapOutput(reserveIn, reserveOut, effective)
          = LET n == CheckedU128(num)
                d == CheckedU128(den)
            IN  IF n = None \/ d \in {None, 0}
                THEN None ELSE CheckedU64(n \div d)
    BY DEF CalculateSwapOutput
  <1>7. quot \in Nat /\ quot * den <= num
    <2> HIDE DEF num, den
    <2> QED BY <1>2, <1>5, DivBounds
  <1> HIDE DEF quot
  <1>8. /\ quot <= reserveOut
        /\ reserveIn > 0 /\ reserveOut > 0 => quot < reserveOut
    BY <1>1, <1>7, SwapArithmetic
  <1> HIDE DEF num, den
  <1>9. den \in 0 .. U128Max
    <2> DEFINE sq == U64Max * U64Max
    <2>1. U128Max = sq + 2 * U64Max /\ sq >= 0 /\ sq \in Int
      BY <1>1, <1>4, Z3
    <2> HIDE DEF sq
    <2> QED BY <1>1, <1>2, <2>1
  <1>10. CheckedU128(num) = num /\ CheckedU128(den) = den
    BY <1>3, <1>9 DEF CheckedU128
  <1>11. num # None /\ den # None /\ den # 0
    BY <1>2, <1>5 DEF None
  <1>12. CheckedU64(quot) = quot
    BY <1>1, <1>7, <1>8 DEF CheckedU64
  <1>13. CalculateSwapOutput(reserveIn, reserveOut, effective) = quot
    BY <1>6, <1>10, <1>11, <1>12 DEF quot
  <1>14. quot \in 0 .. reserveOut
    BY <1>1, <1>7, <1>8
  <1>15. quot = (reserveOut * effective) \div (reserveIn + effective)
    BY DEF num, den, quot
  <1> QED BY <1>7, <1>8, <1>13, <1>14, <1>15 DEF num, den

\* calculate_swap_output fails on no u64 input but an empty pool swapped for
\* nothing, and never pays out the whole of a live reserve.
THEOREM SwapOutputBounded ==
  ASSUME NEW reserveIn \in U64, NEW reserveOut \in U64, NEW effective \in U64,
         reserveIn + effective > 0
  PROVE  LET out == CalculateSwapOutput(reserveIn, reserveOut, effective)
         IN  /\ out \in 0 .. reserveOut
             /\ reserveIn > 0 /\ reserveOut > 0 => out < reserveOut
             /\ out * (reserveIn + effective) <= reserveOut * effective
  BY SwapOutputInRange

\* A swap that deposits at least its effective input passes the on-chain check
\* verify_k_invariant: rounding down and the LP fee only ever add to k.
THEOREM SwapKeepsK ==
  ASSUME NEW reserveIn \in U64, NEW reserveOut \in U64, NEW effective \in U64,
         reserveIn + effective > 0,
         NEW deposit \in Nat, deposit >= effective
  PROVE  LET out == CalculateSwapOutput(reserveIn, reserveOut, effective)
         IN  VerifyKInvariant(reserveIn, reserveOut,
                              reserveIn + deposit, reserveOut - out)
  <1> DEFINE out == CalculateSwapOutput(reserveIn, reserveOut, effective)
  <1>1. /\ reserveIn \in Nat /\ reserveOut \in Nat /\ effective \in Nat
    BY U64MaxAssumption DEF U64
  <1>2. out \in 0 .. reserveOut /\ out * (reserveIn + effective) <= reserveOut * effective
    BY SwapOutputBounded
  <1> HIDE DEF out
  <1>3. out \in Nat /\ reserveOut - out \in Nat
    BY <1>1, <1>2
  <1>4. (reserveIn + effective) * (reserveOut - out) >= reserveIn * reserveOut
    BY <1>1, <1>2, <1>3, SwapArithmetic
  <1>5. (reserveIn + deposit) * (reserveOut - out)
          >= (reserveIn + effective) * (reserveOut - out)
    <2> DEFINE left == reserveOut - out
               now  == reserveIn + deposit
               then == reserveIn + effective
    <2>1. left \in Nat /\ now \in Nat /\ then \in Nat /\ now >= then
      BY <1>1, <1>3
    <2> HIDE DEF left, now, then
    <2>2. now * left >= then * left
      BY <2>1, Z3
    <2> QED BY <2>2 DEF left, now, then
  <1>6. (reserveIn + deposit) * (reserveOut - out) >= reserveIn * reserveOut
    BY <1>1, <1>3, <1>4, <1>5, Z3
  <1> QED BY <1>6 DEF VerifyKInvariant, out

\* split_distribution hands out exactly the tax it is given: the treasury's
\* remainder is never negative, whatever the two truncations lose.
THEOREM SplitIsExact ==
  ASSUME NEW totalTax \in U64
  PROVE  LET s == SplitDistribution(totalTax)
         IN  /\ s.staking \in Nat /\ s.carnage \in Nat /\ s.treasury \in Nat
             /\ s.staking + s.carnage + s.treasury = totalTax
  <1>1. totalTax \in Nat
    BY U64MaxAssumption DEF U64
  <1>2. CASE totalTax < 4
    BY <1>1, <1>2 DEF SplitDistribution
  <1>3. CASE ~(totalTax < 4)
    <2> DEFINE a == totalTax * 7100
               b == totalTax * 2400
               staking == a \div BPS_DENOM
               carnage == b \div BPS_DENOM
    <2>1. a \in Nat /\ b \in Nat /\ a + b <= totalTax * BPS_DENOM
      BY <1>1, Z3 DEF BPS_DENOM
    <2>2. SplitDistribution(totalTax)
            = [staking |-> staking, carnage |-> carnage,
               treasury |-> totalTax - staking - carnage]
      BY <1>3 DEF SplitDistribution
    <2> HIDE DEF a, b
    <2>3. /\ staking \in Nat /\ staking * BPS_DENOM <= a
          /\ carnage \in Nat /\ carnage * BPS_DENOM <= b
      BY <2>1, DenomPositive, DivBounds
    <2> HIDE DEF staking, carnage
    <2>4. staking + carnage <= totalTax
      BY <1>1, <2>1, <2>3, Z3 DEF BPS_DENOM
    <2>5. totalTax - staking - carnage \in Nat
      BY <1>1, <2>3, <2>4
    <2> QED BY <1>1, <2>2, <2>3, <2>5
  <1> QED BY <1>2, <1>3

-----------------------------------------------------------------------------
(* Quotes and settlements of TaxedSwap *)

ReservePair == [quote : U64, faction : U64]
TaxPair     == [buy : Rate, sell : Rate]

\* A buy: the tax and the effective input are parts of the amount, the output is
\* less than the reserve and the product does not fall.
LEMMA BuySettles ==
  ASSUME NEW r \in ReservePair, r.quote > 0, r.faction > 0,
         NEW fee \in Rate, NEW t \in TaxPair, NEW amount \in U64
  PROVE  LET s == SettledSwap(r, fee, t, "buy", amount) IN
         /\ s.taxed \in 0 .. amount /\ s.eff \in 0 .. amount - s.taxed
         /\ s.paid \in 0 .. r.faction - 1
         /\ VerifyKInvariant(r.quote, r.faction,
                             r.quote + (amount - s.taxed), r.faction - s.paid)
  <1> DEFINE taxed == CalculateTax(amount, t.buy)
             eff   == CalculateEffectiveInput(amount - taxed, fee)
             paid  == CalculateSwapOutput(r.quote, r.faction, eff)
  <1>1. SettledSwap(r, fee, t, "buy", amount) = [paid |-> paid, taxed |-> taxed, eff |-> eff]
    BY DEF SettledSwap
  <1>2. amount \in Nat /\ amount <= U64Max /\ U64Max \in Nat
    BY U64MaxAssumption DEF U64
  <1>3. taxed \in 0 .. amount
    BY TaxNeverExceedsAmount DEF TaxPair
  <1>4. amount - taxed \in U64
    <2> HIDE DEF taxed
    <2> QED BY <1>2, <1>3 DEF U64
  <1>5. eff \in 0 .. amount - taxed
    <2> HIDE DEF taxed
    <2> QED BY <1>4, EffectiveNeverExceedsInput
  <1>6. r.quote \in U64 /\ r.faction \in U64 /\ r.quote \in Nat /\ r.faction \in Nat
    BY <1>2 DEF ReservePair, U64
  <1> HIDE DEF taxed, eff
  <1>7. eff \in U64 /\ amount - taxed \in Nat /\ amount - taxed >= eff /\ eff \in Nat
    BY <1>2, <1>3, <1>5 DEF U64
  <1>8. r.quote + eff > 0
    BY <1>6, <1>7
  <1>9. paid \in 0 .. r.faction /\ paid < r.faction
    BY <1>6, <1>7, <1>8, SwapOutputBounded
  <1>10. VerifyKInvariant(r.quote, r.faction, r.quote + (amount - taxed), r.faction - paid)
    BY <1>6, <1>7, <1>8, SwapKeepsK
  <1> HIDE DEF paid
  <1>11. paid \in 0 .. r.faction - 1
    BY <1>6, <1>9
  <1> QED BY <1>1, <1>3, <1>5, <1>10, <1>11

\* A sell: what the seller gets and the tax are together less than the reserve.
LEMMA SellSettles ==
  ASSUME NEW r \in ReservePair, r.quote > 0, r.faction > 0,
         NEW fee \in Rate, NEW t \in TaxPair, NEW amount \in U64
  PROVE  LET s == SettledSwap(r, fee, t, "sell", amount) IN
         /\ s.eff \in 0 .. amount
         /\ s.taxed \in Nat /\ s.paid \in Nat /\ s.paid + s.taxed < r.quote
         /\ VerifyKInvariant(r.faction, r.quote,
                             r.faction + amount, r.quote - (s.paid + s.taxed))
  <1> DEFINE eff   == CalculateEffectiveInput(amount, fee)
             gross == CalculateSwapOutput(r.faction, r.quote, eff)
             taxed == CalculateTax(gross, t.sell)
  <1>1. SettledSwap(r, fee, t, "sell", amount)
          = [paid |-> gross - taxed, taxed |-> taxed, eff |-> eff]
    BY DEF SettledSwap
  <1>2. amount \in Nat /\ amount <= U64Max /\ U64Max \in Nat
    BY U64MaxAssumption DEF U64
  <1>3. eff \in 0 .. amount
    BY EffectiveNeverExceedsInput
  <1>4. r.quote \in U64 /\ r.faction \in U64 /\ r.quote \in Nat /\ r.faction \in Nat
        /\ r.quote <= U64Max
    BY <1>2 DEF ReservePair, U64
  <1> HIDE DEF eff
  <1>5. eff \in U64 /\ eff \in Nat /\ amount >= eff
    BY <1>2, <1>3 DEF U64
  <1>6. r.faction + eff > 0
    BY <1>4, <1>5
  <1>7. gross \in 0 .. r.quote /\ gross < r.quote
    BY <1>4, <1>5, <1>6, SwapOutputBounded
  <1>8. VerifyKInvariant(r.faction, r.quote, r.faction + amount, r.quote - gross)
    BY <1>2, <1>4, <1>5, <1>6, SwapKeepsK
  <1> HIDE DEF gross
  <1>9. gross \in U64
    BY <1>2, <1>4, <1>7 DEF U64
  <1>10. taxed \in 0 .. gross
    BY <1>9, TaxNeverExceedsAmount DEF TaxPair
  <1> HIDE DEF taxed
  <1>11. /\ taxed \in Nat /\ gross - taxed \in Nat
         /\ (gross - taxed) + taxed = gross
    BY <1>4, <1>7, <1>10
  <1> QED BY <1>1, <1>3, <1>7, <1>8, <1>11

\* No output without an effective input.
LEMMA OutputNeedsInput ==
  ASSUME NEW rin \in U64, NEW rout \in U64, NEW eff \in U64, rin > 0,
         CalculateSwapOutput(rin, rout, eff) > 0
  PROVE  eff > 0
  <1> DEFINE out == CalculateSwapOutput(rin, rout, eff)
  <1>1. rin \in Nat /\ rout \in Nat /\ eff \in Nat
    BY U64MaxAssumption DEF U64
  <1>2. rin + eff > 0
    BY <1>1
  <1>3. out \in 0 .. rout /\ out * (rin + eff) <= rout * eff
    BY <1>2, SwapOutputBounded
  <1> SUFFICES ASSUME eff = 0 PROVE FALSE
    BY <1>1
  <1>4. out > 0
    OBVIOUS
  <1> HIDE DEF out
  <1>5. out \in Nat /\ out * rin <= 0
    BY <1>1, <1>3, Z3
  <1> QED BY <1>1, <1>4, <1>5, Z3

\* A buy that is quoted something, or that the programs let through, pays what
\* its quote says: a buy whose whole amount goes to tax is neither.
LEMMA BuyQuoteIsPaid ==
  ASSUME NEW r \in ReservePair, r.quote > 0, r.faction > 0,
         NEW fee \in Rate, NEW t \in TaxPair, NEW amount \in U64,
         NEW q, q = QuoteBuy(r.quote, r.faction, fee, t.buy, amount), q.ok,
         NEW s, s = SettledSwap(r, fee, t, "buy", amount), q.out > 0 \/ s.eff > 0
  PROVE  q.out = s.paid /\ s.eff > 0
  <1> DEFINE taxed == CalculateTax(amount, t.buy)
             eff   == CalculateEffectiveInput(amount - taxed, fee)
             out   == CalculateSwapOutput(r.quote, r.faction, eff)
  <1>1. s = [paid |-> out, taxed |-> taxed, eff |-> eff]
    BY DEF SettledSwap
  <1>2. s.taxed \in 0 .. amount /\ s.eff \in 0 .. amount - s.taxed /\ amount \in Nat
        /\ amount <= U64Max /\ U64Max \in Nat
    BY BuySettles, U64MaxAssumption DEF U64
  <1>3. r.quote \in U64 /\ r.faction \in U64
    BY DEF ReservePair
  <1>4. taxed = s.taxed /\ eff = s.eff /\ out = s.paid
    BY <1>1
  <1>5. amount - taxed # 0 =>
          q \in {Err, QuoteOk(out, BuyFee(taxed, amount - taxed, eff), fee + t.buy)}
    BY DEF QuoteBuy
  <1> HIDE DEF taxed, eff, out
  <1>6. amount - taxed # 0
    <2>1. CASE s.eff > 0
      BY <1>2, <1>4, <2>1
    <2>2. ASSUME q.out > 0, amount - taxed = 0 PROVE FALSE
      <3>1. q \in {Err, QuoteOk(0, taxed, fee + t.buy)}
        BY <2>2 DEF QuoteBuy, taxed
      <3> QED BY <2>2, <3>1 DEF Err, QuoteOk
    <2> QED BY <2>1, <2>2
  <1>7. q.out = out
    BY <1>5, <1>6 DEF Err, QuoteOk
  <1>8. s.eff > 0
    <2>1. s.eff \in U64
      BY <1>2 DEF U64
    <2>2. CASE q.out > 0
      BY <1>3, <1>4, <1>7, <2>1, <2>2, OutputNeedsInput DEF out
    <2> QED BY <2>2
  <1> QED BY <1>4, <1>7, <1>8

\* The same for a sell.
LEMMA SellQuoteIsPaid ==
  ASSUME NEW r \in ReservePair, r.quote > 0, r.faction > 0,
         NEW fee \in Rate, NEW t \in TaxPair, NEW amount \in U64,
         NEW q, q = QuoteSell(r.quote, r.faction, fee, t.sell, amount), q.ok,
         NEW s, s = SettledSwap(r, fee, t, "sell", amount), q.out > 0 \/ s.eff > 0
  PROVE  q.out = s.paid /\ s.eff > 0
  <1> DEFINE eff   == CalculateEffectiveInput(amount, fee)
             gross == CalculateSwapOutput(r.faction, r.quote, eff)
             taxed == CalculateTax(gross, t.sell)
  <1>1. s = [paid |-> gross - taxed, taxed |-> taxed, eff |-> eff]
    BY DEF SettledSwap
  <1>2. q \in {Err, QuoteOk(gross - taxed, taxed, fee + t.sell)}
    BY DEF QuoteSell
  <1>3. q.out = s.paid
    BY <1>1, <1>2 DEF Err, QuoteOk
  <1>4. s.eff > 0
    <2>1. CASE q.out > 0
      <3>1. r.quote \in U64 /\ r.faction \in U64 /\ s.eff \in 0 .. amount
            /\ s.taxed \in Nat /\ s.paid \in Nat /\ amount \in Nat
            /\ amount <= U64Max /\ U64Max \in Nat
        BY SellSettles, U64MaxAssumption DEF ReservePair, U64
      <3>2. eff \in U64 /\ eff = s.eff /\ gross - taxed = s.paid /\ taxed = s.taxed
        BY <1>1, <3>1 DEF U64
      <3>3. gross \in Int
        <4> HIDE DEF eff
        <4>1. r.faction + eff > 0 /\ r.quote \in Nat
          BY <3>1, <3>2 DEF U64
        <4>2. gross \in 0 .. r.quote
          BY <3>1, <3>2, <4>1, SwapOutputBounded
        <4> QED BY <4>1, <4>2
      <3> HIDE DEF eff, gross, taxed
      <3>4. gross > 0
        BY <1>3, <2>1, <3>1, <3>2, <3>3
      <3> QED BY <3>1, <3>2, <3>4, OutputNeedsInput DEF gross
    <2> QED BY <2>1
  <1> QED BY <1>3, <1>4
=============================================================================
