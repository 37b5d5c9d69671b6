------------------------- MODULE SwapExecutionProofs -------------------------
(***************************************************************************)
(* Proofs about SwapExecution, for any reserves, wallets, fees, taxes and  *)
(* amounts and any number of swaps.  What every step keeps is IInv: the    *)
(* types, the conservation of both tokens over pool, wallets and collected *)
(* tax, reserves above zero, and a product of the reserves that has never  *)
(* been below the opening one.  Conservation is what bounds the balances,  *)
(* and with the product it is what rules out a profit.                     *)
(***************************************************************************)
EXTENDS SwapExecution, AmmMathProofs

Opening == [quote   |-> InitReserves.quote + InitWallet.quote,
            faction |-> InitReserves.faction + InitWallet.faction]

Conserved ==
  /\ reserves.quote + wallet.quote + collected = Opening.quote
  /\ reserves.faction + wallet.faction = Opening.faction

NeverDrained == reserves.quote > 0 /\ reserves.faction > 0

KAboveOpening ==
  reserves.quote * reserves.faction >= InitReserves.quote * InitReserves.faction

\* An order is what its basis quotes.
OrderIsQuoted ==
  order # NoOrder =>
    LET q == Quote(order.basis, order.side, order.amount) IN
    /\ order.side \in Sides /\ order.amount \in Amounts
    /\ q.ok /\ order.quoted = q.out

IInv == TypeOK /\ Conserved /\ NeverDrained /\ KAboveOpening /\ OrderIsQuoted

\* The parameters, as the arithmetic lemmas want them.
LEMMA ParametersTyped ==
  /\ LpFeeBps \in Rate /\ Taxes \subseteq TaxPair /\ Amounts \subseteq U64
  BY SwapAssumption DEF Rate, TaxPair, BPS_DENOM

(* One swap *)

\* k at least as large, on natural numbers
LEMMA KOrder ==
  ASSUME NEW a \in Nat, NEW b \in Nat, NEW c \in Nat, NEW d \in Nat,
         VerifyKInvariant(a, b, c, d)
  PROVE  /\ c * d >= a * b
         /\ VerifyKInvariant(b, a, d, c)
  <1>1. c * d >= a * b
    BY DEF VerifyKInvariant
  <1>2. d * c = c * d /\ b * a = a * b
    BY Z3
  <1> QED BY <1>1, <1>2 DEF VerifyKInvariant

\* The balances as naturals, and the taxes as rates.
LEMMA BalancesTyped ==
  ASSUME IInv
  PROVE  /\ reserves.quote \in Nat /\ reserves.faction \in Nat
         /\ wallet.quote \in Nat /\ wallet.faction \in Nat /\ collected \in Nat
         /\ reserves = [quote |-> reserves.quote, faction |-> reserves.faction]
         /\ wallet = [quote |-> wallet.quote, faction |-> wallet.faction]
         /\ reserves \in ReservePair /\ tax \in TaxPair
         /\ InitReserves.quote \in Nat /\ InitReserves.faction \in Nat
         /\ InitReserves.quote > 0 /\ InitReserves.faction > 0
         /\ InitWallet.quote \in Nat /\ InitWallet.faction \in Nat
         /\ Opening.quote = InitReserves.quote + InitWallet.quote
         /\ Opening.faction = InitReserves.faction + InitWallet.faction
         /\ Opening.quote <= U64Max /\ Opening.faction <= U64Max /\ U64Max \in Nat
  BY ParametersTyped, SwapAssumption, U64MaxAssumption
  DEF IInv, TypeOK, Pair, ReservePair, U64, Opening

\* Balances below what there is of a token are u64.
LEMMA PairFits ==
  ASSUME NEW q \in Nat, NEW f \in Nat, q <= U64Max, f <= U64Max
  PROVE  [quote |-> q, faction |-> f] \in Pair
  BY U64MaxAssumption DEF Pair, U64

\* What a swap keeps of IInv, and that it does not lower k.
SwapKeeps ==
  /\ reserves' \in Pair /\ wallet' \in Pair /\ collected' \in U64
  /\ swaps' \in 0 .. MaxSwaps
  /\ Conserved' /\ NeverDrained' /\ KAboveOpening'
  /\ VerifyKInvariant(reserves.quote, reserves.faction, reserves'.quote, reserves'.faction)

\* The part of that which does not depend on the side of the swap.
LEMMA SwapStepKeeps ==
  ASSUME IInv, swaps < MaxSwaps, swaps' = swaps + 1,
         reserves' = [quote |-> reserves'.quote, faction |-> reserves'.faction],
         wallet' = [quote |-> wallet'.quote, faction |-> wallet'.faction],
         wallet'.quote \in Nat, wallet'.faction \in Nat,
         reserves'.quote \in Nat, reserves'.faction \in Nat, collected' \in Nat,
         reserves'.quote > 0, reserves'.faction > 0,
         reserves'.quote + wallet'.quote + collected' = Opening.quote,
         reserves'.faction + wallet'.faction = Opening.faction,
         VerifyKInvariant(reserves.quote, reserves.faction, reserves'.quote, reserves'.faction)
  PROVE  SwapKeeps
  <1>1. reserves' \in Pair /\ wallet' \in Pair
    <2>1. /\ reserves'.quote <= U64Max /\ reserves'.faction <= U64Max
          /\ wallet'.quote <= U64Max /\ wallet'.faction <= U64Max
      BY BalancesTyped
    <2> QED BY <2>1, PairFits
  <1>2. collected' \in U64
    BY BalancesTyped DEF U64
  <1>3. swaps' \in 0 .. MaxSwaps
    BY SwapAssumption DEF IInv, TypeOK
  <1>4. Conserved' /\ NeverDrained'
    BY DEF Conserved, NeverDrained, Opening
  <1>5. KAboveOpening'
    <2> DEFINE k  == reserves.quote * reserves.faction
               kk == reserves'.quote * reserves'.faction
               k0 == InitReserves.quote * InitReserves.faction
    <2>1. k >= k0
      BY DEF IInv, KAboveOpening
    <2>2. kk >= k
      BY BalancesTyped, KOrder
    <2>3. k \in Int /\ kk \in Int /\ k0 \in Int
      BY BalancesTyped, Z3
    <2> HIDE DEF k, kk, k0
    <2>4. kk >= k0
      BY <2>1, <2>2, <2>3
    <2> QED BY <2>4 DEF kk, k0, KAboveOpening
  <1> QED BY <1>1, <1>2, <1>3, <1>4, <1>5 DEF SwapKeeps

LEMMA BuyStep ==
  ASSUME IInv, NEW amount \in Amounts, NEW minimum, Swap("buy", amount, minimum)
  PROVE  SwapKeeps
  <1> DEFINE s == SettledSwap(reserves, LpFeeBps, tax, "buy", amount)
  <1>1. /\ s.taxed \in 0 .. amount /\ s.eff \in 0 .. amount - s.taxed
        /\ s.paid \in 0 .. reserves.faction - 1
        /\ VerifyKInvariant(reserves.quote, reserves.faction,
                            reserves.quote + (amount - s.taxed), reserves.faction - s.paid)
    BY BalancesTyped, BuySettles, ParametersTyped DEF IInv, NeverDrained
  <1>2. /\ amount <= wallet.quote /\ swaps < MaxSwaps
        /\ wallet' = [quote |-> wallet.quote - amount, faction |-> wallet.faction + s.paid]
        /\ reserves' = [quote   |-> reserves.quote + amount - s.taxed,
                        faction |-> reserves.faction - s.paid]
        /\ collected' = collected + s.taxed
        /\ swaps' = swaps + 1
    BY DEF Swap, Held, Settlement, ReservesAfter
  <1> HIDE DEF s
  <1> DEFINE taxed == s.taxed
             paid  == s.paid
  <1>3. /\ amount \in Nat /\ taxed \in Nat /\ taxed <= amount
        /\ paid \in Nat /\ paid < reserves.faction
    BY <1>1, BalancesTyped, ParametersTyped, U64MaxAssumption DEF U64
  <1>4. /\ reserves.quote + wallet.quote + collected = Opening.quote
        /\ reserves.faction + wallet.faction = Opening.faction
        /\ reserves.quote > 0 /\ reserves.faction > 0
        /\ reserves.quote * reserves.faction >= InitReserves.quote * InitReserves.faction
    BY DEF IInv, Conserved, NeverDrained, KAboveOpening
  <1> HIDE DEF taxed, paid
  <1>5. /\ wallet'.quote = wallet.quote - amount
        /\ wallet'.faction = wallet.faction + paid
        /\ reserves'.quote = reserves.quote + (amount - taxed)
        /\ reserves'.faction = reserves.faction - paid
        /\ collected' = collected + taxed
    BY <1>2, <1>3, BalancesTyped DEF taxed, paid
  <1>6. /\ wallet'.quote \in Nat /\ wallet'.faction \in Nat
        /\ reserves'.quote \in Nat /\ reserves'.faction \in Nat /\ collected' \in Nat
        /\ reserves'.quote > 0 /\ reserves'.faction > 0
        /\ reserves'.quote + wallet'.quote + collected' = Opening.quote
        /\ reserves'.faction + wallet'.faction = Opening.faction
    BY <1>2, <1>3, <1>4, <1>5, BalancesTyped
  <1>7. VerifyKInvariant(reserves.quote, reserves.faction, reserves'.quote, reserves'.faction)
    BY <1>1, <1>5 DEF taxed, paid
  <1> QED BY <1>2, <1>4, <1>6, <1>7, SwapStepKeeps

LEMMA SellStep ==
  ASSUME IInv, NEW amount \in Amounts, NEW minimum, Swap("sell", amount, minimum)
  PROVE  SwapKeeps
  <1> DEFINE s == SettledSwap(reserves, LpFeeBps, tax, "sell", amount)
  <1>1. /\ s.taxed \in Nat /\ s.paid \in Nat /\ s.paid + s.taxed < reserves.quote
        /\ VerifyKInvariant(reserves.faction, reserves.quote,
                            reserves.faction + amount, reserves.quote - (s.paid + s.taxed))
    BY BalancesTyped, SellSettles, ParametersTyped DEF IInv, NeverDrained
  <1>2. /\ amount <= wallet.faction /\ swaps < MaxSwaps
        /\ wallet' = [quote |-> wallet.quote + s.paid, faction |-> wallet.faction - amount]
        /\ reserves' = [quote   |-> reserves.quote - s.paid - s.taxed,
                        faction |-> reserves.faction + amount]
        /\ collected' = collected + s.taxed
        /\ swaps' = swaps + 1
    BY DEF Swap, Held, Settlement, ReservesAfter
  <1> HIDE DEF s
  <1> DEFINE taxed == s.taxed
             paid  == s.paid
  <1>3. amount \in Nat /\ taxed \in Nat /\ paid \in Nat /\ paid + taxed < reserves.quote
    BY <1>1, ParametersTyped, U64MaxAssumption DEF U64
  <1>4. /\ reserves.quote + wallet.quote + collected = Opening.quote
        /\ reserves.faction + wallet.faction = Opening.faction
        /\ reserves.quote > 0 /\ reserves.faction > 0
    BY DEF IInv, Conserved, NeverDrained
  <1> HIDE DEF taxed, paid
  <1>5. /\ wallet'.quote = wallet.quote + paid
        /\ wallet'.faction = wallet.faction - amount
        /\ reserves'.quote = reserves.quote - (paid + taxed)
        /\ reserves'.faction = reserves.faction + amount
        /\ collected' = collected + taxed
    BY <1>2, <1>3, BalancesTyped DEF taxed, paid
  <1>6. /\ wallet'.quote \in Nat /\ wallet'.faction \in Nat
        /\ reserves'.quote \in Nat /\ reserves'.faction \in Nat /\ collected' \in Nat
        /\ reserves'.quote > 0 /\ reserves'.faction > 0
        /\ reserves'.quote + wallet'.quote + collected' = Opening.quote
        /\ reserves'.faction + wallet'.faction = Opening.faction
    BY <1>2, <1>3, <1>4, <1>5, BalancesTyped
  <1>7. VerifyKInvariant(reserves.quote, reserves.faction, reserves'.quote, reserves'.faction)
    <2>1. VerifyKInvariant(reserves.faction, reserves.quote, reserves'.faction, reserves'.quote)
      BY <1>1, <1>5 DEF taxed, paid
    <2> QED BY <2>1, <1>6, BalancesTyped, KOrder
  <1> QED BY <1>2, <1>6, <1>7, SwapStepKeeps

\* A swap of either side.
LEMMA SwapStep ==
  ASSUME IInv, NEW side \in Sides, NEW amount \in Amounts, NEW minimum,
         Swap(side, amount, minimum)
  PROVE  SwapKeeps
  BY BuyStep, SellStep DEF Sides

(* What an order is quoted, it is paid *)

\* A quote that succeeds on the chain as it is, for a swap the chain accepts, is
\* what that swap pays: the same operators on the same state, and a buy whose
\* whole amount goes to tax is accepted by none.
LEMMA QuoteIsPaid ==
  ASSUME IInv, NEW side \in Sides, NEW amount \in Amounts,
         Quote(Chain, side, amount).ok, Settlement(side, amount).eff > 0
  PROVE  Quote(Chain, side, amount).out = Settlement(side, amount).paid
  <1>1. /\ reserves \in ReservePair /\ reserves.quote > 0 /\ reserves.faction > 0
        /\ tax \in TaxPair /\ LpFeeBps \in Rate /\ amount \in U64
    BY ParametersTyped, BalancesTyped DEF IInv, NeverDrained
  <1>2. CASE side = "buy"
    BY <1>1, <1>2, BuyQuoteIsPaid DEF Quote, Chain, Settlement
  <1>3. CASE side = "sell"
    BY <1>1, <1>3, SellQuoteIsPaid DEF Quote, Chain, Settlement
  <1> QED BY <1>2, <1>3 DEF Sides

(* The inductive invariant *)

LEMMA InitIInv == Init => IInv
  <1> SUFFICES ASSUME Init PROVE IInv
    OBVIOUS
  <1>1. TypeOK
    BY SwapAssumption, U64MaxAssumption DEF Init, TypeOK, Snapshots, Pair, U64
  <1>2. Conserved /\ NeverDrained /\ KAboveOpening
    BY SwapAssumption, U64MaxAssumption
    DEF Init, Conserved, NeverDrained, KAboveOpening, Opening, Pair, U64
  <1>3. OrderIsQuoted
    BY DEF Init, OrderIsQuoted
  <1> QED BY <1>1, <1>2, <1>3 DEF IInv

LEMMA NextIInv ==
  ASSUME IInv, [Next]_vars
  PROVE  IInv'
  <1>1. CASE Refresh
    <2>1. Chain \in Snapshots
      BY DEF IInv, TypeOK, Chain, Snapshots
    <2> QED BY <1>1, <2>1 DEF Refresh, IInv, TypeOK, Conserved, NeverDrained, KAboveOpening,
                             OrderIsQuoted
  <1>2. CASE EpochRolls
    BY <1>2 DEF EpochRolls, IInv, TypeOK, Conserved, NeverDrained, KAboveOpening, OrderIsQuoted
  <1>3. ASSUME NEW side \in Sides, NEW amount \in Amounts, NEW slippage \in Slippages,
               PlaceOrder(side, amount, slippage)
        PROVE  IInv'
    <2>1. /\ order' = [side |-> side, amount |-> amount,
                       quoted |-> Quote(snapshot, side, amount).out,
                       minimumOutput |-> SaturatingSub(Quote(snapshot, side, amount).out, slippage),
                       basis |-> snapshot]
          /\ Quote(snapshot, side, amount).ok
          /\ UNCHANGED <<reserves, tax, wallet, collected, snapshot, swaps>>
      BY <1>3 DEF PlaceOrder
    <2>2. OrderIsQuoted'
      BY <2>1 DEF OrderIsQuoted, Quote
    <2>3. TypeOK'
      BY <2>1 DEF IInv, TypeOK
    <2> QED BY <2>1, <2>2, <2>3 DEF IInv, Conserved, NeverDrained, KAboveOpening
  <1>4. CASE ExecuteOrder
    <2>1. order # NoOrder /\ order.side \in Sides /\ order.amount \in Amounts
      BY <1>4 DEF ExecuteOrder, IInv, OrderIsQuoted
    <2>2. SwapKeeps
      BY <1>4, <2>1, SwapStep DEF ExecuteOrder
    <2>3. order' = NoOrder /\ UNCHANGED <<tax, snapshot>>
      BY <1>4 DEF ExecuteOrder
    <2> QED BY <2>2, <2>3 DEF SwapKeeps, IInv, TypeOK, OrderIsQuoted
  <1>5. CASE DropOrder
    BY <1>5 DEF DropOrder, IInv, TypeOK, Conserved, NeverDrained, KAboveOpening, OrderIsQuoted
  <1>6. ASSUME NEW side \in Sides, NEW amount \in Amounts, OtherSwap(side, amount)
        PROVE  IInv'
    <2>1. SwapKeeps
      BY <1>6, SwapStep DEF OtherSwap
    <2>2. UNCHANGED <<tax, snapshot, order>>
      BY <1>6 DEF OtherSwap
    <2> QED BY <2>1, <2>2 DEF SwapKeeps, IInv, TypeOK, OrderIsQuoted, Quote
  <1>7. CASE UNCHANGED vars
    BY <1>7 DEF vars, IInv, TypeOK, Conserved, NeverDrained, KAboveOpening, OrderIsQuoted
  <1> QED BY <1>1, <1>2, <1>3, <1>4, <1>5, <1>6, <1>7 DEF Next

\* Every reachable state satisfies the invariant the results below rest on.
THEOREM SwapInvariant == Spec => []IInv
  <1>1. Init => IInv
    BY InitIInv
  <1>2. IInv /\ [Next]_vars => IInv'
    BY NextIInv
  <1> QED BY <1>1, <1>2, PTL DEF Spec

\* Balances stay u64 whatever is swapped.
THEOREM BalancesStayU64 == Spec => []TypeOK
  <1>1. IInv => TypeOK
    BY DEF IInv
  <1> QED BY <1>1, SwapInvariant, PTL

-----------------------------------------------------------------------------
(* The market's side: k and profit *)

\* What a swap does not touch it does not lower.
LEMMA KeepsK ==
  ASSUME IInv, [Next]_vars
  PROVE  VerifyKInvariant(reserves.quote, reserves.faction,
                          reserves'.quote, reserves'.faction)
  <1>1. CASE UNCHANGED reserves
    <2> DEFINE k == reserves.quote * reserves.faction
    <2>1. k \in Int
      BY BalancesTyped, Z3
    <2> HIDE DEF k
    <2>2. k >= k
      BY <2>1
    <2> QED BY <1>1, <2>2 DEF k, VerifyKInvariant
  <1>2. CASE ExecuteOrder
    <2>1. order.side \in Sides /\ order.amount \in Amounts
      BY <1>2 DEF ExecuteOrder, IInv, OrderIsQuoted
    <2> QED BY <1>2, <2>1, SwapStep DEF ExecuteOrder, SwapKeeps
  <1>3. ASSUME NEW side \in Sides, NEW amount \in Amounts, OtherSwap(side, amount)
        PROVE  SwapKeeps
    BY <1>3, SwapStep DEF OtherSwap
  <1>4. UNCHANGED reserves \/ ExecuteOrder
          \/ \E side \in Sides, amount \in Amounts : OtherSwap(side, amount)
    BY DEF Next, vars, Refresh, EpochRolls, PlaceOrder, DropOrder
  <1> QED BY <1>1, <1>2, <1>3, <1>4 DEF SwapKeeps

\* No step of any swap, tax or order lowers the product of the reserves: the
\* check the programs make after every swap never fails.
THEOREM KIsKept == Spec => KNeverDecreases
  <1>1. IInv /\ [Next]_vars =>
          [VerifyKInvariant(reserves.quote, reserves.faction,
                            reserves'.quote, reserves'.faction)]_vars
    BY KeepsK
  <1> QED BY <1>1, SwapInvariant, PTL DEF Spec, KNeverDecreases

\* A pool that holds no more of one token than at the start, and a product no
\* smaller, holds no less of the other.
LEMMA ProductForcesOther ==
  ASSUME NEW x \in Nat, NEW y \in Nat, NEW x0 \in Nat, NEW y0 \in Nat,
         x0 > 0, x <= x0, x * y >= x0 * y0
  PROVE  y >= y0
  <1> SUFFICES ASSUME y < y0 PROVE FALSE
    OBVIOUS
  <1>1. x * y <= x0 * y
    BY Z3
  <1>2. x0 * y < x0 * y0
    BY Z3
  <1>3. x * y \in Int /\ x0 * y \in Int /\ x0 * y0 \in Int
    BY Z3
  <1> QED BY <1>1, <1>2, <1>3, Z3

\* Whatever traders gain of one token they have paid for in the other.
THEOREM NobodyProfits == Spec => []NoProfitFromThePool
  <1>1. ASSUME IInv PROVE NoProfitFromThePool
    <2> DEFINE q == reserves.quote      f == reserves.faction
               q0 == InitReserves.quote f0 == InitReserves.faction
    <2>1. /\ q + wallet.quote + collected = q0 + InitWallet.quote
          /\ f + wallet.faction = f0 + InitWallet.faction
      BY <1>1, BalancesTyped DEF IInv, Conserved
    <2>2. q * f >= q0 * f0
      BY <1>1 DEF IInv, KAboveOpening
    <2>3. /\ q \in Nat /\ f \in Nat /\ q0 \in Nat /\ f0 \in Nat /\ q0 > 0 /\ f0 > 0
          /\ wallet.quote \in Nat /\ wallet.faction \in Nat /\ collected \in Nat
          /\ InitWallet.quote \in Nat /\ InitWallet.faction \in Nat
      BY <1>1, BalancesTyped
    <2> HIDE DEF q, f, q0, f0
    <2>4. f * q >= f0 * q0
      <3>1. f * q = q * f /\ f0 * q0 = q0 * f0
        BY <2>3, Z3
      <3> QED BY <2>2, <3>1
    <2>5. ASSUME wallet.faction >= InitWallet.faction
          PROVE  wallet.quote <= InitWallet.quote
      <3>1. f <= f0
        BY <2>1, <2>3, <2>5
      <3>2. q >= q0
        BY <2>3, <2>4, <3>1, ProductForcesOther
      <3> QED BY <2>1, <2>3, <3>2
    <2>6. ASSUME wallet.quote >= InitWallet.quote
          PROVE  wallet.faction <= InitWallet.faction
      <3>1. q <= q0
        BY <2>1, <2>3, <2>6
      <3>2. f >= f0
        BY <2>2, <2>3, <3>1, ProductForcesOther
      <3> QED BY <2>1, <2>3, <3>2
    <2> QED BY <2>5, <2>6 DEF NoProfitFromThePool
  <1> QED BY <1>1, SwapInvariant, PTL

-----------------------------------------------------------------------------
(* The quote's side: amounts and fees *)

\* An order executed on the market it was quoted on pays the quote, at every
\* reserve, tax, fee and amount.
THEOREM UnmovedQuotesArePaid == Spec => UnmovedMarketPaysQuote
  <1> DEFINE Got == IF order.side = "buy" THEN wallet'.faction - wallet.faction
                                          ELSE wallet'.quote - wallet.quote
             Paid == order # NoOrder /\ order.basis = Chain /\ reserves' # reserves
                       /\ order' = NoOrder => Got = order.quoted
  <1>1. ASSUME IInv, [Next]_vars, order # NoOrder, order.basis = Chain,
               reserves' # reserves, order' = NoOrder
        PROVE  Got = order.quoted
    <2>1. ExecuteOrder
      BY <1>1 DEF Next, vars, Refresh, EpochRolls, PlaceOrder, DropOrder, OtherSwap
    <2>2. /\ order.side \in Sides /\ order.amount \in Amounts
          /\ Quote(Chain, order.side, order.amount).ok
          /\ order.quoted = Quote(Chain, order.side, order.amount).out
      BY <1>1 DEF IInv, OrderIsQuoted
    <2> DEFINE s == Settlement(order.side, order.amount)
    <2>3. /\ s.eff > 0
          /\ wallet' = IF order.side = "buy"
                       THEN [quote |-> wallet.quote - order.amount,
                             faction |-> wallet.faction + s.paid]
                       ELSE [quote |-> wallet.quote + s.paid,
                             faction |-> wallet.faction - order.amount]
      BY <2>1 DEF ExecuteOrder, Swap
    <2>4. order.quoted = s.paid
      BY <1>1, <2>2, <2>3, QuoteIsPaid
    <2>5. s.paid \in Int
      BY <1>1, <2>2, BuySettles, SellSettles, BalancesTyped, ParametersTyped
      DEF Settlement, IInv, NeverDrained, Sides
    <2> HIDE DEF s
    <2>6. wallet.quote \in Nat /\ wallet.faction \in Nat
      BY <1>1, BalancesTyped
    <2>7. CASE order.side = "buy"
      <3>1. wallet'.faction = wallet.faction + s.paid
        BY <2>3, <2>7
      <3> QED BY <2>4, <2>5, <2>6, <2>7, <3>1
    <2>8. CASE order.side # "buy"
      <3>1. wallet'.quote = wallet.quote + s.paid
        BY <2>3, <2>8
      <3> QED BY <2>4, <2>5, <2>6, <2>8, <3>1
    <2> QED BY <2>7, <2>8
  <1>2. IInv /\ [Next]_vars => [Paid]_vars
    BY <1>1
  <1> QED BY <1>2, SwapInvariant, PTL DEF Spec, UnmovedMarketPaysQuote

\* The u64 cast and the overflow fallback of the buy's reported fee are never
\* taken: the fee is the part of the input that does not reach the curve.
LEMMA BuyFeeIsExact ==
  ASSUME NEW amount \in U64, NEW taxed \in 0 .. amount, NEW eff \in 0 .. amount - taxed
  PROVE  BuyFee(taxed, amount - taxed, eff) = amount - eff
  <1>1. /\ amount \in Nat /\ amount <= U64Max /\ U64Max \in Nat
        /\ taxed \in Nat /\ eff \in Nat /\ eff <= amount - taxed /\ taxed <= amount
    BY U64MaxAssumption DEF U64
  <1>2. eff % (U64Max + 1) = eff
    BY <1>1, Z3
  <1>3. SaturatingSub(amount - taxed, eff) = amount - taxed - eff
    BY <1>1 DEF SaturatingSub
  <1>4. /\ taxed + (amount - taxed - eff) = amount - eff
        /\ ~(taxed + (amount - taxed - eff) > U64Max)
    BY <1>1
  <1> QED BY <1>2, <1>3, <1>4 DEF BuyFee

\* What a quote reports as its fee is what the trade withholds.
THEOREM FeesAreReported == Spec => []ReportedFeeIsWithheld
  <1>1. ASSUME IInv, NEW amount \in Amounts, Quote(Chain, "buy", amount).ok
        PROVE  Quote(Chain, "buy", amount).fee = amount - Settlement("buy", amount).eff
    <2> DEFINE taxed == CalculateTax(amount, tax.buy)
               eff   == CalculateEffectiveInput(amount - taxed, LpFeeBps)
               out   == CalculateSwapOutput(reserves.quote, reserves.faction, eff)
    <2>1. /\ taxed \in 0 .. amount /\ eff \in 0 .. amount - taxed
          /\ Settlement("buy", amount).eff = eff
      BY <1>1, BalancesTyped, BuySettles, ParametersTyped
      DEF Settlement, SettledSwap, IInv, NeverDrained
    <2>2. Quote(Chain, "buy", amount)
            = QuoteBuy(reserves.quote, reserves.faction, LpFeeBps, tax.buy, amount)
      BY DEF Quote, Chain
    <2>3. amount \in U64 /\ amount \in Nat
      BY ParametersTyped, U64MaxAssumption DEF U64
    <2> HIDE DEF eff
    <2>4. QuoteBuy(reserves.quote, reserves.faction, LpFeeBps, tax.buy, amount)
            \in {Err, IF amount - taxed = 0
                      THEN QuoteOk(0, taxed, LpFeeBps + tax.buy)
                      ELSE QuoteOk(out, BuyFee(taxed, amount - taxed, eff), LpFeeBps + tax.buy)}
      BY DEF QuoteBuy, eff
    <2> HIDE DEF taxed, out
    <2>5. CASE amount - taxed = 0
      <3>1. Quote(Chain, "buy", amount).fee = taxed
        BY <1>1, <2>2, <2>4, <2>5 DEF Err, QuoteOk
      <3>2. eff = 0 /\ taxed = amount
        BY <2>1, <2>3, <2>5
      <3> QED BY <2>1, <2>3, <3>1, <3>2
    <2>6. CASE amount - taxed # 0
      <3>1. Quote(Chain, "buy", amount).fee = BuyFee(taxed, amount - taxed, eff)
        BY <1>1, <2>2, <2>4, <2>6 DEF Err, QuoteOk
      <3> QED BY <2>1, <2>3, <3>1, BuyFeeIsExact
    <2> QED BY <2>5, <2>6
  <1>2. ASSUME NEW amount \in Amounts, Quote(Chain, "sell", amount).ok
        PROVE  Quote(Chain, "sell", amount).fee = Settlement("sell", amount).taxed
    BY <1>2 DEF Quote, Chain, QuoteSell, Settlement, SettledSwap, Err, QuoteOk
  <1>3. IInv => ReportedFeeIsWithheld
    BY <1>1, <1>2 DEF ReportedFeeIsWithheld, Sides
  <1> QED BY <1>3, SwapInvariant, PTL
=============================================================================
