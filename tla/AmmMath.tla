------------------------------- MODULE AmmMath -------------------------------
(***************************************************************************)
(* The pure integer arithmetic of the adapter (src/src/math/): swap, tax   *)
(* and conversion formulas over u64 inputs with u128 intermediates.  A     *)
(* Rust Option is an integer or None; a checked operation whose result     *)
(* does not fit its width gives None.  U64Max is the largest u64: 2^64 - 1 *)
(* in the program, smaller in a TLC instance, and every definition below   *)
(* takes its overflow boundary from it.                                    *)
(***************************************************************************)
EXTENDS Integers, Addresses

CONSTANT U64Max

\* Basis points in the whole.
BPS_DENOM == 10000

\* All the arithmetic asks of the width: a rate in basis points and a
\* conversion factor fit in it.
ASSUME U64MaxAssumption == U64Max \in Nat /\ U64Max >= BPS_DENOM

None == -1

U64     == 0 .. U64Max
U128Max == (U64Max + 1) * (U64Max + 1) - 1

\* u64::try_from(x).ok() and the checked u64 operations
CheckedU64(x)  == IF x \in 0 .. U64Max THEN x ELSE None
CheckedU128(x) == IF x \in 0 .. U128Max THEN x ELSE None

\* u64::saturating_sub
SaturatingSub(x, y) == IF x >= y THEN x - y ELSE 0

-----------------------------------------------------------------------------
(* amm_math.rs *)

CalculateEffectiveInput(amountIn, feeBps) ==
  LET product == CheckedU128(amountIn * (BPS_DENOM - feeBps))
  IN  IF feeBps > BPS_DENOM \/ product = None THEN None ELSE product \div BPS_DENOM

\* A plausible bug: the output at the spot price, without the price impact.
SpotOutput(reserveIn, reserveOut, effectiveInput) ==
  IF reserveIn = 0 THEN None
  ELSE CheckedU64((reserveOut * effectiveInput) \div reserveIn)

\* effectiveInput is a u128
CalculateSwapOutput(reserveIn, reserveOut, effectiveInput) ==
  LET numerator   == CheckedU128(reserveOut * effectiveInput)
      denominator == CheckedU128(reserveIn + effectiveInput)
  IN  IF numerator = None \/ denominator \in {None, 0}
      THEN None
      ELSE CheckedU64(numerator \div denominator)

\* The on-chain post-swap check: k = reserveIn * reserveOut never decreases.
VerifyKInvariant(inBefore, outBefore, inAfter, outAfter) ==
  inAfter * outAfter >= inBefore * outBefore

-----------------------------------------------------------------------------
(* tax_math.rs *)

CalculateTax(amount, taxBps) ==
  LET product == CheckedU128(amount * taxBps)
  IN  IF taxBps > BPS_DENOM \/ product = None
      THEN None
      ELSE CheckedU64(product \div BPS_DENOM)

\* The on-chain destination split of a collected tax.
SplitDistribution(totalTax) ==
  IF totalTax < 4
  THEN [staking |-> totalTax, carnage |-> 0, treasury |-> 0]
  ELSE LET staking == (totalTax * 7100) \div BPS_DENOM
           carnage == (totalTax * 2400) \div BPS_DENOM
       IN  [staking |-> staking, carnage |-> carnage,
            treasury |-> totalTax - staking - carnage]

-----------------------------------------------------------------------------
(* vault_math.rs *)

CONVERSION_RATE == 100

\* A plausible bug: neither zero input nor zero output is refused.
VaultOutputOfZero(inputMint, outputMint, amountIn) ==
  IF inputMint \in FactionMints /\ outputMint = PROFIT_MINT
  THEN amountIn \div CONVERSION_RATE
  ELSE IF inputMint = PROFIT_MINT /\ outputMint \in FactionMints
  THEN CheckedU64(amountIn * CONVERSION_RATE)
  ELSE None

ComputeVaultOutput(inputMint, outputMint, amountIn) ==
  IF amountIn = 0 \/ inputMint = outputMint THEN None
  ELSE IF inputMint \in FactionMints /\ outputMint = PROFIT_MINT
       THEN LET out == amountIn \div CONVERSION_RATE
            IN  IF out = 0 THEN None ELSE out
  ELSE IF inputMint = PROFIT_MINT /\ outputMint \in FactionMints
       THEN CheckedU64(amountIn * CONVERSION_RATE)
  ELSE None
=============================================================================
