---------------------------- MODULE VaultConvert -----------------------------
(***************************************************************************)
(* The conversion instruction of the vault: how the adapter encodes it     *)
(* (src/src/instruction.rs) and what convert_v2 does with it to a ledger   *)
(* [user, vault] of balances by mint.                                      *)
(* An instruction is [dir, amountIn, minimumOutput, preBalance].           *)
(***************************************************************************)
EXTENDS AmmMath, VaultEdges

Mints == {CRIME_MINT, FRAUD_MINT, PROFIT_MINT}

\* What an instance that knows of so much liquidity quotes: the amount paid out,
\* or None.
QuoteConversion(d, liquidity, input, output, amount) ==
  LET out == ComputeVaultOutput(Input(d), Output(d), amount)
  IN  IF <<input, output>> # d \/ out = None \/ out > liquidity THEN None ELSE out

Encode(d, amountIn, minimumOutput, preBalance) ==
  [dir |-> d, amountIn |-> amountIn,
   minimumOutput |-> minimumOutput, preBalance |-> preBalance]

EncodeExact(d, amountIn, minimumOutput) == Encode(d, amountIn, minimumOutput, 0)

\* Plausible bugs: no snapshot, and one that is off by one either way.
EncodeNoSnapshot(d, minimumOutput, preBalance) == Encode(d, 0, minimumOutput, 0)
EncodeBelowSnapshot(d, minimumOutput, preBalance) ==
  Encode(d, 0, minimumOutput, preBalance - 1)
EncodeAboveSnapshot(d, minimumOutput, preBalance) ==
  Encode(d, 0, minimumOutput, preBalance + 1)

EncodeDelta(d, minimumOutput, preBalance) == Encode(d, 0, minimumOutput, preBalance)

\* The program's three modes: an exact amount, the whole balance, or what the
\* balance has grown by since the snapshot (None: DeltaUnderflow).
AmountSpent(ix, balance) ==
  IF ix.amountIn > 0 THEN ix.amountIn
  ELSE IF ix.preBalance = 0 THEN balance
  ELSE IF ix.preBalance > balance THEN None
  ELSE balance - ix.preBalance

\* The program's own rate.
OnChainOutput(d, amount) ==
  IF Output(d) = PROFIT_MINT THEN amount \div 100 ELSE amount * 100

Converts(l, d, amount, minimumOutput) ==
  /\ amount \in 1 .. l.user[Input(d)]
  /\ OnChainOutput(d, amount) \in 1 .. l.vault[Output(d)]
  /\ OnChainOutput(d, amount) >= minimumOutput

Accepts(l, ix) ==
  Converts(l, ix.dir, AmountSpent(ix, l.user[Input(ix.dir)]), ix.minimumOutput)

AfterLeg(l, ix) ==
  LET d     == ix.dir
      spent == AmountSpent(ix, l.user[Input(d)])
      paid  == OnChainOutput(d, spent)
  IN  [user  |-> [l.user EXCEPT ![Input(d)] = @ - spent, ![Output(d)] = @ + paid],
       vault |-> [l.vault EXCEPT ![Input(d)] = @ + spent, ![Output(d)] = @ - paid]]
=============================================================================
