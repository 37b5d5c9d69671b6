----------------------------- MODULE VaultEdges ------------------------------
(***************************************************************************)
(* The four directed conversions of the vault and the token accounts they  *)
(* pay from (the helpers of src/src/vault_amm.rs).                         *)
(***************************************************************************)
EXTENDS Addresses

VaultForMint(mint) ==
  IF mint = CRIME_MINT THEN VAULT_CRIME
  ELSE IF mint = FRAUD_MINT THEN VAULT_FRAUD ELSE VAULT_PROFIT

\* The mint pairs conversion_output_vault answers Some for: known_instances
\* registers one instance for each, from_keyed_account accepts no other.
Directions == (FactionMints \X {PROFIT_MINT}) \cup ({PROFIT_MINT} \X FactionMints)

Input(d)       == d[1]
Output(d)      == d[2]
OutputVault(d) == VaultForMint(Output(d))
=============================================================================
