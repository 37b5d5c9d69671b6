------------------------------ MODULE Addresses ------------------------------
(***************************************************************************)
(* The protocol's hardcoded public keys (src/src/accounts/addresses.rs) as *)
(* names, and the two token programs that may own a mint.  Two addresses   *)
(* are equal iff their names are.                                          *)
(***************************************************************************)

CRIME_MINT  == "CRIME"
FRAUD_MINT  == "FRAUD"
PROFIT_MINT == "PROFIT"
NATIVE_MINT == "WSOL"

\* The two taxed tokens; FactionRole::from_mint is defined on exactly these.
FactionMints == {CRIME_MINT, FRAUD_MINT}

AMM_PROGRAM_ID        == "AMM"
EPOCH_PROGRAM_ID      == "EPOCH"
SPL_TOKEN_PROGRAM_ID  == "SPL"
TOKEN_2022_PROGRAM_ID == "T22"

\* The conversion vault's token accounts, one per protocol mint.
VAULT_CRIME  == "VaultCrime"
VAULT_FRAUD  == "VaultFraud"
VAULT_PROFIT == "VaultProfit"
=============================================================================
