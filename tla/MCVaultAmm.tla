----------------------------- MODULE MCVaultAmm ------------------------------
(***************************************************************************)
(* Instances of VaultAmm for TLC: small vaults, dust, an amount whose      *)
(* product overflows u64 and one that no vault covers.                     *)
(***************************************************************************)
EXTENDS VaultAmm

MCUser  == [CRIME |-> 100, FRAUD |-> 100, PROFIT |-> 1]
MCVault == [CRIME |-> 50, FRAUD |-> 200, PROFIT |-> 1]

\* Zero, PROFIT amounts, dust, faction amounts, and (U64Max \div 100) + 1.
MCAmounts == {0, 1, 99, 100, 328}
MCStale   == {100}

\* The liveness instance.
LiveVault   == [CRIME |-> 50, FRAUD |-> 100, PROFIT |-> 1]
LiveUser    == [CRIME |-> 100, FRAUD |-> 0, PROFIT |-> 1]
LiveAmounts == {1, 100}
=============================================================================
