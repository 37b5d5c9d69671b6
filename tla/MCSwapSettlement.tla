-------------------------- MODULE MCSwapSettlement ---------------------------
(***************************************************************************)
(* One pool of every kind: quoted in WSOL, in a classic SPL token with the *)
(* faction mint on side A, and in a Token-2022 one with it on side B; a    *)
(* trader and the engine's shared authority.                               *)
(***************************************************************************)
EXTENDS SwapSettlement

MCMintRank == [WSOL |-> 1, GOLD |-> 2, CRIME |-> 3, FRAUD |-> 4, PROFIT |-> 5, USDC |-> 6]

Id(a, b, pa, pb) ==
  [mintA |-> a, mintB |-> b, vaultA |-> "va", vaultB |-> "vb",
   tokenProgramA |-> pa, tokenProgramB |-> pb]

MCPools ==
  {[Id("WSOL", "CRIME", "SPL", "T22") EXCEPT !.vaultA = "cs_a", !.vaultB = "cs_b"],
   [Id("FRAUD", "USDC", "T22", "SPL") EXCEPT !.vaultA = "fu_a", !.vaultB = "fu_b"],
   [Id("GOLD", "CRIME", "T22", "T22") EXCEPT !.vaultA = "gc_a", !.vaultB = "gc_b"]}

MCTrader == [m \in {"WSOL", "GOLD", "CRIME", "FRAUD", "PROFIT", "USDC"} |->
               IF m = "PROFIT" THEN 5 ELSE 800]
MCHolders == {"trader", "shared"}
MCAmounts == {2, 500}
=============================================================================
