--------------------------- MODULE MCAmmDiscovery ----------------------------
(***************************************************************************)
(* The two bootstrap pools, a CRIME pool quoted in a token whose key sorts *)
(* behind it, and one more address that holds any of the accounts a scan   *)
(* or an engine may come across.                                           *)
(***************************************************************************)
EXTENDS AmmDiscovery, TLC

MCMintRank == [WSOL |-> 1, CRIME |-> 2, FRAUD |-> 3, PROFIT |-> 4, USD |-> 5]

Id(a, b, pa, pb) ==
  [mintA |-> a, mintB |-> b, vaultA |-> "va", vaultB |-> "vb",
   tokenProgramA |-> pa, tokenProgramB |-> pb]

SolId(va, vb, faction) ==
  [Id("WSOL", faction, "SPL", "T22") EXCEPT !.vaultA = va, !.vaultB = vb]
CrimeSol == SolId("crime_sol_vault_a", "crime_sol_vault_b", "CRIME")
FraudSol == SolId("fraud_sol_vault_a", "fraud_sol_vault_b", "FRAUD")
CrimeUsd == Id("CRIME", "USD", "T22", "SPL")

Raw(id, initialized, locked) ==
  [owner |-> "AMM", len |-> 224, discriminator |-> "PoolState", id |-> id,
   initialized |-> initialized, locked |-> locked]

KeyOf(id) == CanonicalKey(id.mintA, id.mintB)

\* Accounts at one odd address that is a pool's address for some of them: other
\* owners and layouts, no faction side, two of them, a PROFIT quote, programs
\* that do not fit, sides in the wrong order, a copy of another pool's data.
Elsewhere == <<"elsewhere">>
OddIds == {Id("PROFIT", "USD", "T22", "SPL"), Id("CRIME", "FRAUD", "T22", "T22"),
           Id("CRIME", "PROFIT", "T22", "T22"), Id("FRAUD", "USD", "SPL", "SPL"),
           Id("USD", "CRIME", "SPL", "T22")}
OddAt == {<<KeyOf(id), Raw(id, 1, 0)>> : id \in OddIds}
         \cup {<<Elsewhere, Raw(CrimeUsd, 1, 0)>>,
               <<Elsewhere, [Raw(CrimeUsd, 1, 0) EXCEPT !.discriminator = "AdminConfig"]>>,
               <<Elsewhere, [Raw(CrimeUsd, 1, 0) EXCEPT !.len = 223]>>}

MainCells ==
  (KeyOf(CrimeSol) :> {Raw(CrimeSol, 0, 0), Raw(CrimeSol, 1, 1)})
  @@ (KeyOf(FraudSol) :> {Absent, Raw(FraudSol, 2, 0), Raw(FraudSol, 1, 0)})
  @@ (KeyOf(CrimeUsd) :> {Absent, Raw(CrimeUsd, 1, 0), [Raw(CrimeUsd, 1, 0) EXCEPT !.owner = "SYSTEM"]})
MCCellsAt ==
  MainCells @@ [k \in {odd[1] : odd \in OddAt} |-> {odd[2] : odd \in {o \in OddAt : o[1] = k}}]
LiveCellsAt == MainCells

FirstOf(cells) == [k \in DOMAIN cells |-> CHOOSE raw \in cells[k] : TRUE]
MCGenesis   == FirstOf(MCCellsAt)
LiveGenesis == FirstOf(LiveCellsAt)

Params(i, o) == [input |-> i, output |-> o]
Listing(key, params) == [key |-> key, params |-> params]
CrimeKey == <<"jup_vault", "CRIME", "PROFIT">>

\* Known and unknown keys, params that agree with the key, that name no
\* conversion, and that do not parse.
MCListings ==
  {Listing(CrimeKey, NoParams), Listing(Elsewhere, NoParams),
   Listing(CrimeKey, Params("CRIME", "PROFIT")), Listing(CrimeKey, Invalid),
   Listing(<<"jup_vault", "CRIME", "FRAUD">>, Params("CRIME", "FRAUD")),
   Listing(Elsewhere, Params("PROFIT", "FRAUD"))}

\* The engine lists no vault of its own.
NoListings == {}
=============================================================================
