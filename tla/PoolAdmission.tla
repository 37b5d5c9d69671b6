---------------------------- MODULE PoolAdmission ----------------------------
(***************************************************************************)
(* Which accounts SolPoolAmm::from_keyed_account turns into a pool         *)
(* (src/src/sol_pool_amm.rs), and the roles it gives to the two sides.     *)
(* A PoolState account is [id, reserveA, reserveB, lpFeeBps, initialized,  *)
(* locked]; id holds the six fields that never change on chain.            *)
(***************************************************************************)
EXTENDS QuoteMintPolicy

CONSTANT MintRank     \* byte order of the mints' keys, a function to Nat

\* Pubkey::find_program_address(["pool", mint_a, mint_b], AMM): one address
\* per ordered pair of mints.
CanonicalKey(mintA, mintB) == <<"pool", mintA, mintB>>

\* (faction mint, quote mint) of a pool with exactly one faction side
FactionMint(id) == IF id.mintA \in FactionMints THEN id.mintA ELSE id.mintB
QuoteMint(id)   == IF id.mintA \in FactionMints THEN id.mintB ELSE id.mintA

TokenProgramOf(id, mint) ==
  IF id.mintA = mint THEN id.tokenProgramA ELSE id.tokenProgramB

\* A plausible bug: a pool of the two faction mints is taken as well.
HasAFactionSide(id) == id.mintA \in FactionMints \/ id.mintB \in FactionMints

HasOneFactionSide(id) == (id.mintA \in FactionMints) # (id.mintB \in FactionMints)

\* A plausible bug: the derivation of the address is left out.
IsOrdered(key, id) == MintRank[id.mintA] < MintRank[id.mintB]

IsCanonical(key, id) ==
  /\ MintRank[id.mintA] < MintRank[id.mintB]
  /\ key = CanonicalKey(id.mintA, id.mintB)

Admits(key, cell) ==
  /\ Parses(cell)
  /\ cell.owner = AMM_PROGRAM_ID
  /\ cell.data.initialized
  /\ LET id == cell.data.id IN
     /\ IsCanonical(key, id)
     /\ {id.tokenProgramA, id.tokenProgramB}
          \subseteq {SPL_TOKEN_PROGRAM_ID, TOKEN_2022_PROGRAM_ID}
     /\ HasOneFactionSide(id)
     /\ TokenProgramOf(id, FactionMint(id)) = TOKEN_2022_PROGRAM_ID
     /\ QuoteMint(id) = NATIVE_MINT =>
          TokenProgramOf(id, NATIVE_MINT) = SPL_TOKEN_PROGRAM_ID

\* The pairs an instance trades.
ValidateMintPair(a, input, output) ==
  IF input = a.quoteMint
  THEN output = a.factionMint
  ELSE input = a.factionMint /\ output = a.quoteMint
=============================================================================
