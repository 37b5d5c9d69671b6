---------------------------- MODULE SwapAccounts -----------------------------
(***************************************************************************)
(* The instructions an instance builds: the entrypoint it selects, its     *)
(* arguments (src/src/instruction.rs) and its positional account lists     *)
(* (src/src/accounts/).  An address is the tuple of what it is derived     *)
(* from; a pool is the identity record of PoolAdmission; the empty list    *)
(* stands for the error of a builder.                                      *)
(***************************************************************************)
EXTENDS PoolAdmission, Sequences

At(name) == <<name>>

EPOCH_STATE_PDA       == At("epoch_state")
SWAP_AUTHORITY_PDA    == At("swap_authority")
TAX_AUTHORITY_PDA     == At("tax_authority")
STAKE_POOL_PDA        == At("stake_pool")
WSOL_INTERMEDIARY_PDA == At("wsol_intermediary")
VAULT_CONFIG_PDA      == At("vault_config")
SWEEP_AUTHORITY       == At("sweep_authority")
SYSTEM_PROGRAM        == At("SYSTEM")
STAKING_PROGRAM       == At("STAKING")
TRANSFER_HOOK_PROGRAM == At("HOOK")

\* Where a collected WSOL tax goes.
ESCROW_VAULT_PDA      == At("staking_escrow")
CARNAGE_SOL_VAULT_PDA == At("carnage_vault")
TREASURY              == At("treasury")

\* PDAs of the transfer hook program
HookMetaList(mint) == <<"extra-account-metas", mint>>
Whitelist(account) == <<"whitelist", account>>

\* A plausible bug: the sweep ATA always under classic SPL Token.
SweepAtaClassic(quoteMint, tokenProgram) ==
  <<"ata", SWEEP_AUTHORITY, quoteMint, SPL_TOKEN_PROGRAM_ID>>

SweepAta(quoteMint, tokenProgram) ==
  <<"ata", SWEEP_AUTHORITY, quoteMint, tokenProgram>>

Meta(key, signer, writable) == [key |-> key, signer |-> signer, writable |-> writable]
Mut(key)    == Meta(key, FALSE, TRUE)
Ro(key)     == Meta(key, FALSE, FALSE)

-----------------------------------------------------------------------------
(* hook_accounts.rs *)

\* A plausible bug: the two ends of the transfer swapped.
HookMetasReversed(mint, source, dest) ==
  IF mint \notin FactionMints \cup {PROFIT_MINT} THEN <<>>
  ELSE <<Ro(HookMetaList(mint)), Ro(Whitelist(dest)), Ro(Whitelist(source)),
         Ro(TRANSFER_HOOK_PROGRAM)>>

HookMetasForMint(mint, source, dest) ==
  IF mint \notin FactionMints \cup {PROFIT_MINT} THEN <<>>
  ELSE <<Ro(HookMetaList(mint)), Ro(Whitelist(source)), Ro(Whitelist(dest)),
         Ro(TRANSFER_HOOK_PROGRAM)>>

-----------------------------------------------------------------------------
(* sol_pool_accounts.rs, spl_pool_accounts.rs *)

\* What every list says of the pool: the account, its vaults and its mints.
PoolMetas(key, id) ==
  <<Mut(key), Mut(At(id.vaultA)), Mut(At(id.vaultB)),
    Ro(At(id.mintA)), Ro(At(id.mintB))>>

\* The user's two accounts in the pool's order of its sides.
OnSides(firstIsA, first, second) ==
  IF firstIsA THEN <<Mut(first), Mut(second)>> ELSE <<Mut(second), Mut(first)>>

TokenPrograms(id) == <<Ro(At(id.tokenProgramA)), Ro(At(id.tokenProgramB))>>

TaxDestinations ==
  <<Mut(STAKE_POOL_PDA), Mut(ESCROW_VAULT_PDA), Mut(CARNAGE_SOL_VAULT_PDA), Mut(TREASURY)>>

IsSolPool(id) == (id.mintA = NATIVE_MINT) # (id.mintB = NATIVE_MINT)

\* The side of a WSOL pool that is not WSOL.
ResolveSides(id) ==
  LET onA == id.mintA # NATIVE_MINT
  IN  [tokenOnA |-> onA,
       mint     |-> IF onA THEN id.mintA ELSE id.mintB,
       vault    |-> At(IF onA THEN id.vaultA ELSE id.vaultB)]

\* The legacy buy: the tax comes from the signer's own lamports.
SolBuyMetas(user, userSol, userToken, key, id) ==
  LET s == ResolveSides(id) IN
  IF ~IsSolPool(id) THEN <<>>
  ELSE <<Meta(user, TRUE, TRUE), Ro(EPOCH_STATE_PDA), Ro(SWAP_AUTHORITY_PDA),
        Ro(TAX_AUTHORITY_PDA)>>
      \o PoolMetas(key, id) \o OnSides(s.tokenOnA, userToken, userSol)
      \o TaxDestinations
      \o <<Ro(At(AMM_PROGRAM_ID))>> \o TokenPrograms(id)
      \o <<Ro(SYSTEM_PROGRAM), Ro(STAKING_PROGRAM)>>
      \o HookMetasForMint(s.mint, s.vault, userToken)

\* The two lanes that unwrap their tax through the WSOL intermediary.
WsolIntermediaryMetas(user, userToken, userSol, key, id, isBuy) ==
  LET s == ResolveSides(id) IN
  IF ~IsSolPool(id) THEN <<>>
  ELSE <<Meta(user, TRUE, FALSE), Ro(EPOCH_STATE_PDA), Mut(SWAP_AUTHORITY_PDA),
        Ro(TAX_AUTHORITY_PDA)>>
      \o PoolMetas(key, id) \o OnSides(s.tokenOnA, userToken, userSol)
      \o TaxDestinations
      \o <<Mut(WSOL_INTERMEDIARY_PDA), Ro(At(AMM_PROGRAM_ID))>> \o TokenPrograms(id)
      \o <<Ro(SYSTEM_PROGRAM), Ro(STAKING_PROGRAM)>>
      \o (IF isBuy THEN HookMetasForMint(s.mint, s.vault, userToken)
                   ELSE HookMetasForMint(s.mint, userToken, s.vault))

SolBuyWsolMetas(user, userSol, userToken, key, id) ==
  WsolIntermediaryMetas(user, userToken, userSol, key, id, TRUE)

SolSellMetas(user, userToken, userSol, key, id) ==
  WsolIntermediaryMetas(user, userToken, userSol, key, id, FALSE)

HasFactionSides(id) ==
  /\ HasOneFactionSide(id)
  /\ TokenProgramOf(id, QuoteMint(id)) \in {SPL_TOKEN_PROGRAM_ID, TOKEN_2022_PROGRAM_ID}

\* The sides of a faction pool whose quote is any SPL mint.
ResolveFactionSides(id) ==
  LET onA == id.mintA \in FactionMints
  IN  [factionIsA        |-> onA,
       factionMint       |-> FactionMint(id),
       quoteMint         |-> QuoteMint(id),
       factionVault      |-> At(IF onA THEN id.vaultA ELSE id.vaultB),
       quoteTokenProgram |-> IF onA THEN id.tokenProgramB ELSE id.tokenProgramA]

SweepAccount(id) ==
  LET s == ResolveFactionSides(id) IN SweepAta(s.quoteMint, s.quoteTokenProgram)

\* Both SPL lists up to the sweep ATA, with the account of the quote slot.
SplHead(user, quoteSlot, userFaction, key, id) ==
  LET s == ResolveFactionSides(id)
  IN  <<Meta(user, TRUE, FALSE), Ro(EPOCH_STATE_PDA)>>
      \o PoolMetas(key, id) \o OnSides(s.factionIsA, userFaction, quoteSlot)
      \o <<Ro(SWAP_AUTHORITY_PDA), Ro(SWEEP_AUTHORITY), Ro(At(s.quoteMint)),
           Mut(SweepAccount(id))>>

SplTail(id) ==
  <<Ro(At(ResolveFactionSides(id).quoteTokenProgram))>> \o TokenPrograms(id)
  \o <<Ro(At(AMM_PROGRAM_ID))>>

SplBuyMetas(user, userQuote, userFaction, key, id) ==
  LET s == ResolveFactionSides(id) IN
  IF ~HasFactionSides(id) THEN <<>>
  ELSE SplHead(user, userQuote, userFaction, key, id) \o SplTail(id)
      \o HookMetasForMint(s.factionMint, s.factionVault, userFaction)

\* The pool pays the sweep ATA; the user's account comes separately.
SplSellMetas(user, userFaction, userQuote, key, id) ==
  LET s == ResolveFactionSides(id) IN
  IF ~HasFactionSides(id) THEN <<>>
  ELSE SplHead(user, SweepAccount(id), userFaction, key, id)
      \o <<Mut(userQuote)>> \o SplTail(id)
      \o HookMetasForMint(s.factionMint, userFaction, s.factionVault)

-----------------------------------------------------------------------------
(* vault_accounts.rs *)

VaultTokenAccount(mint) ==
  At(CASE mint = CRIME_MINT -> VAULT_CRIME
       [] mint = FRAUD_MINT -> VAULT_FRAUD
       [] mint = PROFIT_MINT -> VAULT_PROFIT)

VaultMetas(user, userInput, userOutput, input, output) ==
  LET vaultInput  == VaultTokenAccount(input)
      vaultOutput == VaultTokenAccount(output)
  IN  <<Meta(user, TRUE, FALSE), Ro(VAULT_CONFIG_PDA), Mut(userInput), Mut(userOutput),
        Ro(At(input)), Ro(At(output)), Mut(vaultInput), Mut(vaultOutput),
        Ro(At(TOKEN_2022_PROGRAM_ID))>>
      \o HookMetasForMint(input, userInput, vaultInput)
      \o HookMetasForMint(output, vaultOutput, userOutput)

-----------------------------------------------------------------------------
(* instruction.rs: TaxSwapLane *)

NoLane == "none"

\* A plausible bug: WSOL buys on the legacy lane.
ForMintsLegacy(quoteMint, factionMint, input, output) ==
  IF input = quoteMint /\ output = factionMint
  THEN IF quoteMint = NATIVE_MINT THEN "SolBuy" ELSE "SplBuy"
  ELSE IF input = factionMint /\ output = quoteMint
  THEN IF quoteMint = NATIVE_MINT THEN "SolSell" ELSE "SplSell"
  ELSE NoLane

ForMints(quoteMint, factionMint, input, output) ==
  IF input = quoteMint /\ output = factionMint
  THEN IF quoteMint = NATIVE_MINT THEN "SolBuyWsol" ELSE "SplBuy"
  ELSE IF input = factionMint /\ output = quoteMint
  THEN IF quoteMint = NATIVE_MINT THEN "SolSell" ELSE "SplSell"
  ELSE NoLane

HasFactionWitness(lane) == lane \in {"SolBuy", "SolSell"}

\* A plausible bug: the slippage bound never reaches the program.
EncodeNoMinimum(lane, amountIn, minimumOutput, isCrime) ==
  [lane |-> lane, amountIn |-> amountIn, minimumOutput |-> 0,
   witness |-> IF HasFactionWitness(lane) THEN {isCrime} ELSE {}]

\* Entrypoint and arguments; the witness byte only where the lane carries one.
Encode(lane, amountIn, minimumOutput, isCrime) ==
  [lane |-> lane, amountIn |-> amountIn, minimumOutput |-> minimumOutput,
   witness |-> IF HasFactionWitness(lane) THEN {isCrime} ELSE {}]

-----------------------------------------------------------------------------
(* get_swap_and_account_metas, in SwapMode::ExactIn *)

\* The list of a pool instance [key, id, quoteMint, factionMint].
PoolSwapMetas(a, input, output, user, source, dest) ==
  LET lane == ForMints(a.quoteMint, a.factionMint, input, output) IN
  IF ~ValidateMintPair(a, input, output) THEN <<>>
  ELSE CASE lane = "SolBuyWsol" -> SolBuyWsolMetas(user, source, dest, a.key, a.id)
         [] lane = "SolBuy"     -> SolBuyMetas(user, source, dest, a.key, a.id)
         [] lane = "SolSell"    -> SolSellMetas(user, source, dest, a.key, a.id)
         [] lane = "SplBuy"     -> SplBuyMetas(user, source, dest, a.key, a.id)
         [] lane = "SplSell"    -> SplSellMetas(user, source, dest, a.key, a.id)
         [] OTHER               -> <<>>

\* The list of the vault instance of a direction.
VaultSwapMetas(dir, input, output, user, source, dest) ==
  IF <<input, output>> # dir THEN <<>>
  ELSE VaultMetas(user, source, dest, input, output)

\* A plausible bug: the bound its own comment gives for a buy.
PoolAccountsLenBuy(a) == 24

PoolAccountsLen(a) == 25

VaultAccountsLen == 17
=============================================================================
