---------------------------- MODULE AmmDiscovery -----------------------------
(***************************************************************************)
(* How an engine comes to hold the adapter's instances: program scans and  *)
(* the bootstrap keys of src/src/vault_amm.rs feed from_keyed_account with *)
(* accounts that may be anything, the vault's instances come from a        *)
(* factory or from listed keys and params, and what is built is held under *)
(* its key.  Between a fetch and its use the chain moves on.               *)
(*                                                                         *)
(* An account on chain is raw: the parser decides what it says.  Users'    *)
(* token accounts are fixed names; what instances do once they are held is *)
(* the business of FactionPoolAmm, VaultAmm and SwapSettlement.            *)
(***************************************************************************)
EXTENDS SwapAccounts, VaultEdges

CONSTANTS
  CellsAt,         \* the raw accounts every address goes through on chain
  Genesis,         \* the one it holds at first
  VaultListings,   \* [key, params]: vault accounts the engine is given
  NoParams, Invalid,
  Nothing          \* no fetch is in flight

VARIABLES
  accounts,    \* the raw account at every address
  fetched,     \* the accounts of a fetch not yet processed
  listed       \* the instances the engine holds

vars == <<accounts, fetched, listed>>

Keys  == DOMAIN CellsAt

ASSUME DiscoveryAssumption ==
  /\ Genesis \in [Keys -> UNION {CellsAt[k] : k \in Keys}]
  /\ \A k \in Keys : Genesis[k] \in CellsAt[k]

\* Mints have a place in the order of keys; neither a mint nor a token account is
\* a program.
ASSUME AccountsAssumption ==
  \A k \in Keys : \A raw \in CellsAt[k] \ {Absent} :
    LET id == raw.id IN
    /\ MintRank[id.mintA] \in Nat /\ MintRank[id.mintB] \in Nat
    /\ raw.owner = AMM_PROGRAM_ID => "VAULT" \notin {id.mintA, id.mintB, id.vaultA, id.vaultB}

-----------------------------------------------------------------------------
(* Parsing and construction *)

POOL_STATE_LEN == 224

\* PoolState bytes: length, discriminator and strict booleans are all checked.
PoolStateFromBytes(raw) ==
  IF \/ raw.len # POOL_STATE_LEN
     \/ raw.discriminator # "PoolState"
     \/ ~({raw.initialized, raw.locked} \subseteq {0, 1})
  THEN Malformed
  ELSE [id |-> raw.id, initialized |-> raw.initialized = 1, locked |-> raw.locked = 1]

Cell(raw) ==
  IF raw = Absent THEN Absent
  ELSE [owner |-> raw.owner, data |-> PoolStateFromBytes(raw)]

PoolRoute(key, id) ==
  [kind |-> "pool", key |-> key, id |-> id,
   quoteMint |-> QuoteMint(id), factionMint |-> FactionMint(id)]

\* A plausible bug: the direction is left out of the seeds.
DeriveUndirectedKey(dir) == <<"jup_vault", {dir[1], dir[2]}>>

DeriveSyntheticKey(dir) == <<"jup_vault", dir[1], dir[2]>>

VaultRoute(key, dir) ==
  [kind |-> "vault", key |-> key, dir |-> dir, outputVault |-> OutputVault(dir)]

KnownInstances == {VaultRoute(DeriveSyntheticKey(dir), dir) : dir \in Directions}

\* The instances VaultAmm::from_keyed_account makes of a listed account: none or
\* one.  Params decide when they are there, and the listed key is kept.
VaultFromKeyedAccount(listing) ==
  CASE listing.params = NoParams -> {instance \in KnownInstances : instance.key = listing.key}
    [] listing.params = Invalid  -> {}
    [] OTHER -> {VaultRoute(listing.key, dir) :
                   dir \in {<<listing.params.input, listing.params.output>>} \cap Directions}

-----------------------------------------------------------------------------
(* The bootstrap pools *)

\* A plausible bug: the mainnet vaults in the wrong order.
PoolAddressesReversed(isCrime) ==
  IF isCrime
  THEN [vaultA |-> "crime_sol_vault_b", vaultB |-> "crime_sol_vault_a", tokenMint |-> CRIME_MINT]
  ELSE [vaultA |-> "fraud_sol_vault_b", vaultB |-> "fraud_sol_vault_a", tokenMint |-> FRAUD_MINT]

PoolAddresses(isCrime) ==
  IF isCrime
  THEN [vaultA |-> "crime_sol_vault_a", vaultB |-> "crime_sol_vault_b", tokenMint |-> CRIME_MINT]
  ELSE [vaultA |-> "fraud_sol_vault_a", vaultB |-> "fraud_sol_vault_b", tokenMint |-> FRAUD_MINT]

KnownPoolState(isCrime) ==
  LET p == PoolAddresses(isCrime)
  IN  [mintA |-> NATIVE_MINT, mintB |-> p.tokenMint, vaultA |-> p.vaultA, vaultB |-> p.vaultB,
       tokenProgramA |-> SPL_TOKEN_PROGRAM_ID, tokenProgramB |-> TOKEN_2022_PROGRAM_ID]

CRIME_SOL_POOL == CanonicalKey(NATIVE_MINT, CRIME_MINT)
FRAUD_SOL_POOL == CanonicalKey(NATIVE_MINT, FRAUD_MINT)

\* What is admitted at the bootstrap keys has the vaults of the mainnet pools.
ASSUME BootstrapAssumption ==
  \A k \in Keys : \A raw \in CellsAt[k] :
    Admits(k, Cell(raw)) =>
      /\ k = CRIME_SOL_POOL => raw.id.vaultA = "crime_sol_vault_a" /\ raw.id.vaultB = "crime_sol_vault_b"
      /\ k = FRAUD_SOL_POOL => raw.id.vaultA = "fraud_sol_vault_a" /\ raw.id.vaultB = "fraud_sol_vault_b"

KnownSolPoolKeys == {CRIME_SOL_POOL, FRAUD_SOL_POOL}

AllPoolKeys == KnownSolPoolKeys \cup {instance.key : instance \in KnownInstances}

\* The hand-made instance of a bootstrap pool.
NewForTesting(isCrime) ==
  PoolRoute(IF isCrime THEN CRIME_SOL_POOL ELSE FRAUD_SOL_POOL, KnownPoolState(isCrime))

\* The constant-based builders.
KnownBuyWsolMetas(user, wsol, token, isCrime) ==
  SolBuyWsolMetas(user, wsol, token, NewForTesting(isCrime).key, KnownPoolState(isCrime))
KnownSellMetas(user, token, wsol, isCrime) ==
  SolSellMetas(user, token, wsol, NewForTesting(isCrime).key, KnownPoolState(isCrime))

-----------------------------------------------------------------------------
(* What an instance tells the engine *)

TAX_PROGRAM              == At("TAX")
CONVERSION_VAULT_PROGRAM == At("VAULT")

IsPool(route) == route.kind = "pool"

GetReserveMints(route) ==
  IF IsPool(route) THEN <<route.quoteMint, route.factionMint>> ELSE route.dir

\* A plausible bug: the engine may route backwards through a conversion.
NeverUnidirectional(route) == FALSE

Unidirectional(route) == ~IsPool(route)

\* Swaps go to the Tax program although pools are found under the AMM's.
ProgramId(route) == IF IsPool(route) THEN TAX_PROGRAM ELSE CONVERSION_VAULT_PROGRAM

\* A plausible bug: the staking program, which only SOL swaps reach, is left out.
DependenciesWithoutStaking == {At(AMM_PROGRAM_ID), TRANSFER_HOOK_PROGRAM}

PoolDependencies  == {At(AMM_PROGRAM_ID), STAKING_PROGRAM, TRANSFER_HOOK_PROGRAM}
VaultDependencies == {TRANSFER_HOOK_PROGRAM}

\* What the engine asks through the trait is answered by one adapter or the other.
ProgramDependencies(route) == IF IsPool(route) THEN PoolDependencies ELSE VaultDependencies

AccountsLen(route) == IF IsPool(route) THEN PoolAccountsLen(route) ELSE VaultAccountsLen

User == At("user")
Source == At("source")
Dest == At("dest")

SwapMetas(route, input, output) ==
  IF IsPool(route) THEN PoolSwapMetas(route, input, output, User, Source, Dest)
  ELSE VaultSwapMetas(route.dir, input, output, User, Source, Dest)

\* The directed pairs an engine reads out of the reserve mints.
Advertised(route) ==
  LET m == GetReserveMints(route)
  IN  {<<m[1], m[2]>>} \cup (IF Unidirectional(route) THEN {} ELSE {<<m[2], m[1]>>})

-----------------------------------------------------------------------------
(* Actions *)

Init ==
  /\ accounts = Genesis
  /\ fetched = Nothing
  /\ listed = {}

ChainMoves(k, raw) ==
  /\ accounts' = [accounts EXCEPT ![k] = raw]
  /\ UNCHANGED <<fetched, listed>>

\* A plausible bug: pools are looked for under the program that swaps them.
ScannedTaxProgram == "TAX"

\* PROGRAM_ID_TO_LABELS: the program whose accounts are candidate pools.
ScannedProgram == AMM_PROGRAM_ID

Fetch(keys) ==
  /\ fetched = Nothing
  /\ fetched' = [k \in keys |-> accounts[k]]
  /\ UNCHANGED <<accounts, listed>>

Scan ==
  Fetch({k \in Keys : accounts[k] # Absent /\ accounts[k].owner = ScannedProgram})

FetchKnown == Fetch(KnownSolPoolKeys \cap Keys)

\* The engine holds its instances by key: one for every key it does not hold yet.
Unheld(routes) ==
  {CHOOSE r \in routes : r.key = key :
     key \in {r.key : r \in routes} \ {held.key : held \in listed}}

\* Every fetched account is tried, the ones that are no pools fail alone.
RegisterFetched ==
  /\ fetched # Nothing
  /\ listed' = listed \cup Unheld(
       {PoolRoute(k, fetched[k].id) : k \in {k \in DOMAIN fetched : Admits(k, Cell(fetched[k]))}})
  /\ fetched' = Nothing
  /\ UNCHANGED accounts

RegisterKnownInstances ==
  /\ listed' = listed \cup Unheld(KnownInstances)
  /\ UNCHANGED <<accounts, fetched>>

RegisterListing(listing) ==
  /\ listed' = listed \cup Unheld(VaultFromKeyedAccount(listing))
  /\ UNCHANGED <<accounts, fetched>>

Next ==
  \/ \E k \in Keys : \E raw \in CellsAt[k] : ChainMoves(k, raw)
  \/ Scan
  \/ FetchKnown
  \/ RegisterFetched
  \/ RegisterKnownInstances
  \/ \E listing \in VaultListings : RegisterListing(listing)

Spec == Init /\ [][Next]_vars

\* Scans recur whatever else is fetched in between, what is fetched gets
\* processed, and the factory's instances are registered.
FairSpec ==
  /\ Spec
  /\ SF_vars(Scan) /\ WF_vars(RegisterFetched) /\ WF_vars(RegisterKnownInstances)

-----------------------------------------------------------------------------
(* Properties *)

\* Every mint an engine may ask a route about.
AskedMints ==
  {PROFIT_MINT} \cup UNION {{raw.id.mintA, raw.id.mintB} :
                              raw \in (UNION {CellsAt[k] : k \in Keys}) \ {Absent}}

\* A held pool has one faction mint, which is not what it is quoted in; a held
\* conversion is one the vault makes and pays from the vault of its output.
TypeOK ==
  /\ accounts \in [Keys -> UNION {CellsAt[k] : k \in Keys}]
  /\ \A r \in listed :
       IF IsPool(r) THEN r.factionMint \in FactionMints /\ r.quoteMint \notin FactionMints
       ELSE r.dir \in Directions /\ r.outputVault = VaultForMint(r.dir[2])

\* Whatever accounts are scanned, copies of a pool's data at other addresses and
\* pools whose sides are the wrong way round included, the engine never holds two
\* pools for one pair of mints, and no vault instance under a pool's key.
OneRoutePerMarket ==
  \A r, s \in listed :
    IsPool(r) /\ r # s => /\ r.key # s.key
                          /\ IsPool(s) => Advertised(r) \cap Advertised(s) = {}

\* Every instance that is held can build a swap for exactly the directed pairs
\* the engine reads out of it, within the accounts it announces: no admitted
\* pool is one the account builders of its lane refuse, and no conversion is
\* advertised backwards.
AdvertisedIsBuildable ==
  \A r \in listed, input \in AskedMints, output \in AskedMints :
    LET metas == SwapMetas(r, input, output)
    IN  /\ metas # <<>> <=> <<input, output>> \in Advertised(r)
        /\ Len(metas) <= AccountsLen(r)

\* The programs in an instance's lists, the runtime's own aside, are the one it
\* calls and the ones it tells a harness to load.
DependenciesCoverLists ==
  \A r \in listed : \A pair \in Advertised(r) :
    LET metas    == SwapMetas(r, pair[1], pair[2])
        programs == {At(AMM_PROGRAM_ID), STAKING_PROGRAM, TRANSFER_HOOK_PROGRAM,
                     TAX_PROGRAM, CONVERSION_VAULT_PROGRAM}
    IN  {metas[i].key : i \in 1 .. Len(metas)} \cap programs
          \subseteq {ProgramId(r)} \cup ProgramDependencies(r)

\* A bootstrap pool found on chain gets the account lists that the constants of
\* the adapter give it: the constant-based builders, the hand-made instance and
\* the discovered one name the same accounts in the same places.
KnownPoolsAgree ==
  \A r \in listed, isCrime \in BOOLEAN :
    IsPool(r) /\ r.key = NewForTesting(isCrime).key =>
      LET f == r.factionMint IN
      /\ \A pair \in Advertised(r) :
           SwapMetas(r, pair[1], pair[2])
             = SwapMetas(NewForTesting(isCrime), pair[1], pair[2])
      /\ SwapMetas(r, NATIVE_MINT, f) = KnownBuyWsolMetas(User, Source, Dest, isCrime)
      /\ SwapMetas(r, f, NATIVE_MINT) = KnownSellMetas(User, Source, Dest, isCrime)

Held(k) == \E r \in listed : r.key = k

\* A pool that stays on chain in a state from_keyed_account takes is found in
\* the end, locked or not, however stale the fetches are that come before.
PoolsGetListed ==
  \A k \in Keys : <>[]Admits(k, Cell(accounts[k])) => <>Held(k)

\* "6 Amm instances covering 8 swap directions"
\* (src/examples/quote_example.rs): once both bootstrap pools are there to be
\* found, all six keys are held and every direction is served.
BootstrapServesEveryDirection ==
  <>[](\A k \in KnownSolPoolKeys : Admits(k, Cell(accounts[k]))) =>
    <>[](/\ \A k \in AllPoolKeys : Held(k)
         /\ Directions \cup (FactionMints \X {NATIVE_MINT}) \cup ({NATIVE_MINT} \X FactionMints)
              \subseteq UNION {Advertised(r) : r \in {r \in listed : r.key \in AllPoolKeys}})
=============================================================================
