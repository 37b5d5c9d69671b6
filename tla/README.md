# A TLA+ model of the Dr. Fraudsworth Jupiter adapter

This directory models the Rust adapter in `src/src/`: the code Jupiter's routing
engine links to quote and build swaps on the CRIME/FRAUD faction pools and on the
PROFIT conversion vault. The modules are checked with TLC on small instances; the
results that hold for every value of the constants are proved with TLAPS.

The adapter is sequential code that lives between two things it does not control:
an engine that hands it account snapshots of any age, and programs on chain whose
state moves on between a quote and its execution. Its correctness is about
agreement: between the struct and one snapshot, between the gate it applies and
the gate the programs apply, between a quote and what the swap pays, between the
accounts it lists and the positions a program reads. That is what the properties
state.

## 1. Inventory

| Component | State | Operations | Module |
|---|---|---|---|
| Faction pool instance, `sol_pool_amm.rs` | last `PoolState`, roles of its sides, two taxes, `pause_end_slot`, `trading_paused`, `epoch_initialized`, `state_refreshed`, a shared clock | `from_keyed_account`, `get_accounts_to_update`, `update`, `is_active`, `quote`, `clone_amm`, `get_swap_and_account_metas` | `FactionPoolAmm`, `PoolAdmission`, `TaxedSwap`, `SwapAccounts` |
| Vault instance, `vault_amm.rs` (four) | direction, key, `output_vault_balance` | `from_keyed_account`, `update`, `quote`, `underlying_liquidities`, `get_swap_and_account_metas` | `VaultAmm`, `VaultEdges`, `VaultConvert`, `SwapAccounts` |
| Discovery: `PROGRAM_ID_TO_LABELS`, `known_instances`, `known_sol_pool_keys`, `all_pool_keys`, `new_for_testing`, `program_dependencies` | none; the engine's set of instances | scans, the factory, listings | `AmmDiscovery`, `PoolAdmission` |
| Arithmetic, `math/` | none | effective input, swap output, tax, tax split, conversion, k check | `AmmMath` |
| Quote-mint policy, `state/mint_state.rs` | none; the mint's own fee schedules, hook, pause | `validate_quote_mint` | `QuoteMintPolicy`, `QuoteMintLife` |
| Account parsers, `state/` | none | bytes to a record, or an error | a record or `Malformed`; `AmmDiscovery` for `PoolState` |
| Lanes and encoders, `instruction.rs` | none | `TaxSwapLane::for_mints`, `encode`, `VaultConvertV2` | `SwapAccounts`, `VaultConvert` |
| Account lists, `accounts/` | none | five pool builders, the vault builder, hook accounts, the constant-based wrappers | `SwapAccounts`, `AmmDiscovery` |
| Addresses, `accounts/addresses.rs` | none | constants | `Addresses` |
| Routes of several hops (what `src/README.md` promises the engine can compose) | one atomic transaction | quotes and legs of pools and vault in a row | `HopRoutes` |
| On-chain programs (IDLs in `src/idl/`) | pools, epoch, mints, vaults, balances | swap, convert, epoch roll, pause, lock | environment of the modules above |

How they interact. The engine discovers a pool account and calls
`from_keyed_account`; from then on it repeats: ask for `get_accounts_to_update`,
fetch, call `update` with the map, ask `is_active`, `quote`, and finally ask for
the accounts of a swap that it encodes with `TaxSwapLane` or `VaultConvertV2` and
sends. Instances are cloned between the engine's threads; the clock is shared by
all of them and advances by itself. Nothing is persisted and no call blocks.

What is hard:

* **Partial failure.** `update` writes the epoch fields before the quote mint can
  still be rejected; only the flag cleared first and set last keeps a half-applied
  map from being served.
* **Staleness.** Maps arrive with cells missing, malformed, closed, foreign, or of
  different ages; clones carry the flag of their original.
* **Two gates.** The adapter's `is_active` and the programs' own gate must open and
  close together, at an inclusive slot boundary that a clock moves, with no
  refresh.
* **Orientation.** The quote mint is on side A or B depending on key order:
  reserves, vaults, token programs and user accounts are all picked by side and
  are all of one type, so every mix-up compiles.
* **Interleaving.** Between quote and execution other swaps, conversions and epoch
  rolls happen; two vault directions drain one account; delta-mode conversions
  depend on a balance read earlier.
* **Two views of one pool.** Admission, the account builders, the reported reserve
  mints, the announced dependencies and the hardcoded bootstrap addresses are written
  separately and must describe the same pools.
* **Delay.** A quote mint's fee is scheduled in one epoch and in force two epochs
  later; the adapter looks at it only when it refreshes.
* **Rounding and widths.** Truncation must favour the pool in every sequence. Zero, dust
  and overflow must give no quote of the vault; a pool answers zero and dust with a quote
  of zero.

## 2. Modules

**`Addresses`**: keys as names.

**`AmmMath`**: `src/src/math/`, checked arithmetic with its widths. `U64Max` is a
constant, `2^64 - 1` in the program; every overflow boundary is computed from it.
A Rust `Option` is a number or `None`.

**`TaxedSwap`**: `quote_buy` and `quote_sell`, the tax taken on the quote side, the
LP fee on the swapped amount, the reported fee with its casts.

**`QuoteMintPolicy`, `PoolAdmission`**: what `validate_quote_mint` accepts, and
which accounts `from_keyed_account` turns into a pool, in the code's order of checks.
`MintRank` stands for the byte order of keys, `CanonicalKey` for the pool PDA.

**`AmmDiscovery`**: how the engine comes to its instances. `accounts` is what lies at
every address, as raw bytes reduced to owner, length, discriminator, identity and the
two flag *bytes* (a byte that is neither 0 nor 1 makes the account unparsable); `fetched` is what a fetch put into the engine's hands, as
old as it may be by the time it is used; `listed` is the set of instances held. `Scan` brings
every account of the program the adapter names, `FetchKnown` the bootstrap ones,
`RegisterFetched` is `from_keyed_account` on what was fetched, `RegisterKnownInstances`
the factory and `RegisterListing` a vault listed with or without params. Everything
an instance then says of itself (`Advertised`, `SwapMetas`, `AccountsLen`,
`ProgramDependencies`) is translated beside it. Of the accounts it assumes that their
mints have a place in the order of keys, that no pool's mint or vault is the vault program,
and that what is admitted at the two bootstrap addresses has the vaults that
`accounts/addresses.rs` hardcodes for it, as the mainnet snapshots of the tests show.

**`FactionPoolAmm`**: the pool instance against its environment. `chain` is the
present state of the three accounts, `slot` the chain's slot, `clock` the shared
`ClockRef` that follows it at its own pace, `amm[r]` the struct of
route `r` field by field. `FromKeyedAccount`, `CloneAmm` and `Update` are the
handlers; `Update` has one disjunct per outcome (rejected before anything but the
flag was written, rejected at the quote mint with the epoch fields already written,
accepted). `Refresh` delivers exactly the accounts the route declared, as they are;
`LapsedRefresh` delivers any map: missing, malformed, foreign or old cells, each of
its own age. `applied[r]` is a history variable, the map of the last `update` if it
was sound. Two routes, so that clones diverge from their originals.

**`RouteMirror`**: the abstract promise of a held route, with no account, check or
field in it: a route offers all the terms of the last snapshot it was handed, or is
closed. `FactionPoolAmm` instantiates it (`Mirror`) with the market
`MirrorOffer(Current)`, the snapshot `MirrorOffer(applied[r])` and the offer of a
refreshed struct, and implements it (`ImplementsMirror`). The vault instances do not:
after a failed refresh they go on offering (section 6).

**`QuoteMintLife`**: the mint of a Token-2022 quote with its two fee schedules, hook and
pause, the mint authorities that change them, Solana epochs, and the refreshes of
several routes that apply `ValidateQuoteMint` in between. A newly set fee starts
two epochs on, as the token program does it; `acceptedAt[r]` is the epoch of a route's last
accepted refresh.

**`SwapExecution`**: quotes turned into orders with a minimum output, and executed
later against reserves and taxes that other swaps and epoch rolls have moved.

**`VaultEdges`, `VaultConvert`**: the four conversions and the accounts they pay from;
the encoding of `convert_v2` and what the program makes of it (exact, everything, delta).

**`VaultAmm`**: the four instances over three vault accounts, with the engine's
one-leg and through-PROFIT routes and other conversions of the same wallet in between.
`cap[d]` is `output_vault_balance`; `outcome` and `held` are history.

**`HopRoutes`**: composes `TaxedSwap` and `VaultConvert`: two WSOL pools, the vault and a
user's four balances. A route is a path of mints, quoted hop by hop from one snapshot
(`AmountsAlong`), encoded leg by leg (exact first; a conversion behind a hop spends in
delta mode) and run atomically, later, after other swaps, epoch rolls and the user's own
conversions. A path is any sequence of hops a pool or the vault serves that comes to no mint
twice. Every mint's supply is a u64, and what the pools, the vault and the user hold of it
stays within it (`WithinSupply`): another trader sells only tokens that exist.

**`SwapAccounts`**: the positional lists and the instruction arguments. An address
is the tuple of what it is derived from, so two PDAs are equal iff their seeds are.

**`SwapSettlement`**: composes `SwapAccounts` and `TaxedSwap` with programs that
read the lists by the position the IDLs give, check what they pin, and move tokens on a
ledger. Two signers (a trader and the engine's shared authority) have orders pending
at once and may be paid on behalf of one another. The direct callers' legacy
`swap_sol_buy` is included. The `build_*_account_metas(is_crime)` wrappers are the
generic builders on a pool whose identity is constant. It is stated for any set of pools
that `from_keyed_account` admits, no two at one address, and for a native mint whose key
comes before those of the faction mints. An execution that would overflow an account fails,
as a token program's transfer does.

`MC*` modules give the constants their values. Operators marked "A plausible bug"
are wrong variants of the definition that follows them; no specification uses them,
they exist so that each property can be seen to fail when the code is wrong.

## 3. Runs

| Run | Configuration | Question |
|---|---|---|
| `pool_spl` | `FactionPoolSpl.cfg` | A Token-2022-quoted pool in reversed orientation: is what an active route serves always one coherent, fully checked map; is its gate the programs' gate; does it quote what they pay? |
| `pool_sol` | `FactionPoolSol.cfg` | Gate and quotes on CRIME/WSOL: the other orientation, no mint account, an uninitialized epoch |
| `pool_live` | `FactionPoolLive.cfg` | Does every route become active again (`EventuallyRoutable`) and outlive a torn map (`TornMapsHeal`); is every step a step of `RouteMirror` (`ImplementsMirror`); does a slot pause end without a refresh (`ReopensOnClock`)? |
| `swap` | `SwapExecution.cfg` | What do quotes turn into when the market moves? |
| `vault` | `VaultConversions.cfg` | Payable quotes, exact and delta spending, declared overlap |
| `vault_live` | `VaultLive.cfg` | Do liquidity caps catch up? (`CapsCatchUp`) |
| `settlement` | `SwapSettlement.cfg` | Are the lists what the programs want, no more, and do they move what was ordered? |
| `discovery` | `AmmDiscovery.cfg` | Which instances come out of arbitrary accounts and listings, and can they do what they say? |
| `discovery_live` | `AmmDiscoveryLive.cfg` | Is every pool found, and is the bootstrap set complete? |
| `quote_mint` | `QuoteMintLife.cfg` | How long may a route rely on a mint it accepted? |
| `hops` | `HopRoutes.cfg` | What do routes over pools and vault pay, and what do they leave alone? |
| `vault_liquidity` | `VaultLiquidity.cfg` | A documented claim that does not hold (section 6) |

The properties, by what they protect:

* `ActiveIsCoherent`: a route that serves quotes serves them from one account map
  that passed every check; nothing older or rejected is mixed in.
* `GateMirrorsChain`: a route whose last map is still the chain's state is never active
  before the programs would admit a swap, however late the clock, and once the clock is
  current it is active exactly then. What it tells apart are the pool's lifecycle, the two
  pauses and the order of the writes; of the quote mint it assumes that the programs
  admit what the adapter's policy accepts, since their own rule is not in the repository.
* `ImplementsMirror`, `TornMapsHeal`: an `update`, whatever it is handed and wherever it
  stops, is one atomic step between whole snapshots; and a map whose cells never existed
  together, which passes every check because nothing orders the cells, is outlived by
  every route and clone.
* `QuotesMatchExecution`: such a route quotes, for the two directed pairs of the pool
  and no other, what the swap pays; the reference formula is written by role and
  not by side.
* `IdentityImmutable`: no map turns a route into another pool's.
* `NoProfitFromThePool`, `KNeverDecreases`, `ReportedFeeIsWithheld`,
  `UnmovedMarketPaysQuote`: rounding favours the pool over every sequence of trades;
  the reported fee is what the trade withholds; an unmoved market pays the quote.
* `SyncedQuoteIsPayable`: a synced vault instance quotes exactly what a user could
  convert. `ExactSpendsExact`, `DeltaSparesSnapshot`: exact legs never become
  "convert everything" and delta legs never touch what the user held.
  `OverlapIsDeclared`: shared liquidity is visible to the engine.
* `BuiltSwapsAreAccepted`: in every lane, orientation, quote token program and
  direction the program finds the accounts, rights and hook accounts it needs.
  `ListsAskForNoMore`: the lists grant nothing beyond that and fit
  `get_accounts_len`. `SettlesAsOrdered`: the source pays exactly the amount, the
  destination gets at least the minimum, nobody else's tokens move.
  `RoutedSwapsSpareLamports`: only the legacy lane spends native lamports.

* `OneRoutePerMarket`: no scan or listing makes the engine hold two pools for a pair, or a
  vault under a pool's key. `AdvertisedIsBuildable`: what an instance advertises is exactly
  what it can build, within `get_accounts_len`. `DependenciesCoverLists`: the programs
  in its lists are announced. `KnownPoolsAgree`: the constant-based builders and a
  discovered bootstrap pool name the same accounts. `PoolsGetListed`,
  `BootstrapServesEveryDirection`: nothing admissible stays unfound, and the six
  keys of the factory serve all eight directions.
* `NeverShort`: in the epoch of its acceptance and the next, a mint delivers every
  transfer in full or not at all, whatever its authorities do.
* `UnmovedRoutePaysQuote`: over any path, an unmoved market pays the composed quote.
  `HeldTokensSpared`, `NothingLeftBehind`: a route takes nothing of the mints
  in between that the user held before, and leaves none of what its own hops paid.

### Bounds, and why they are enough

* `U64Max` is 16383 or 32767 in TLC, so that all products fit its 32-bit
  integers. Overflow is reached: 328 PROFIT overflow a conversion. The general
  width is the proofs' part.
* Faction pools: two routes, slots 0 to 2 around a pause that ends at 1, a clock at any
  slot up to that, at most two
  lapsed fetches (one leaves a failed refresh behind, a second one can follow a
  recovery), three states of the pool and three or four of the epoch covering open, locked,
  slot-paused, manually paused and uninitialized. Every field of the struct is
  overwritten by `update`, so a longer history reaches nothing new; the proofs remove
  the bound. Routes are symmetric in the safety runs; no symmetry in the liveness
  runs, where it would be unsound.
* `discovery`: both bootstrap pools in two or three states, one USD-quoted pool, and each of
  the odd accounts at an address of its own: no faction side, both, a PROFIT quote, wrong
  programs, wrong order, a copy at a foreign address, another account type, a short account.
  Six listings: known and unknown keys, no params, agreeing, impossible and unparsable ones.
  The liveness run drops the odd accounts, which never become a pool.
* `quote_mint`: two routes, six epochs (a fee set in one is in force two later, and can be
  replaced and retired again), a fee, no fee and one capped at nothing.
* `hops`: three moves (executions, other swaps, conversions, epoch rolls) around a
  route: one can precede the build, one comes between build and execution. Four paths: into,
  out of and through PROFIT, with pool outputs that are not multiples of 100.
* `swap`: three executed swaps over a cheap and an expensive epoch, on a pool where one
  swap moves the price by a third. Sandwiching one order needs three.
* `vault`: amounts are zero, one, dust, exactly 100 and an overflowing one; one
  lapse, which also covers the rebuilding of an instance. Conversions run until balances
  are exhausted.
* `settlement`: two built instructions: one order may execute before the other.
  One pool of each kind: WSOL-quoted, classic SPL-quoted with the faction on side A,
  Token-2022-quoted with it on side B. Deadlock is not checked there: traders may
  stop trading.

### Fairness

* `RefreshFairness`, `WF(Refresh(r))`: the engine refreshes, over and over, every
  instance it routes through (`src/README.md:155`, "Jupiter automatically refreshes it").
  It is no part of the specification but a premise of the two properties that need it,
  `EventuallyRoutable` and `TornMapsHeal`. Nothing is assumed of lapsed fetches, and
  pauses, locks and mint changes are never owed an end: `EventuallyRoutable` only speaks
  of a chain that admits swaps for good.
* `WF(Tick)`, `WF(ClockAdvances)`: slots advance and the engine stores them in the clock it
  shares (`AmmContext`). That is all `FairSpec` assumes and all `ReopensOnClock` rests on,
  which is the point of reading the clock in `is_active` and not in `update`.
* `WF(Refresh(d))` for the vault instances, likewise.
* Discovery: `SF(Scan)` (a scan recurs although other fetches keep the engine busy in
  between), `WF(RegisterFetched)` and `WF(RegisterKnownInstances)`: what was fetched is
  processed, and the factory's instances are registered at start-up. Nothing
  is assumed of the chain: `PoolsGetListed` speaks of a pool that stays admissible.

## 4. What is proved

TLAPS checks eight modules. Every invariant and every action property a run checks is a
theorem, for every value of the constants; section 5 lists what is not. Nothing
is assumed but the named assumptions of the modules they extend, which TLC evaluates on
every run. Each strengthening `IInv` below was model-checked before it was proved.

`FactionPoolProofs`, for every set of routes, accounts, faults and bounds:

* `InductiveInvariant`, `Spec => []IInv`
* `TypeCorrect`, `CoherentWhenActive`, `GateIsMirrored`, `IdentityNeverChanges`
  for `TypeOK`, `ActiveIsCoherent`, `GateMirrorsChain` and `IdentityImmutable`
* `RoutesMirrorTheMarket`, `Spec => ImplementsMirror`: the refinement.

`ActiveIsCoherent` is not inductive: an inactive route may become active by a step of
the clock, and a clone copies whatever its original holds. The strengthening
`RouteInv` says of every route, active or not, that it keeps the identity and roles of its
pool and that it is refreshed *iff* its last map was sound, in which case all its
fields are decoded from that map. The argument: the checks of `update` accept a map
exactly when it is sound (`AcceptedIffSound`); each outcome of `update` leaves either
an unrefreshed route of the same identity, or the decoding of the map
(`UpdateRoute`); construction starts unrefreshed; clones copy both the struct and its
history; nothing else touches a route. `GateIsMirrored` then follows because the gate
reads only fields that a sound map determines, and the clock. The refinement has the same
content step by step: an update is `Hand` of the map's offer (`UpdateIsHand`),
construction is `Register`, cloning is `Clone`, the environment moves the market or
stutters.

Assumptions: sentinels differ from data (`SentinelAssumption`); pools keep their
identity on chain and epoch and pool states have their types (`PoolAssumption`); a
parsable `PoolState` of the AMM program with this identity is this pool's, and a
parsable epoch account of the epoch program at the epoch's address is the epoch
(`FaultAssumption`), which is account ownership on Solana.

`QuotesAreExecuted` proves `QuotesMatchExecution` for every u64 amount, both orientations
and all reserves, fees and taxes. It is the one theorem about a specification with a
hypothesis of its own, `LiveNumbers`: the pool has liquidity, fees and taxes are at most the whole and exactly one
side is a faction token. The programs and the admission see to that.

`SwapExecutionProofs`, for any number of swaps and epochs: `BalancesStayU64`, `KIsKept`,
`NobodyProfits`, `UnmovedQuotesArePaid` and `FeesAreReported`, which are all the
properties of the run `swap`. `NoProfitFromThePool` is not inductive, and neither is
`TypeOK`: a single state does not say that a wallet plus a reserve fits u64. The
invariant adds the conservation of both tokens over pool, wallets and collected tax, live
reserves and a product of the reserves no smaller than the opening one. Conservation
bounds the balances; `SwapKeepsK` keeps the product; and a pool that has lost some of one
token must by the product have gained of the other (`ProductForcesOther`), which is the
absence of a profit. `OrderIsQuoted` ties a pending order to its basis.

`VaultProofs`, for any balances, amounts and lapses: `VaultTypesHold`,
`SyncedQuotesArePayable`, `ExactIsExact`, `HeldProfitIsSpared` and `OverlapsAreDeclared`.
The invariant adds conservation per mint, caps that equal the vault as long as the last refresh is current, and
the shape of a built route: the first leg names a positive amount (so it is never read as
"everything"), the second the balance held at the build. `LegMoves` and `RouteSettles` say
what a leg and a route do to the ledger.

`QuoteMintProofs`: `MintTypesHold`, `FeesStayOutOfReach` and `AcceptedRoutesAreNeverShort` for every fee,
amount and number of epochs: an accepted mint has no fee in either schedule, setting one
moves the schedules so that a nonzero one starts two epochs later at the earliest, and the
older one can only become nonzero once that epoch is reached.

`DiscoveryProofs`, for any accounts on chain, any order of the mints' keys and any listings:
`DiscoveryTypesHold`, `MarketsHaveOneRoute`, `AdvertisedPairsAreBuildable`,
`DependenciesAreComplete` and `BootstrapListsAgree`. These speak of the instances held, while
a step makes instances of accounts, which change after they were fetched. `IInv`
(`HeldInstancesAreMade`) says that every instance held is one `from_keyed_account` makes of
some account that can lie at its key, or one of the vault's, and that no two share a key.
From there everything is a fact about a single admitted account (`Admitted`): its
address is derived from its two mints in their order, so one pair has one key; one side
is a faction mint, which settles the directions; the lists are built from its
fields and the protocol's constants, which bounds their length and the programs in them.

`HopProofs`, for any reserves, balances, taxes and amounts and for **paths of any length**:
`HopTypesHold`, `HeldTokensAreSpared`, `NoDustIsLeft` and `UnmovedRoutesPay`. `TypeOK` is not
inductive, since a leg pays into an account that holds something already; `IInv`
(`RoutesAreBuilt`) adds that what is in play of every mint stays within its supply, which
every leg conserves, and that a waiting route is what its basis quotes. What a leg moves is
stated once for both programs (`BuiltLegMoves`), what the first *k* legs have moved is
carried along the path (`SparedStep`, `UnmovedStep`). That is an induction, and the
prover cannot instantiate the library's induction rule; `UpTo` gets the same from the
well-foundedness of the naturals, with a set of indices in the place of a predicate, and
`AmountsUnfold` and `RunUnfolds` unfold the two recursive functions of the model. The
unmoved route then pays its quote because each leg is handed exactly the amount its
hop was quoted on (`ConversionQuoteIsPaid`, `PoolQuoteIsPaid`).

`SettlementProofs`, for any admitted pools, signers, balances, rates and number of orders:
`SettlementTypesHold`, `BuiltListsAreAccepted`, `BuiltListsAskForNoMore`, `OrdersSettleAsBuilt`
and `RoutesSpareLamports`. `IInv` (`PendingOrdersAreBuilt`) says of every pending order that
some instance built it: the lane, the accounts, the list and the arguments belong together
(`TaxedOrder`, `ConversionOrder`). A list is read off once per lane
(`SolBuyList`, `WsolLanesList`, `SplBuyList`, `SplSellList`, `ConvertListRead`): what a program finds
under each name is a record, the *reading*, in which `user_input` or
`vault_a` is a field and not a position. That the program's checks hold (`TaxedAccepted`,
`ConversionAccepted`), that no list grants more than the program uses (`TaxedModest`,
`ConversionModest`) and that it names known addresses follow from the reading alone. The
last two theorems are about the ledger: a transfer moves what it says (`MovePays`), the tax
is collected in full and its shares add up (`CollectPays`, `SplitAddsUp`), and traders,
pools and tax sinks never share an account (`Apart`, `SinksApart`), so an order that
executes after any others spends its amount, pays at least its minimum and leaves the rest
alone. The assumptions are those of `SettlementAssumption`: admitted pools, one per address,
the native mint first in the order of keys.

`AmmMathProofs` proves for every u64 and every width: `TaxNeverExceedsAmount`,
`EffectiveNeverExceedsInput` (total on valid rates, bounded by the input),
`SwapOutputBounded` (no failure with a non-zero denominator, never drains a live
reserve), `SwapKeepsK` (a swap that deposits at least its effective input passes the
programs' k check) and `SplitIsExact`; and of the whole taxed swap, what a settlement
rests on: a quote above zero needs an input above zero (`OutputNeedsInput`), it is what the swap
pays on the reserves it was made on (`BuyQuoteIsPaid`, `SellQuoteIsPaid`), and a swap pays
less than the reserve it pays from (`BuySettles`, `SellSettles`). The literal 10000 is hidden behind
`BPS_DENOM`: the proofs use only that it is a positive number.

## 5. What is only model-checked

* Liveness (`EventuallyRoutable`, `ReopensOnClock`, `TornMapsHeal`, `CapsCatchUp`,
  `PoolsGetListed`, `BootstrapServesEveryDirection`): fairness and
  ENABLED are outside the proof system's reach.
* The disagreement of section 6, which is a counterexample.

## 6. Disagreements between documentation and code

`vault_amm.rs:12-13` and `src/README.md:305` say that quotes never exceed the liquidity the
vault has. A vault instance starts with the cap `u64::MAX`, an `update` that fails
(`vault_amm.rs:134-147`) leaves the cap as it was, and the instance has no
`is_active` of its own, so it goes on quoting. The run `vault_liquidity` shows the
shortest such behaviour: one refresh without the vault account, then a quote the vault
cannot pay. The pool instance does the opposite: it deactivates itself before its
first check. The consequence is a quote that fails on chain, not a loss.

Four smaller remarks, not runs. `vault_amm.rs:40` says of a vault instance's key "PDA derived
from mint pair". That is true of `known_instances()`; an instance built with params keeps
`keyed_account.key` unseen (`vault_amm.rs:90`), and `tests/vault_mint_pair.rs:13` builds them
under random keys, so that one direction can be held under two; `OneRoutePerMarket` is
stated of pools. The error text at `mint_state.rs:56` speaks of a
"current or scheduled" fee; a fee that has been retired, whose zero successor is in force,
is refused as well, since the older schedule still shows it. That is the safe side. `src/README.md:157` says that `update()` also reads
the clock; `update` only keeps the shared reference and `is_active` reads it, which is
what lets `ReopensOnClock` hold. The comment in `get_accounts_len`
(`sol_pool_amm.rs:405`) counts 24 accounts for a buy; the lane now selected has 25, and
the returned 25 covers it.

## 7. What is not modelled

* The byte layouts: offsets, little-endian encoding. They are data; the
  repository pins them with mainnet snapshots and golden vectors. A parser is a
  record or `Malformed`; only `PoolState` is parsed from its length, discriminator and flag
  bytes.
* The derivation of PDAs: addresses are equal iff their seeds are.
* Labels, fee percentages as decimals, logging: no decision depends on them.
* `SwapMode::ExactOut`, which every `quote` refuses.
* The programs' own code, which is not in this repository; they are external, and modelled
  from the IDLs and from the reference pipeline in the tests.
* Cells of different ages in one map cannot be told apart by `update`: no field of the
  accounts orders them. `ActiveIsCoherent` shows that the route mirrors exactly such a map,
  `TornMapsHeal` that it does not outlive the next good one; that the
  map ever existed on chain as a whole nothing can show.
* Data races: `update` takes `&mut self`, and the only state shared between threads is the
  atomic clock.
* The example program and the tests, which call the adapter and are no part of it.

## 8. Plan

The modules were written in this order, the behaviour that matters most first; all are
done.

1. `AmmMath`, `TaxedSwap`, `PoolAdmission`, `QuoteMintPolicy`, `FactionPoolAmm`; the
   proofs of its safety.
2. `VaultAmm` (with `VaultEdges`, `VaultConvert`).
3. `SwapExecution`.
4. `SwapAccounts`, `SwapSettlement`.
5. `AmmDiscovery`: arbitrary accounts and listings, and what an instance says of itself.
6. `QuoteMintLife`: the quote mint between refreshes.
7. `RouteMirror` and the refinement.
8. `HopRoutes`: pools and vault in one atomic route.
9. The proofs about `SwapExecution`, `VaultAmm`, `QuoteMintLife` and the quotes of
   `FactionPoolAmm`.
10. The proofs about `AmmDiscovery`, `HopRoutes` and `SwapSettlement`, and `OverlapIsDeclared`.

What would come next:

* The safety core of the liveness properties as theorems, without fairness: a refresh that
  is handed the chain's own sound state leaves a route that mirrors it, a slot pause that has
  ended keeps no synced route closed, a vault refresh sets the cap to the vault's balance.
* `SwapSettlement`: the conservation of every mint over the whole ledger, and an order on an
  unmoved pool paying exactly its quote rather than its minimum.
* A trade split by the engine over several instances at once, which so far only
  `OverlapIsDeclared` speaks of.
