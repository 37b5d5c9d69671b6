--------------------------- MODULE FactionPoolAmm ----------------------------
(***************************************************************************)
(* The routes Jupiter holds on one CRIME/FRAUD pool: SolPoolAmm            *)
(* (src/src/sol_pool_amm.rs) as seen by the routing engine that builds it, *)
(* clones it, refreshes it from account maps and asks it for quotes.       *)
(*                                                                         *)
(* The chain is the environment: the pool's account, the EpochState and    *)
(* the quote mint change by themselves and the slot advances, which the    *)
(* clock the routes share follows at its own pace.  A refresh is handed    *)
(* the accounts as they are on chain, or, when the fetch lapses, any       *)
(* mixture of cells those accounts can have had, foreign data, wrong       *)
(* owners, unparsable bytes and missing entries.                           *)
(***************************************************************************)
EXTENDS TaxedSwap, PoolAdmission

CONSTANTS
  Routes,         \* the Amm objects: one discovered, the others its clones
  PoolId,         \* the immutable identity of the pool's account
  Pools,          \* the states that account goes through on chain
  EpochStates,    \* the states the EpochState account goes through
  QuoteMints,     \* the cells of the quote mint's account
  PoolFaults, EpochFaults, MintFaults,   \* cells only a lapsed fetch delivers
  Amounts,        \* the amounts quotes are asked for
  MaxSlot,        \* bound on the slot
  MaxLapses,      \* bound on lapsed fetches
  Unborn, NoMap,  \* not yet constructed; no sound account map
  Closed          \* what a mirror offers in place of terms

VARIABLES
  chain,     \* [pool, epoch, mint]: the three accounts on chain
  slot,      \* the slot the chain is at
  clock,     \* the AmmContext's ClockRef, shared by all routes
  amm,       \* the SolPoolAmm struct of every route
  applied,   \* history: the account map of a route's last update, if sound
  lapses     \* lapsed fetches so far

vars == <<chain, slot, clock, amm, applied, lapses>>

U16 == 0 .. 65535

\* The fields of a PoolState that update() insists never change.
Identity == [mintA : STRING, mintB : STRING, vaultA : STRING, vaultB : STRING,
             tokenProgramA : STRING, tokenProgramB : STRING]

PoolState == [id : Identity, reserveA : U64, reserveB : U64, lpFeeBps : U16,
              initialized : BOOLEAN, locked : BOOLEAN]

EpochState == [crimeBuy : U16, crimeSell : U16, fraudBuy : U16, fraudSell : U16,
               pauseEndSlot : U64, tradingPaused : BOOLEAN, initialized : BOOLEAN]

\* The pool's address and the roles of its sides, fixed by its identity.
Key     == CanonicalKey(PoolId.mintA, PoolId.mintB)
Quoted  == QuoteMint(PoolId)
Faction == FactionMint(PoolId)

\* The struct.  Its FactionRole and its two mints agree: the faction mint is one
\* of the two, and what it is quoted in is neither.
AmmState == [pool : PoolState, factionMint : FactionMints,
             quoteMint : STRING \ FactionMints,
             buyTaxBps : U16, sellTaxBps : U16, pauseEndSlot : U64,
             tradingPaused : BOOLEAN, epochInitialized : BOOLEAN,
             stateRefreshed : BOOLEAN]

PoolCells  == [owner : {AMM_PROGRAM_ID}, data : Pools] \cup PoolFaults
EpochCells == [owner : {EPOCH_PROGRAM_ID}, data : EpochStates] \cup EpochFaults
MintCells  == QuoteMints \cup MintFaults

AccountMap == [pool  : PoolCells \cup {Absent},
               epoch : EpochCells \cup {Absent},
               mint  : MintCells \cup {Absent}]

ASSUME PoolAssumption ==
  /\ Pools \subseteq PoolState /\ \A p \in Pools : p.id = PoolId
  /\ EpochStates \subseteq EpochState
\* A sentinel is none of the values it stands beside.
ASSUME SentinelAssumption ==
  /\ Unborn \notin AmmState /\ Closed \notin AmmState /\ Closed # Unborn
  /\ NoMap \notin AccountMap
  /\ Malformed \notin PoolState /\ Malformed \notin EpochState
  /\ Absent \notin [owner : {AMM_PROGRAM_ID}, data : Pools]
  /\ Absent \notin [owner : {EPOCH_PROGRAM_ID}, data : EpochStates]
\* Data that parses as a PoolState of another pool never sits at this pool's
\* address with this pool's identity, and none of it is admitted there.
ASSUME FaultAssumption ==
  /\ \A c \in PoolFaults :
       c # Absent /\ c.data # Malformed /\ c.owner = AMM_PROGRAM_ID =>
         c.data.id # PoolId /\ ~Admits(Key, c)
  /\ \A c \in EpochFaults :
       c # Absent /\ c.data # Malformed => c.owner # EPOCH_PROGRAM_ID
ASSUME BoundAssumption == MaxSlot \in Nat /\ MaxLapses \in Nat

-----------------------------------------------------------------------------
(* SolPoolAmm: the struct and its readers *)

\* A plausible bug: side A is taken for the quote's, as in the bootstrap pools.
FreshQuotedOnSideA(pool) ==
  [pool |-> pool,
   factionMint |-> pool.id.mintB, quoteMint |-> pool.id.mintA,
   buyTaxBps |-> 0, sellTaxBps |-> 0, pauseEndSlot |-> 0,
   tradingPaused |-> FALSE, epochInitialized |-> FALSE, stateRefreshed |-> FALSE]

\* The struct from_keyed_account returns.
Fresh(pool) ==
  [pool |-> pool,
   factionMint |-> FactionMint(pool.id), quoteMint |-> QuoteMint(pool.id),
   buyTaxBps |-> 0, sellTaxBps |-> 0, pauseEndSlot |-> 0,
   tradingPaused |-> FALSE, epochInitialized |-> FALSE, stateRefreshed |-> FALSE]

\* A plausible bug: the quote mint is checked but never asked for.
AccountsWithoutMint(a) == {"pool", "epoch"}

GetAccountsToUpdate(a) ==
  {"pool", "epoch"} \cup (IF a.quoteMint # NATIVE_MINT THEN {"mint"} ELSE {})

\* Plausible bugs: an exclusive slot boundary, an epoch account that was never
\* initialized, and a pause that no clock ends.
ActiveAfterBoundary(a) ==
  /\ a.pool.initialized /\ ~a.pool.locked /\ a.epochInitialized
  /\ a.stateRefreshed /\ ~a.tradingPaused
  /\ clock > a.pauseEndSlot
ActiveOnBlankEpoch(a) ==
  /\ a.pool.initialized /\ ~a.pool.locked
  /\ a.stateRefreshed /\ ~a.tradingPaused
  /\ clock >= a.pauseEndSlot
ActiveWithoutClock(a) ==
  /\ a.pool.initialized /\ ~a.pool.locked /\ a.epochInitialized
  /\ a.stateRefreshed /\ ~a.tradingPaused
  /\ a.pauseEndSlot = 0

IsActive(a) ==
  /\ a.pool.initialized
  /\ ~a.pool.locked
  /\ a.epochInitialized
  /\ a.stateRefreshed
  /\ ~a.tradingPaused
  /\ clock >= a.pauseEndSlot

\* A plausible bug: the quote side is taken to be side A.
ReserveOfSideA(a) == a.pool.reserveA

\* (quote reserve, faction reserve), whichever side the quote mint is on
ReserveQuote(a) ==
  IF a.pool.id.mintA = a.quoteMint THEN a.pool.reserveA ELSE a.pool.reserveB
ReserveFaction(a) ==
  IF a.pool.id.mintA = a.quoteMint THEN a.pool.reserveB ELSE a.pool.reserveA

\* SwapMode::ExactIn; ExactOut is refused outright.
Quote(a, input, output, amount) ==
  IF ~ValidateMintPair(a, input, output) \/ ~IsActive(a) THEN Err
  ELSE IF input = a.quoteMint
  THEN QuoteBuy(ReserveQuote(a), ReserveFaction(a),
                a.pool.lpFeeBps, a.buyTaxBps, amount)
  ELSE QuoteSell(ReserveQuote(a), ReserveFaction(a),
                 a.pool.lpFeeBps, a.sellTaxBps, amount)

\* A plausible bug: the rates of the opposite direction.
TaxOfOtherSide(epoch, isCrime, isBuy) ==
  IF isCrime
  THEN IF isBuy THEN epoch.crimeSell ELSE epoch.crimeBuy
  ELSE IF isBuy THEN epoch.fraudSell ELSE epoch.fraudBuy

GetTaxBps(epoch, isCrime, isBuy) ==
  IF isCrime
  THEN IF isBuy THEN epoch.crimeBuy ELSE epoch.crimeSell
  ELSE IF isBuy THEN epoch.fraudBuy ELSE epoch.fraudSell

-----------------------------------------------------------------------------
(* update(): its checks in the order the code makes them, and what each    *)
(* outcome has written by the time it returns.                             *)

\* A plausible bug: any pool of the program is taken for this one.
AcceptsAnyPool(a, cell) == Parses(cell) /\ cell.owner = AMM_PROGRAM_ID

AcceptsPool(a, cell) ==
  /\ Parses(cell)
  /\ cell.owner = AMM_PROGRAM_ID
  /\ cell.data.id = a.pool.id

AcceptsEpoch(cell) == Parses(cell) /\ cell.owner = EPOCH_PROGRAM_ID

AcceptsMint(a, cell) ==
  a.quoteMint # NATIVE_MINT =>
    ValidateQuoteMint(cell, TokenProgramOf(a.pool.id, a.quoteMint))

\* A plausible bug: the flag of the last good refresh outlives a failed one.
StillRefreshed(a) == a

\* The first thing update() does: a failed refresh leaves the route inactive.
Deactivated(a) == [a EXCEPT !.stateRefreshed = FALSE]

WithEpoch(a, epoch) ==
  LET isCrime == a.factionMint = CRIME_MINT
  IN  [a EXCEPT !.buyTaxBps        = GetTaxBps(epoch, isCrime, TRUE),
                !.sellTaxBps       = GetTaxBps(epoch, isCrime, FALSE),
                !.pauseEndSlot     = epoch.pauseEndSlot,
                !.tradingPaused    = epoch.tradingPaused,
                !.epochInitialized = epoch.initialized]

PoolRejected(a, m)  == ~AcceptsPool(a, m.pool)
EpochRejected(a, m) == AcceptsPool(a, m.pool) /\ ~AcceptsEpoch(m.epoch)
MintRejected(a, m)  ==
  AcceptsPool(a, m.pool) /\ AcceptsEpoch(m.epoch) /\ ~AcceptsMint(a, m.mint)
AllAccepted(a, m) ==
  AcceptsPool(a, m.pool) /\ AcceptsEpoch(m.epoch) /\ AcceptsMint(a, m.mint)

\* The epoch fields are written before the quote mint is validated.
AfterMintRejected(a, m) == WithEpoch(Deactivated(a), m.epoch.data)

\* A plausible bug: the parsed pool is checked and then dropped.
AfterAcceptedOldPool(a, m) ==
  [WithEpoch(a, m.epoch.data) EXCEPT !.stateRefreshed = TRUE]

AfterAccepted(a, m) ==
  [WithEpoch(a, m.epoch.data) EXCEPT !.pool = m.pool.data, !.stateRefreshed = TRUE]

-----------------------------------------------------------------------------
(* What the chain and a map of its accounts stand for, apart from the code *)

Current == [pool  |-> [owner |-> AMM_PROGRAM_ID, data |-> chain.pool],
            epoch |-> [owner |-> EPOCH_PROGRAM_ID, data |-> chain.epoch],
            mint  |-> chain.mint]

\* Jupiter hands a route the accounts it declared and no others.
Delivered(a, cells) ==
  LET Cell(name, cell) == IF name \in GetAccountsToUpdate(a) THEN cell ELSE Absent
  IN  [pool  |-> Cell("pool", cells.pool),
       epoch |-> Cell("epoch", cells.epoch),
       mint  |-> Cell("mint", cells.mint)]

SafeQuoteMint(cell) ==
  Quoted # NATIVE_MINT => ValidateQuoteMint(cell, TokenProgramOf(PoolId, Quoted))

\* A map that holds this pool's own accounts, in states they can have, and a
\* quote mint the programs accept.
MapSound(m) ==
  /\ m.pool \in [owner : {AMM_PROGRAM_ID}, data : Pools]
  /\ m.epoch \in [owner : {EPOCH_PROGRAM_ID}, data : EpochStates]
  /\ SafeQuoteMint(m.mint)

\* The programs' own gate on a swap: pool lifecycle, manual pause, slot pause.
OnChainAdmits ==
  /\ chain.pool.initialized /\ ~chain.pool.locked
  /\ chain.epoch.initialized /\ ~chain.epoch.tradingPaused
  /\ slot >= chain.epoch.pauseEndSlot
  /\ SafeQuoteMint(chain.mint)

-----------------------------------------------------------------------------
(* Actions *)

Init ==
  /\ chain \in [pool : Pools, epoch : EpochStates, mint : QuoteMints]
  /\ slot = 0 /\ clock = 0
  /\ amm = [r \in Routes |-> Unborn]
  /\ applied = [r \in Routes |-> NoMap]
  /\ lapses = 0

FromKeyedAccount(r, key, cell) ==
  /\ amm[r] = Unborn
  /\ Admits(key, cell)
  /\ amm' = [amm EXCEPT ![r] = Fresh(cell.data)]
  /\ UNCHANGED <<chain, slot, clock, applied, lapses>>

CloneAmm(r, s) ==
  /\ amm[r] # Unborn /\ amm[s] = Unborn
  /\ amm' = [amm EXCEPT ![s] = amm[r]]
  /\ applied' = [applied EXCEPT ![s] = applied[r]]
  /\ UNCHANGED <<chain, slot, clock, lapses>>

Update(r, m) ==
  /\ \/ /\ PoolRejected(amm[r], m) \/ EpochRejected(amm[r], m)
        /\ amm' = [amm EXCEPT ![r] = Deactivated(amm[r])]
     \/ /\ MintRejected(amm[r], m)
        /\ amm' = [amm EXCEPT ![r] = AfterMintRejected(amm[r], m)]
     \/ /\ AllAccepted(amm[r], m)
        /\ amm' = [amm EXCEPT ![r] = AfterAccepted(amm[r], m)]
  /\ applied' = [applied EXCEPT ![r] = IF MapSound(m) THEN m ELSE NoMap]
  /\ UNCHANGED <<chain, slot, clock>>

\* The engine fetches the declared accounts and refreshes the route.
Refresh(r) ==
  /\ amm[r] # Unborn
  /\ Update(r, Delivered(amm[r], Current))
  /\ UNCHANGED lapses

\* The same with a fetch that went wrong, or whose cells are of several ages.
LapsedRefresh(r, cells) ==
  /\ amm[r] # Unborn
  /\ lapses < MaxLapses
  /\ Update(r, Delivered(amm[r], cells))
  /\ lapses' = lapses + 1

\* The chain moves on: swaps, the lock, epoch rolls, pauses, the mint's issuer.
PoolChanges(p) ==
  /\ chain' = [chain EXCEPT !.pool = p]
  /\ UNCHANGED <<slot, clock, amm, applied, lapses>>

EpochChanges(e) ==
  /\ chain' = [chain EXCEPT !.epoch = e]
  /\ UNCHANGED <<slot, clock, amm, applied, lapses>>

QuoteMintChanges(c) ==
  /\ chain' = [chain EXCEPT !.mint = c]
  /\ UNCHANGED <<slot, clock, amm, applied, lapses>>

Tick ==
  /\ slot < MaxSlot
  /\ slot' = slot + 1
  /\ UNCHANGED <<chain, clock, amm, applied, lapses>>

\* The engine stores a later slot in the clock, skipping any it did not hear of.
ClockAdvances ==
  /\ \E now \in clock + 1 .. slot : clock' = now
  /\ UNCHANGED <<chain, slot, amm, applied, lapses>>

Next ==
  \/ \E r \in Routes, cell \in PoolCells : FromKeyedAccount(r, Key, cell)
  \/ \E r, s \in Routes : CloneAmm(r, s)
  \/ \E r \in Routes : Refresh(r)
  \/ \E r \in Routes, cells \in AccountMap : LapsedRefresh(r, cells)
  \/ \E p \in Pools : PoolChanges(p)
  \/ \E e \in EpochStates : EpochChanges(e)
  \/ \E c \in QuoteMints : QuoteMintChanges(c)
  \/ Tick
  \/ ClockAdvances

Spec == Init /\ [][Next]_vars

\* Slots keep coming and the clock hears of them.
FairSpec == Spec /\ WF_vars(Tick) /\ WF_vars(ClockAdvances)

\* The engine keeps refreshing every route it holds: assumed only by the
\* properties that need it.
RefreshFairness == \A r \in Routes : WF_vars(Refresh(r))

-----------------------------------------------------------------------------
(* Invariants *)

\* Every variable has its type; a route is Unborn or a well-formed struct, its
\* faction mint a faction's and its quote mint none, whichever side each is on; the
\* clock never runs ahead of the slot.
TypeOK ==
  /\ chain \in [pool : Pools, epoch : EpochStates, mint : QuoteMints]
  /\ slot \in 0 .. MaxSlot /\ clock \in 0 .. slot
  /\ amm \in [Routes -> AmmState \cup {Unborn}]
  /\ applied \in [Routes -> AccountMap \cup {NoMap}]
  /\ lapses \in 0 .. MaxLapses

Active(r) == amm[r] # Unborn /\ IsActive(amm[r])

\* The route that the cells of one sound map describe.
Decoded(m) ==
  [pool |-> m.pool.data, factionMint |-> Faction, quoteMint |-> Quoted,
   buyTaxBps  |-> GetTaxBps(m.epoch.data, Faction = CRIME_MINT, TRUE),
   sellTaxBps |-> GetTaxBps(m.epoch.data, Faction = CRIME_MINT, FALSE),
   pauseEndSlot     |-> m.epoch.data.pauseEndSlot,
   tradingPaused    |-> m.epoch.data.tradingPaused,
   epochInitialized |-> m.epoch.data.initialized,
   stateRefreshed   |-> TRUE]

\* A route that serves quotes serves them from ONE account map: its reserves,
\* both taxes and both pause gates are what the last map handed to update()
\* says, that map passed every check, the quote mint's included, and nothing
\* of an earlier or of a rejected map is mixed in.  update() writes the epoch
\* fields before its last check can still fail, so this rests on the order of
\* the writes and on the flag that is cleared first and set last.
ActiveIsCoherent ==
  \A r \in Routes : Active(r) =>
    applied[r] # NoMap /\ MapSound(applied[r]) /\ amm[r] = Decoded(applied[r])

\* The last map a route was refreshed from is the chain's present state.
InSync(r) ==
  /\ amm[r] # Unborn /\ applied[r] # NoMap
  /\ applied[r] = Delivered(amm[r], Current)

\* A route in sync with the chain never opens before the programs would admit
\* a swap, however late the shared clock runs, and once the clock has caught up
\* it is open exactly when they would: at the inclusive slot boundary, under a
\* manual pause, on a locked or uninitialized pool, whatever the slot and the
\* clock have done since the refresh.
GateMirrorsChain ==
  \A r \in Routes : InSync(r) =>
    /\ IsActive(amm[r]) => OnChainAdmits
    /\ clock = slot /\ OnChainAdmits => IsActive(amm[r])

\* The programs' swap by role: reserves looked up by mint, the tax of the
\* pool's own faction, and the formula of the tests' on-chain reference.
ReserveOf(p, mint) == IF p.id.mintA = mint THEN p.reserveA ELSE p.reserveB

ExecutedBuy(amount) ==
  LET tax == IF Faction = CRIME_MINT THEN chain.epoch.crimeBuy ELSE chain.epoch.fraudBuy
      net == amount - (amount * tax) \div 10000
      eff == (net * (10000 - chain.pool.lpFeeBps)) \div 10000
  IN  (ReserveOf(chain.pool, Faction) * eff) \div (ReserveOf(chain.pool, Quoted) + eff)

ExecutedSell(amount) ==
  LET tax == IF Faction = CRIME_MINT THEN chain.epoch.crimeSell ELSE chain.epoch.fraudSell
      eff == (amount * (10000 - chain.pool.lpFeeBps)) \div 10000
      gross == (ReserveOf(chain.pool, Quoted) * eff)
                 \div (ReserveOf(chain.pool, Faction) + eff)
  IN  gross - (gross * tax) \div 10000

\* Whatever pair and amount an open route in sync with the chain is asked for,
\* it quotes what the swap would pay, for the two directed pairs of the pool
\* and no other, whichever side of the account the quote mint is on.
QuotesMatchExecution ==
  \A r \in Routes : InSync(r) /\ OnChainAdmits /\ clock = slot =>
    \A input, output \in DOMAIN MintRank, amount \in Amounts :
      LET q == Quote(amm[r], input, output, amount)
      IN  /\ q.ok <=> <<input, output>> \in {<<Quoted, Faction>>, <<Faction, Quoted>>}
          /\ q.ok => q.out = IF input = Quoted THEN ExecutedBuy(amount)
                                               ELSE ExecutedSell(amount)

\* What makes the invariants above inductive: a route keeps its identity and
\* roles from its construction, and it is refreshed exactly when its last map
\* was sound, with every field decoded from that map.
RouteInv(r) ==
  /\ amm[r] = Unborn => applied[r] = NoMap
  /\ amm[r] # Unborn =>
       /\ amm[r].pool.id = PoolId
       /\ amm[r].factionMint = Faction
       /\ amm[r].quoteMint = Quoted
       /\ amm[r].stateRefreshed <=> applied[r] # NoMap
  /\ applied[r] # NoMap => MapSound(applied[r]) /\ amm[r] = Decoded(applied[r])

IInv == TypeOK /\ \A r \in Routes : RouteInv(r)

-----------------------------------------------------------------------------
(* The promise of RouteMirror, kept by these routes *)

SoundTerms == {Decoded(m) : m \in {m \in AccountMap : MapSound(m)}}

MirrorOffer(m) == IF MapSound(m) THEN Decoded(m) ELSE Closed

MirrorHanded ==
  [r \in Routes |-> IF applied[r] = NoMap THEN Closed ELSE MirrorOffer(applied[r])]

\* A route offers what its struct says as soon as it calls itself refreshed;
\* whether the gates among those terms are open is for the clock to say.
MirrorOffered ==
  [r \in Routes |-> IF amm[r] = Unborn THEN Unborn
                    ELSE IF amm[r].stateRefreshed THEN amm[r] ELSE Closed]

Mirror == INSTANCE RouteMirror WITH
  Terms <- SoundTerms, market <- MirrorOffer(Current),
  handed <- MirrorHanded, offer <- MirrorOffered

\* update(), with its checks and writes in whatever order and whatever it is
\* handed, is one atomic step of the mirror: all of a sound map or closed.
ImplementsMirror == Mirror!Spec

\* A map whose cells were fetched at different slots passes every check and is
\* served; it, a rejected map and a late one are all outlived once the chain
\* settles, by every route and its clones, as long as they are refreshed.
TornMapsHeal == RefreshFairness => Mirror!OffersSettle

-----------------------------------------------------------------------------
(* Action and liveness properties *)

\* No refresh, whatever it is handed, turns a route into a route of another
\* pool: the identity and the roles of a constructed route never change.
IdentityImmutable ==
  [][\A r \in Routes : amm[r] # Unborn =>
       /\ amm'[r] # Unborn
       /\ amm'[r].pool.id = amm[r].pool.id
       /\ amm'[r].factionMint = amm[r].factionMint
       /\ amm'[r].quoteMint = amm[r].quoteMint]_vars

\* If the programs admit swaps from some point on, every route that keeps being
\* refreshed becomes and stays active: lapsed fetches, pauses and rejected mints
\* leave no route stuck.
EventuallyRoutable ==
  RefreshFairness =>
    \A r \in Routes : <>[](amm[r] # Unborn /\ OnChainAdmits) => <>[]Active(r)

BlockedBySlotOnly(r) ==
  /\ amm[r] # Unborn
  /\ amm[r].stateRefreshed
  /\ amm[r].pool.initialized /\ ~amm[r].pool.locked
  /\ amm[r].epochInitialized /\ ~amm[r].tradingPaused
  /\ ~IsActive(amm[r])

\* A route that only the slot gate blocks reopens by the shared clock alone,
\* without another account refresh.
ReopensOnClock == \A r \in Routes : []<>~BlockedBySlotOnly(r)
=============================================================================
